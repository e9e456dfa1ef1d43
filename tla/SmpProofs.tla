------------------------------ MODULE SmpProofs -----------------------------
(***************************************************************************)
(* Proofs about Smp, for any number of CPUs, sending threads and calls;    *)
(* about IoInterrupts, for any drivers, lines, vectors and overrides;      *)
(* about Network, for rings of any size and any traffic; and about         *)
(* MCInterrupts, which puts them beside each other.                        *)
(***************************************************************************)
EXTENDS MCInterrupts, WellFoundedInduction, FiniteSetTheorems, TLAPS

\* The specification of Smp without its fairness, which no proof here uses.
SmpSteps == SmpInit /\ [][Next]_vars

\* x is on the list s; nothing is on it twice.
Among(x, s) == \E i \in 1 .. Len(s) : s[i] = x
Distinct(s) == \A i, j \in 1 .. Len(s) : s[i] = s[j] => i = j

\* Where the event e is on its way to CPU c: its sender has still to insert it,
\* it is in the list, its function runs, or its reference is about to be dropped.
Todo(e, c) == \E t \in Threads : th[t].pc = "insert" /\ th[t].event = e /\ Among(c, th[t].todo)
Listed(e, c) == Among(e, EventList[c])
Handling(e, c) == isr[c].pc = "function" /\ isr[c].event = e
Dropping(e, c) == isr[c].pc = "dereference" /\ isr[c].event = e
Pending(e) == {c \in CPUs : Todo(e, c) \/ Listed(e, c) \/ Handling(e, c) \/ Dropping(e, c)}

\* CPU c is about to signal e; the sender t waits for e, or will; t was woken.
Signals(e, c) == isr[c].pc = "signal" /\ isr[c].event = e
Waiting(e, t) == /\ th[t].event = e
                 /\ th[t].pc \in {"wait", "dereference"} \/ (th[t].pc = "insert" /\ th[t].wait)
Answered(e, t) == th[t].pc = "dereference" /\ th[t].event = e

\* The values the variables can take.
IsrLabels == {"none", "take", "function", "dereference", "signal", "eoi"}
IpcEvents == [state : {"none", "alive", "freed"}, ref : Int, SignalTermination : BOOLEAN,
              signaled : BOOLEAN, targets : SUBSET CPUs, handled : SUBSET CPUs]
Calls == [pc : {"out", "insert", "wait", "dereference"}, mode : Modes \union {"self"},
          dest : SUBSET CPUs, wait : BOOLEAN, event : 0 .. MaxSends, todo : Seq(CPUs)]
Types ==
    /\ event \in [Events -> IpcEvents]
    /\ sends \in 0 .. MaxSends /\ cpu \in [Threads -> CPUs]
    /\ EventList \in [CPUs -> Seq(Events)]
    /\ isr \in [CPUs -> [pc : IsrLabels, event : 0 .. MaxSends]]
    /\ \A c \in CPUs : isr[c].pc \in {"function", "dereference", "signal"} => isr[c].event \in Events
    /\ th \in [Threads -> Calls]

\* Every call has an event of its own, and goes once to each list.
SenderInv ==
    /\ \A t \in Threads : /\ th[t].pc # "out" => th[t].event \in 1 .. sends
                          /\ th[t].pc # "insert" => th[t].todo = <<>>
                          /\ Distinct(th[t].todo)
    /\ \A t, u \in Threads : th[t].pc # "out" /\ th[u].pc # "out" /\ th[t].event = th[u].event => t = u
    /\ \A c \in CPUs : Distinct(EventList[c])

\* An event that is not allocated is nowhere.  One that is has a reference for
\* every CPU that has not dropped it and one for a waiter, is in one place for
\* each CPU, has been handled where it is in none, and is signaled and freed
\* when it is on its way to no CPU any more.
NowhereInv(e) ==
    /\ ~event[e].signaled
    /\ \A c \in CPUs : ~Todo(e, c) /\ ~Listed(e, c) /\ ~Handling(e, c) /\ ~Dropping(e, c) /\ ~Signals(e, c)
    /\ \A t \in Threads : ~Waiting(e, t)
RefInv(e) ==
    /\ e <= sends
    /\ event[e].ref = Cardinality(Pending(e)) + (IF event[e].SignalTermination THEN 1 ELSE 0)
    /\ event[e].ref > 0
    /\ event[e].SignalTermination <=> \E t \in Threads : Waiting(e, t)
PhaseInv(e) ==
    \A c \in CPUs :
        /\ c \in event[e].targets <=> c \in event[e].handled \/ Todo(e, c) \/ Listed(e, c) \/ Handling(e, c)
        /\ c \in event[e].handled => ~Todo(e, c) /\ ~Listed(e, c) /\ ~Handling(e, c)
        /\ Dropping(e, c) => c \in event[e].handled
        /\ Todo(e, c) => ~Listed(e, c) /\ ~Handling(e, c)
        /\ Listed(e, c) => ~Handling(e, c)
SignalInv(e) ==
    /\ \/ event[e].signaled
       \/ \E c \in CPUs : Signals(e, c)
       \/ \E t \in Threads : Answered(e, t)
       => /\ event[e].SignalTermination
          /\ \A c \in CPUs : ~Todo(e, c) /\ ~Listed(e, c) /\ ~Handling(e, c) /\ ~Dropping(e, c)
    /\ event[e].signaled => \A t \in Threads : ~Answered(e, t)
    /\ \A c \in CPUs : Signals(e, c) => /\ ~event[e].signaled
                                        /\ \A t \in Threads : ~Answered(e, t)
                                        /\ \A d \in CPUs : Signals(e, d) => d = c
EventOK(e) == IF event[e].state = "alive" THEN RefInv(e) /\ PhaseInv(e) /\ SignalInv(e)
              ELSE NowhereInv(e)

\* The inductive invariant.
SmpInv == Types /\ SenderInv /\ \A e \in Events : EventOK(e)

-----------------------------------------------------------------------------
(* Lists and sets.                                                         *)

\* InsertTailList of an event that is not on the list.
LEMMA AppendedList ==
    ASSUME NEW S, NEW s \in Seq(S), NEW x \in S
    PROVE  /\ Append(s, x) \in Seq(S)
           /\ \A t : Among(t, Append(s, x)) <=> Among(t, s) \/ t = x
           /\ Distinct(s) /\ ~Among(x, s) => Distinct(Append(s, x))
<1>1. /\ Append(s, x) \in Seq(S) /\ Len(Append(s, x)) = Len(s) + 1 /\ Len(s) \in Nat
      /\ Append(s, x)[Len(s) + 1] = x
      /\ \A i \in 1 .. Len(s) : Append(s, x)[i] = s[i]
  OBVIOUS
<1> QED
  BY <1>1 DEF Among, Distinct

\* RemoveHeadList.
LEMMA TailOfList ==
    ASSUME NEW S, NEW s \in Seq(S), s # <<>>, Distinct(s)
    PROVE  /\ Tail(s) \in Seq(S) /\ Head(s) \in S
           /\ Among(Head(s), s)
           /\ \A t : Among(t, Tail(s)) <=> Among(t, s) /\ t # Head(s)
           /\ Distinct(Tail(s))
<1>1. /\ Tail(s) \in Seq(S) /\ Len(Tail(s)) = Len(s) - 1 /\ Len(s) \in Nat /\ Len(s) >= 1
      /\ Head(s) = s[1] /\ Head(s) \in S
      /\ \A i \in 1 .. Len(Tail(s)) : Tail(s)[i] = s[i + 1]
  OBVIOUS
<1>2. Among(Head(s), s)
  BY <1>1 DEF Among
<1>3. ASSUME NEW t PROVE Among(t, Tail(s)) <=> Among(t, s) /\ t # Head(s)
  <2>1. ASSUME NEW i \in 1 .. Len(Tail(s)), Tail(s)[i] = t PROVE Among(t, s) /\ t # Head(s)
    <3>1. i + 1 \in 1 .. Len(s) /\ s[i + 1] = t /\ 1 \in 1 .. Len(s) /\ i + 1 # 1
      BY <1>1, <2>1
    <3> QED
      BY <1>1, <3>1 DEF Among, Distinct
  <2>2. ASSUME NEW i \in 1 .. Len(s), s[i] = t, t # Head(s) PROVE Among(t, Tail(s))
    <3>1. i - 1 \in 1 .. Len(Tail(s)) /\ Tail(s)[i - 1] = t
      BY <1>1, <2>2
    <3> QED
      BY <3>1 DEF Among
  <2> QED
    BY <2>1, <2>2 DEF Among
<1>4. Distinct(Tail(s))
  <2> SUFFICES ASSUME NEW i \in 1 .. Len(Tail(s)), NEW j \in 1 .. Len(Tail(s)), Tail(s)[i] = Tail(s)[j]
               PROVE  i = j
    BY DEF Distinct
  <2>1. i + 1 \in 1 .. Len(s) /\ j + 1 \in 1 .. Len(s) /\ s[i + 1] = s[j + 1]
    BY <1>1
  <2>2. i + 1 = j + 1
    BY <2>1 DEF Distinct
  <2> QED
    BY <1>1, <2>2
<1> QED
  BY <1>1, <1>2, <1>3, <1>4

\* The sequence of the CPUs of a set: all of them, each once.
LEMMA SetAsList ==
    ASSUME NEW S, IsFiniteSet(S)
    PROVE  /\ SetToSeq(S) \in Seq(S) /\ Distinct(SetToSeq(S))
           /\ \A x : Among(x, SetToSeq(S)) <=> x \in S
<1> DEFINE n == Cardinality(S)
<1>1. n \in Nat /\ ExistsBijection(1 .. n, S)
  BY FS_CardinalityType
<1>2. \E f \in [1 .. n -> S] : IsInjective(f)
  BY <1>1 DEF ExistsBijection, Bijection, Injection
<1>3. SetToSeq(S) \in [1 .. n -> S] /\ IsInjective(SetToSeq(S))
  BY <1>2 DEF SetToSeq
<1>4. SetToSeq(S) \in Injection(1 .. n, S)
  BY <1>3 DEF Injection
<1>5. Cardinality(1 .. n) = n
  BY <1>1, FS_Interval
<1>6. SetToSeq(S) \in Surjection(1 .. n, S)
  BY <1>4, <1>5, FS_Injection
<1>7. \A x \in S : \E i \in 1 .. n : SetToSeq(S)[i] = x
  BY <1>6 DEF Surjection
<1>8. SetToSeq(S) \in Seq(S) /\ Len(SetToSeq(S)) = n
  BY <1>1, <1>3
<1> QED
  BY <1>3, <1>7, <1>8 DEF Among, Distinct, IsInjective

\* How many CPUs an event is on its way to, when one of them is done.
LEMMA CountCpus ==
    ASSUME NEW S \in SUBSET CPUs, NEW c \in CPUs
    PROVE  /\ IsFiniteSet(S) /\ Cardinality(S) \in Nat
           /\ c \in S => Cardinality(S \ {c}) = Cardinality(S) - 1
           /\ S = {} <=> Cardinality(S) = 0
<1>1. IsFiniteSet(S)
  BY SmpAssumption, FS_Subset DEF SmpAssumption
<1>2. Cardinality(S) \in Nat
  BY <1>1, FS_CardinalityType
<1>3. c \in S => Cardinality(S \ {c}) = Cardinality(S) - 1
  BY <1>1, FS_RemoveElement
<1>4. S = {} <=> Cardinality(S) = 0
  BY <1>1, FS_EmptySet
<1> QED
  BY <1>1, <1>2, <1>3, <1>4

\* A freed event, and one that was never allocated.
LEMMA FreedEvent ==
    /\ Freed \in IpcEvents /\ NotAllocated \in IpcEvents
    /\ Freed.state = "freed" /\ ~Freed.signaled
    /\ NotAllocated.state = "none" /\ ~NotAllocated.signaled
<1>1. NotAllocated \in IpcEvents
  BY DEF NotAllocated, IpcEvents
<1>2. NotAllocated.state = "none" /\ NotAllocated.signaled = FALSE
  BY DEF NotAllocated
<1>3. Freed \in IpcEvents /\ Freed.state = "freed" /\ Freed.signaled = NotAllocated.signaled
  BY <1>1 DEF Freed, IpcEvents
<1> QED
  BY <1>1, <1>2, <1>3

-----------------------------------------------------------------------------
(* Every step keeps the invariant.                                         *)

\* What a step does not touch of an event stays right.
LEMMA SameEvent ==
    ASSUME NEW e \in Events, EventOK(e), event'[e] = event[e], sends \in Nat, sends' \in Nat, sends <= sends',
           \A c \in CPUs : /\ Todo(e, c)' <=> Todo(e, c)
                           /\ Listed(e, c)' <=> Listed(e, c)
                           /\ Handling(e, c)' <=> Handling(e, c)
                           /\ Dropping(e, c)' <=> Dropping(e, c)
                           /\ Signals(e, c)' <=> Signals(e, c),
           \A t \in Threads : (Waiting(e, t)' <=> Waiting(e, t)) /\ (Answered(e, t)' <=> Answered(e, t))
    PROVE  EventOK(e)'
<1>1. Pending(e)' = Pending(e)
  BY DEF Pending
<1>2. NowhereInv(e) => NowhereInv(e)'
  BY DEF NowhereInv
<1>3. RefInv(e) => RefInv(e)'
  BY <1>1, SmpAssumption DEF RefInv, SmpAssumption, Events
<1>4. PhaseInv(e) => PhaseInv(e)'
  BY DEF PhaseInv
<1>5. SignalInv(e) => SignalInv(e)'
  BY DEF SignalInv
<1> QED
  BY <1>2, <1>3, <1>4, <1>5 DEF EventOK

\* A step that does not touch events, lists, handlers and senders.
LEMMA SameState ==
    ASSUME SmpInv, UNCHANGED <<event, sends, EventList, isr, th>>, cpu' \in [Threads -> CPUs]
    PROVE  SmpInv'
<1>1. Types'
  BY DEF SmpInv, Types
<1>2. SenderInv'
  BY DEF SmpInv, SenderInv
<1>3. ASSUME NEW e \in Events PROVE EventOK(e)'
  <2>1. /\ \A c \in CPUs : /\ Todo(e, c)' <=> Todo(e, c)
                           /\ Listed(e, c)' <=> Listed(e, c)
                           /\ Handling(e, c)' <=> Handling(e, c)
                           /\ Dropping(e, c)' <=> Dropping(e, c)
                           /\ Signals(e, c)' <=> Signals(e, c)
        /\ \A t \in Threads : (Waiting(e, t)' <=> Waiting(e, t)) /\ (Answered(e, t)' <=> Answered(e, t))
    BY DEF Todo, Listed, Handling, Dropping, Signals, Waiting, Answered
  <2>2. EventOK(e) /\ event'[e] = event[e] /\ sends \in Nat /\ sends' \in Nat /\ sends <= sends'
    BY SmpAssumption DEF SmpInv, Types, SmpAssumption
  <2> QED
    BY <2>1, <2>2, SameEvent
<1> QED
  BY <1>1, <1>2, <1>3 DEF SmpInv

\* A sender that has an event, and a handler that works on one, work on an
\* event that is allocated.
LEMMA UsedIsAlive ==
    ASSUME SmpInv
    PROVE  /\ \A t \in Threads : th[t].pc # "out" => th[t].event \in Events
           /\ \A t \in Threads : /\ th[t].pc \in {"wait", "dereference"}
                                    \/ (th[t].pc = "insert" /\ (th[t].wait \/ th[t].todo # <<>>))
                                 => event[th[t].event].state = "alive"
           /\ \A c \in CPUs : isr[c].pc \in {"function", "dereference", "signal"}
                              => isr[c].event \in Events /\ event[isr[c].event].state = "alive"
           /\ \A c \in CPUs, e \in Events : Listed(e, c) => event[e].state = "alive"
<1>0. sends \in 0 .. MaxSends /\ MaxSends \in Nat
  BY SmpAssumption DEF SmpInv, Types, SmpAssumption
<1>1. \A e \in Events : event[e].state # "alive" => NowhereInv(e)
  BY DEF SmpInv, EventOK
<1>2. ASSUME NEW t \in Threads, th[t].pc # "out" PROVE th[t].event \in Events
  BY <1>0, <1>2 DEF SmpInv, SenderInv, Events
<1>3. ASSUME NEW t \in Threads,
             th[t].pc \in {"wait", "dereference"} \/ (th[t].pc = "insert" /\ th[t].wait)
      PROVE  event[th[t].event].state = "alive"
  <2>1. Waiting(th[t].event, t) /\ th[t].event \in Events
    BY <1>2, <1>3 DEF Waiting
  <2> QED
    BY <1>1, <2>1 DEF NowhereInv
<1>4. ASSUME NEW t \in Threads, th[t].pc = "insert", th[t].todo # <<>>
      PROVE  event[th[t].event].state = "alive"
  <2>1. th[t].todo \in Seq(CPUs) /\ Distinct(th[t].todo) /\ th[t].event \in Events
    BY <1>2, <1>4 DEF SmpInv, Types, SenderInv, Calls
  <2>2. Among(Head(th[t].todo), th[t].todo) /\ Head(th[t].todo) \in CPUs
    BY <1>4, <2>1, TailOfList
  <2>3. Todo(th[t].event, Head(th[t].todo))
    BY <1>4, <2>2 DEF Todo
  <2> QED
    BY <1>1, <2>1, <2>2, <2>3 DEF NowhereInv
<1>5. ASSUME NEW c \in CPUs, isr[c].pc \in {"function", "dereference", "signal"}
      PROVE  isr[c].event \in Events /\ event[isr[c].event].state = "alive"
  <2>1. isr[c].event \in Events
    BY <1>5 DEF SmpInv, Types
  <2>2. Handling(isr[c].event, c) \/ Dropping(isr[c].event, c) \/ Signals(isr[c].event, c)
    BY <1>5 DEF Handling, Dropping, Signals
  <2> QED
    BY <1>1, <2>1, <2>2 DEF NowhereInv
<1>6. ASSUME NEW c \in CPUs, NEW e \in Events, Listed(e, c) PROVE event[e].state = "alive"
  BY <1>1, <1>6 DEF NowhereInv
<1> QED
  BY <1>2, <1>3, <1>4, <1>5, <1>6

\* The CPU accepts a request, or returns from the handler: no event is touched.
LEMMA HandlerEnds ==
    ASSUME SmpInv, NEW c \in CPUs, Interrupt(c) \/ (EndOfInterrupt(c) /\ c \notin failed)
    PROVE  SmpInv'
<1>1. PICK l \in {"none", "take"}, ev \in 0 .. MaxSends :
         /\ isr' = [isr EXCEPT ![c] = [pc |-> l, event |-> ev]]
         /\ isr[c].pc \in {"none", "eoi"}
         /\ UNCHANGED <<event, sends, EventList, cpu, th>>
  <2>1. CASE Interrupt(c)
    <3>1. isr[c] \in [pc : IsrLabels, event : 0 .. MaxSends]
      BY DEF SmpInv, Types
    <3>2. [isr[c] EXCEPT !.pc = "take"] = [pc |-> "take", event |-> isr[c].event]
      BY <3>1
    <3>3. isr' = [isr EXCEPT ![c] = [isr[c] EXCEPT !.pc = "take"]]
      BY <2>1 DEF Interrupt
    <3> QED
      BY <2>1, <3>1, <3>2, <3>3 DEF Interrupt
  <2>2. CASE EndOfInterrupt(c) /\ c \notin failed
    <3>1. 0 \in 0 .. MaxSends
      BY SmpAssumption DEF SmpAssumption
    <3>2. /\ isr' = [isr EXCEPT ![c] = [pc |-> "none", event |-> 0]] /\ isr[c].pc = "eoi"
          /\ UNCHANGED <<event, sends, EventList, cpu, th>>
      BY <2>2 DEF EndOfInterrupt, NoInterrupt, NoEvent
    <3> QED
      BY <3>1, <3>2
  <2> QED
    BY <2>1, <2>2
<1>2. /\ isr'[c].pc = l /\ isr'[c].event = ev
      /\ \A d \in CPUs : d # c => isr'[d] = isr[d]
  BY <1>1 DEF SmpInv, Types
<1>3. Types'
  <2>1. isr' \in [CPUs -> [pc : IsrLabels, event : 0 .. MaxSends]]
    BY <1>1 DEF SmpInv, Types, IsrLabels
  <2>2. \A d \in CPUs : isr'[d].pc \in {"function", "dereference", "signal"} => isr'[d].event \in Events
    BY <1>1, <1>2 DEF SmpInv, Types
  <2> QED
    BY <1>1, <2>1, <2>2 DEF SmpInv, Types
<1>4. SenderInv'
  BY <1>1 DEF SmpInv, SenderInv
<1>5. ASSUME NEW e \in Events PROVE EventOK(e)'
  <2>1. \A d \in CPUs : /\ Handling(e, d)' <=> Handling(e, d)
                        /\ Dropping(e, d)' <=> Dropping(e, d)
                        /\ Signals(e, d)' <=> Signals(e, d)
    BY <1>1, <1>2 DEF Handling, Dropping, Signals
  <2>2. /\ \A d \in CPUs : (Todo(e, d)' <=> Todo(e, d)) /\ (Listed(e, d)' <=> Listed(e, d))
        /\ \A t \in Threads : (Waiting(e, t)' <=> Waiting(e, t)) /\ (Answered(e, t)' <=> Answered(e, t))
    BY <1>1 DEF Todo, Listed, Waiting, Answered
  <2>3. EventOK(e) /\ event'[e] = event[e] /\ sends \in Nat /\ sends' \in Nat /\ sends <= sends'
    BY <1>1, SmpAssumption DEF SmpInv, Types, SmpAssumption
  <2> QED
    BY <2>1, <2>2, <2>3, SameEvent
<1> QED
  BY <1>3, <1>4, <1>5 DEF SmpInv

\* _SmpIpcIpiIsr: the event goes from the list to the handler.
LEMMA HandlerTakes ==
    ASSUME SmpInv, NEW c \in CPUs, IpcIpiIsr(c)
    PROVE  SmpInv'
<1>1. CASE EventList[c] = <<>>
  <2>1. UNCHANGED <<event, sends, EventList, isr, th>> /\ cpu' \in [Threads -> CPUs]
    BY <1>1 DEF IpcIpiIsr, SmpInv, Types
  <2> QED
    BY <2>1, SameState
<1>2. CASE EventList[c] # <<>>
  <2> DEFINE e0 == Head(EventList[c])
  <2>1. EventList[c] \in Seq(Events) /\ Distinct(EventList[c]) /\ sends \in 0 .. MaxSends /\ MaxSends \in Nat
    BY SmpAssumption DEF SmpInv, Types, SenderInv, SmpAssumption
  <2>2. /\ e0 \in Events /\ Among(e0, EventList[c])
        /\ Tail(EventList[c]) \in Seq(Events) /\ Distinct(Tail(EventList[c]))
        /\ \A x : Among(x, Tail(EventList[c])) <=> Among(x, EventList[c]) /\ x # e0
    BY <1>2, <2>1, TailOfList
  <2>3. /\ isr[c].pc = "take" /\ UNCHANGED <<event, sends, cpu, th>>
        /\ EventList' = [EventList EXCEPT ![c] = Tail(EventList[c])]
        /\ isr' = [isr EXCEPT ![c] = [pc |-> "function", event |-> e0]]
    BY <1>2 DEF IpcIpiIsr
  <2> HIDE DEF e0
  <2>4. /\ EventList'[c] = Tail(EventList[c]) /\ isr'[c] = [pc |-> "function", event |-> e0]
        /\ \A d \in CPUs : d # c => EventList'[d] = EventList[d] /\ isr'[d] = isr[d]
    BY <2>3 DEF SmpInv, Types
  <2>5. Types'
    <3>1. isr' \in [CPUs -> [pc : IsrLabels, event : 0 .. MaxSends]]
      BY <2>1, <2>2, <2>3 DEF SmpInv, Types, IsrLabels, Events
    <3>0. isr'[c].event = e0
      BY <2>4
    <3>2. \A d \in CPUs : isr'[d].pc \in {"function", "dereference", "signal"} => isr'[d].event \in Events
      BY <2>2, <2>4, <3>0 DEF SmpInv, Types
    <3>3. EventList' \in [CPUs -> Seq(Events)]
      BY <2>2, <2>3 DEF SmpInv, Types
    <3> QED
      BY <2>3, <3>1, <3>2, <3>3 DEF SmpInv, Types
  <2>6. SenderInv'
    BY <2>2, <2>3, <2>4 DEF SmpInv, SenderInv
  <2>7. \A e \in Events, d \in CPUs :
           /\ Todo(e, d)' <=> Todo(e, d)
           /\ Listed(e, d)' <=> Listed(e, d) /\ ~(e = e0 /\ d = c)
           /\ Handling(e, d)' <=> Handling(e, d) \/ (e = e0 /\ d = c)
           /\ Dropping(e, d)' <=> Dropping(e, d)
           /\ Signals(e, d)' <=> Signals(e, d)
    BY <2>2, <2>3, <2>4 DEF Todo, Listed, Handling, Dropping, Signals
  <2>8. \A e \in Events, t \in Threads :
           (Waiting(e, t)' <=> Waiting(e, t)) /\ (Answered(e, t)' <=> Answered(e, t))
    BY <2>3 DEF Waiting, Answered
  <2>9. ASSUME NEW e \in Events PROVE EventOK(e)'
    <3>1. EventOK(e) /\ event'[e] = event[e] /\ sends \in Nat /\ sends' \in Nat /\ sends <= sends'
      BY <2>1, <2>3 DEF SmpInv
    <3>2. CASE e # e0
      BY <2>7, <2>8, <3>1, <3>2, SameEvent
    <3>3. CASE e = e0
      <4>1. Listed(e, c)
        BY <2>2, <3>3 DEF Listed
      <4>2. event[e].state = "alive" /\ RefInv(e) /\ PhaseInv(e) /\ SignalInv(e)
        BY <3>1, <4>1, UsedIsAlive DEF EventOK
      <4>3. Pending(e)' = Pending(e)
        BY <2>7, <3>3, <4>1 DEF Pending
      <4>4. RefInv(e)'
        BY <2>3, <2>8, <4>2, <4>3 DEF RefInv
      <4>5. PhaseInv(e)'
        BY <2>3, <2>7, <3>3, <4>1, <4>2 DEF PhaseInv
      <4>6. SignalInv(e)'
        BY <2>3, <2>7, <2>8, <3>3, <4>1, <4>2 DEF SignalInv
      <4> QED
        BY <3>1, <4>2, <4>4, <4>5, <4>6 DEF EventOK
    <3> QED
      BY <3>2, <3>3
  <2> QED
    BY <2>5, <2>6, <2>9 DEF SmpInv
<1> QED
  BY <1>1, <1>2

\* IpcProcessEvent: the function has run on this CPU, whose reference is left.
LEMMA HandlerRuns ==
    ASSUME SmpInv, NEW c \in CPUs, NEW ok \in BOOLEAN, RunFunction(c, ok)
    PROVE  SmpInv'
<1> DEFINE e0 == isr[c].event
<1>1. /\ isr[c].pc = "function" /\ UNCHANGED <<sends, EventList, cpu, th>>
      /\ event' = [event EXCEPT ![e0] = [event[e0] EXCEPT !.handled = event[e0].handled \union {c}]]
      /\ isr' = [isr EXCEPT ![c] = [isr[c] EXCEPT !.pc = "dereference"]]
  BY DEF RunFunction
<1>2. e0 \in Events /\ event[e0].state = "alive" /\ sends \in 0 .. MaxSends /\ MaxSends \in Nat
  BY <1>1, UsedIsAlive, SmpAssumption DEF SmpInv, Types, SmpAssumption
<1>3. /\ isr'[c].pc = "dereference" /\ isr'[c].event = e0
      /\ \A d \in CPUs : d # c => isr'[d] = isr[d]
  BY <1>1 DEF SmpInv, Types
<1>4. /\ event'[e0] = [event[e0] EXCEPT !.handled = event[e0].handled \union {c}]
      /\ \A e \in Events : e # e0 => event'[e] = event[e]
  BY <1>1, <1>2 DEF SmpInv, Types
<1>5. /\ event'[e0].state = "alive" /\ event'[e0].ref = event[e0].ref
      /\ event'[e0].SignalTermination = event[e0].SignalTermination
      /\ event'[e0].signaled = event[e0].signaled /\ event'[e0].targets = event[e0].targets
      /\ event'[e0].handled = event[e0].handled \union {c}
  BY <1>2, <1>4 DEF SmpInv, Types, IpcEvents
<1>6. Types'
  <2>1. isr' \in [CPUs -> [pc : IsrLabels, event : 0 .. MaxSends]]
    BY <1>1 DEF SmpInv, Types, IsrLabels
  <2>2. \A d \in CPUs : isr'[d].pc \in {"function", "dereference", "signal"} => isr'[d].event \in Events
    BY <1>2, <1>3 DEF SmpInv, Types
  <2>3. event[e0] \in IpcEvents /\ event \in [Events -> IpcEvents]
    BY <1>2 DEF SmpInv, Types
  <2>4. [event[e0] EXCEPT !.handled = event[e0].handled \union {c}] \in IpcEvents
    BY <2>3 DEF IpcEvents
  <2>5. event' \in [Events -> IpcEvents]
    BY <1>1, <2>3, <2>4
  <2> QED
    BY <1>1, <2>1, <2>2, <2>5 DEF SmpInv, Types
<1>7. SenderInv'
  BY <1>1 DEF SmpInv, SenderInv
<1>8. Handling(e0, c)
  BY <1>1 DEF Handling
<1> HIDE DEF e0
<1>9. \A e \in Events, d \in CPUs :
         /\ Todo(e, d)' <=> Todo(e, d)
         /\ Listed(e, d)' <=> Listed(e, d)
         /\ Signals(e, d)' <=> Signals(e, d)
  BY <1>1, <1>3 DEF Todo, Listed, Signals
<1>10. \A e \in Events, d \in CPUs :
         /\ Handling(e, d)' <=> Handling(e, d) /\ ~(e = e0 /\ d = c)
         /\ Dropping(e, d)' <=> Dropping(e, d) \/ (e = e0 /\ d = c)
  BY <1>1, <1>3 DEF Handling, Dropping, e0
<1>11. \A e \in Events, t \in Threads :
         (Waiting(e, t)' <=> Waiting(e, t)) /\ (Answered(e, t)' <=> Answered(e, t))
  BY <1>1 DEF Waiting, Answered
<1>12. ASSUME NEW e \in Events PROVE EventOK(e)'
  <2>1. EventOK(e) /\ sends \in Nat /\ sends' \in Nat /\ sends <= sends'
    BY <1>1, <1>2 DEF SmpInv
  <2>2. CASE e # e0
    BY <1>4, <1>9, <1>10, <1>11, <2>1, <2>2, SameEvent
  <2>3. CASE e = e0
    <3>1. RefInv(e) /\ PhaseInv(e) /\ SignalInv(e)
      BY <1>2, <2>1, <2>3 DEF EventOK
    <3>2. Pending(e)' = Pending(e)
      BY <1>8, <1>9, <1>10, <2>3 DEF Pending
    <3>3. RefInv(e)'
      BY <1>1, <1>5, <1>11, <2>3, <3>1, <3>2 DEF RefInv
    <3>4. PhaseInv(e)'
      BY <1>5, <1>8, <1>9, <1>10, <2>3, <3>1 DEF PhaseInv
    <3>5. SignalInv(e)'
      BY <1>5, <1>8, <1>9, <1>10, <1>11, <2>3, <3>1 DEF SignalInv
    <3> QED
      BY <1>5, <2>3, <3>3, <3>4, <3>5 DEF EventOK
  <2> QED
    BY <2>2, <2>3
<1> QED
  BY <1>6, <1>7, <1>12 DEF SmpInv

\* RfcDereference in the handler: the last CPU that drops its reference
\* either signals the waiter or frees the event.
LEMMA HandlerDrops ==
    ASSUME SmpInv, NEW c \in CPUs, IpcDereference(c)
    PROVE  SmpInv'
<1> DEFINE e0 == isr[c].event
           last == event[e0].SignalTermination /\ event[e0].ref = 2
           l == IF last THEN "signal" ELSE "eoi"
<1>1. /\ isr[c].pc = "dereference" /\ UNCHANGED <<sends, EventList, cpu, th>>
      /\ event' = [event EXCEPT ![e0] = Dereferenced(event[e0])]
      /\ isr' = [isr EXCEPT ![c] = [isr[c] EXCEPT !.pc = l]]
  BY DEF IpcDereference
<1>2. e0 \in Events /\ event[e0].state = "alive" /\ sends \in 0 .. MaxSends /\ MaxSends \in Nat
  BY <1>1, UsedIsAlive, SmpAssumption DEF SmpInv, Types, SmpAssumption
<1>3. /\ isr'[c].pc = l /\ isr'[c].event = e0
      /\ \A d \in CPUs : d # c => isr'[d] = isr[d]
  BY <1>1 DEF SmpInv, Types
<1>4. /\ event'[e0] = Dereferenced(event[e0])
      /\ \A e \in Events : e # e0 => event'[e] = event[e]
  BY <1>1, <1>2 DEF SmpInv, Types
<1>5. event[e0] \in IpcEvents /\ event \in [Events -> IpcEvents]
  BY <1>2 DEF SmpInv, Types
<1>6. Types'
  <2>1. isr' \in [CPUs -> [pc : IsrLabels, event : 0 .. MaxSends]]
    BY <1>1 DEF SmpInv, Types, IsrLabels
  <2>2. \A d \in CPUs : isr'[d].pc \in {"function", "dereference", "signal"} => isr'[d].event \in Events
    BY <1>2, <1>3 DEF SmpInv, Types
  <2>3. Freed \in IpcEvents
    BY FreedEvent
  <2>4. [event[e0] EXCEPT !.ref = event[e0].ref - 1] \in IpcEvents
    BY <1>5 DEF IpcEvents
  <2>5. event' \in [Events -> IpcEvents]
    BY <1>1, <1>5, <2>3, <2>4 DEF Dereferenced
  <2> QED
    BY <1>1, <2>1, <2>2, <2>5 DEF SmpInv, Types
<1>7. SenderInv'
  BY <1>1 DEF SmpInv, SenderInv
<1>8. Dropping(e0, c) /\ event[e0].SignalTermination \in BOOLEAN /\ event[e0].ref \in Int
  BY <1>1, <1>5 DEF Dropping, IpcEvents
<1>9. \A e \in Events, d \in CPUs :
         (Todo(e, d)' <=> Todo(e, d)) /\ (Listed(e, d)' <=> Listed(e, d))
  BY <1>1 DEF Todo, Listed
<1>10. \A e \in Events, d \in CPUs :
         /\ Handling(e, d)' <=> Handling(e, d)
         /\ Dropping(e, d)' <=> Dropping(e, d) /\ ~(e = e0 /\ d = c)
         /\ Signals(e, d)' <=> Signals(e, d) \/ (e = e0 /\ d = c /\ last)
  BY <1>1, <1>3 DEF Handling, Dropping, Signals
<1>11. \A e \in Events, t \in Threads :
         (Waiting(e, t)' <=> Waiting(e, t)) /\ (Answered(e, t)' <=> Answered(e, t))
  BY <1>1 DEF Waiting, Answered
<1>12. \A e \in Events : EventOK(e)
  BY DEF SmpInv
<1>13. sends \in Nat /\ sends' \in Nat /\ sends <= sends'
  BY <1>1, <1>2
<1> HIDE DEF e0, last, l
<1>14. ASSUME NEW e \in Events, e # e0 PROVE EventOK(e)'
  BY <1>4, <1>9, <1>10, <1>11, <1>12, <1>13, <1>14, SameEvent
<1>15. ASSUME NEW e \in Events, e = e0 PROVE EventOK(e)'
  <2>1. RefInv(e) /\ PhaseInv(e) /\ SignalInv(e)
    BY <1>2, <1>12, <1>15 DEF EventOK
  <2>2. /\ ~event[e].signaled
        /\ \A d \in CPUs : ~Signals(e, d)
        /\ \A t \in Threads : ~Answered(e, t)
    BY <1>8, <1>15, <2>1 DEF SignalInv
  <2>3. Pending(e) \in SUBSET CPUs /\ c \in Pending(e)
    BY <1>8, <1>15 DEF Pending
  <2>4. ~Todo(e, c) /\ ~Listed(e, c) /\ ~Handling(e, c)
    BY <1>8, <1>15, <2>1 DEF PhaseInv
  <2>5. Pending(e)' = Pending(e) \ {c}
    BY <1>9, <1>10, <1>15, <2>4 DEF Pending
  <2>6. /\ Cardinality(Pending(e)) \in Nat /\ Cardinality(Pending(e)') = Cardinality(Pending(e)) - 1
        /\ Cardinality(Pending(e)') \in Nat
        /\ Pending(e)' = {} <=> Cardinality(Pending(e)') = 0
    BY <2>3, <2>5, CountCpus
  <2>7. event[e].ref = Cardinality(Pending(e)) + (IF event[e].SignalTermination THEN 1 ELSE 0)
    BY <2>1 DEF RefInv
  <2>8. CASE event[e].ref = 1
    <3>1. ~event[e].SignalTermination /\ Cardinality(Pending(e)') = 0
      BY <1>8, <1>15, <2>6, <2>7, <2>8
    <3>2. event'[e] = Freed
      BY <1>4, <1>15, <2>8 DEF Dereferenced
    <3>3. \A d \in CPUs : ~Todo(e, d)' /\ ~Listed(e, d)' /\ ~Handling(e, d)' /\ ~Dropping(e, d)'
      BY <2>6, <3>1 DEF Pending
    <3>4. \A d \in CPUs : ~Signals(e, d)'
      BY <1>10, <1>15, <2>2, <3>1 DEF last
    <3>5. \A t \in Threads : ~Waiting(e, t)'
      BY <1>11, <2>1, <3>1 DEF RefInv
    <3>6. event'[e].state = "freed" /\ ~event'[e].signaled
      BY <3>2 DEF Freed, NotAllocated
    <3> QED
      BY <3>3, <3>4, <3>5, <3>6 DEF EventOK, NowhereInv
  <2>9. CASE event[e].ref # 1
    <3>1. event'[e] = [event[e] EXCEPT !.ref = event[e].ref - 1]
      BY <1>4, <1>15, <2>9 DEF Dereferenced
    <3>2. /\ event'[e].state = "alive" /\ event'[e].ref = event[e].ref - 1
          /\ event'[e].SignalTermination = event[e].SignalTermination
          /\ event'[e].signaled = event[e].signaled /\ event'[e].targets = event[e].targets
          /\ event'[e].handled = event[e].handled
      BY <1>2, <1>5, <1>15, <3>1 DEF IpcEvents
    <3>3. RefInv(e)'
      <4>1. event'[e].ref > 0 /\ event'[e].ref = Cardinality(Pending(e)') + (IF event[e].SignalTermination THEN 1 ELSE 0)
        BY <1>8, <1>15, <2>1, <2>6, <2>7, <2>9, <3>2 DEF RefInv
      <4> QED
        BY <1>1, <1>11, <2>1, <3>2, <4>1 DEF RefInv
    <3>4. PhaseInv(e)'
      BY <1>8, <1>9, <1>10, <1>15, <2>1, <3>2 DEF PhaseInv
    <3>5. SignalInv(e)'
      <4>1. ~event'[e].signaled /\ \A t \in Threads : ~Answered(e, t)'
        BY <1>11, <2>2, <3>2
      <4>2. \A d \in CPUs : Signals(e, d)' => d = c /\ last
        BY <1>10, <1>15, <2>2
      <4>3. last => Cardinality(Pending(e)') = 0 /\ event[e].SignalTermination
        BY <1>8, <1>15, <2>6, <2>7 DEF last
      <4>4. last => \A d \in CPUs : ~Todo(e, d)' /\ ~Listed(e, d)' /\ ~Handling(e, d)' /\ ~Dropping(e, d)'
        BY <2>6, <4>3 DEF Pending
      <4> QED
        BY <3>2, <4>1, <4>2, <4>3, <4>4 DEF SignalInv
    <3> QED
      BY <3>2, <3>3, <3>4, <3>5 DEF EventOK
  <2> QED
    BY <2>8, <2>9
<1> QED
  BY <1>6, <1>7, <1>14, <1>15 DEF SmpInv

\* EvtSignal, after the handler's reference is gone.
LEMMA HandlerSignals ==
    ASSUME SmpInv, NEW c \in CPUs, EvtSignal(c)
    PROVE  SmpInv'
<1> DEFINE e0 == isr[c].event
<1>1. /\ isr[c].pc = "signal" /\ UNCHANGED <<sends, EventList, cpu, th>>
      /\ event' = [event EXCEPT ![e0] = [event[e0] EXCEPT !.signaled = TRUE]]
      /\ isr' = [isr EXCEPT ![c] = [isr[c] EXCEPT !.pc = "eoi"]]
  BY DEF EvtSignal
<1>2. e0 \in Events /\ event[e0].state = "alive" /\ sends \in 0 .. MaxSends /\ MaxSends \in Nat
  BY <1>1, UsedIsAlive, SmpAssumption DEF SmpInv, Types, SmpAssumption
<1>3. /\ isr'[c].pc = "eoi" /\ isr'[c].event = e0
      /\ \A d \in CPUs : d # c => isr'[d] = isr[d]
  BY <1>1 DEF SmpInv, Types
<1>4. /\ event'[e0] = [event[e0] EXCEPT !.signaled = TRUE]
      /\ \A e \in Events : e # e0 => event'[e] = event[e]
  BY <1>1, <1>2 DEF SmpInv, Types
<1>5. event[e0] \in IpcEvents /\ event \in [Events -> IpcEvents]
  BY <1>2 DEF SmpInv, Types
<1>6. /\ event'[e0].state = "alive" /\ event'[e0].ref = event[e0].ref
      /\ event'[e0].SignalTermination = event[e0].SignalTermination
      /\ event'[e0].signaled /\ event'[e0].targets = event[e0].targets
      /\ event'[e0].handled = event[e0].handled
  BY <1>2, <1>4, <1>5 DEF IpcEvents
<1>7. Types'
  <2>1. isr' \in [CPUs -> [pc : IsrLabels, event : 0 .. MaxSends]]
    BY <1>1 DEF SmpInv, Types, IsrLabels
  <2>2. \A d \in CPUs : isr'[d].pc \in {"function", "dereference", "signal"} => isr'[d].event \in Events
    BY <1>2, <1>3 DEF SmpInv, Types
  <2>3. [event[e0] EXCEPT !.signaled = TRUE] \in IpcEvents
    BY <1>5 DEF IpcEvents
  <2>4. event' \in [Events -> IpcEvents]
    BY <1>1, <1>5, <2>3
  <2> QED
    BY <1>1, <2>1, <2>2, <2>4 DEF SmpInv, Types
<1>8. SenderInv'
  BY <1>1 DEF SmpInv, SenderInv
<1>9. Signals(e0, c)
  BY <1>1 DEF Signals
<1> HIDE DEF e0
<1>10. \A e \in Events, d \in CPUs :
         /\ Todo(e, d)' <=> Todo(e, d)
         /\ Listed(e, d)' <=> Listed(e, d)
         /\ Handling(e, d)' <=> Handling(e, d)
         /\ Dropping(e, d)' <=> Dropping(e, d)
  BY <1>1, <1>3 DEF Todo, Listed, Handling, Dropping
<1>11. \A e \in Events, d \in CPUs : Signals(e, d)' <=> Signals(e, d) /\ ~(e = e0 /\ d = c)
  BY <1>1, <1>3 DEF Signals, e0
<1>12. \A e \in Events, t \in Threads :
         (Waiting(e, t)' <=> Waiting(e, t)) /\ (Answered(e, t)' <=> Answered(e, t))
  BY <1>1 DEF Waiting, Answered
<1>13. ASSUME NEW e \in Events PROVE EventOK(e)'
  <2>1. EventOK(e) /\ sends \in Nat /\ sends' \in Nat /\ sends <= sends'
    BY <1>1, <1>2 DEF SmpInv
  <2>2. CASE e # e0
    <3>1. \A d \in CPUs : Signals(e, d)' <=> Signals(e, d)
      BY <1>11, <2>2
    <3> QED
      BY <1>4, <1>10, <1>12, <2>1, <2>2, <3>1, SameEvent
  <2>3. CASE e = e0
    <3>1. RefInv(e) /\ PhaseInv(e) /\ SignalInv(e)
      BY <1>2, <2>1, <2>3 DEF EventOK
    <3>2. Pending(e)' = Pending(e)
      BY <1>10 DEF Pending
    <3>3. RefInv(e)'
      BY <1>1, <1>6, <1>12, <2>3, <3>1, <3>2 DEF RefInv
    <3>4. PhaseInv(e)'
      BY <1>6, <1>10, <2>3, <3>1 DEF PhaseInv
    <3>5. SignalInv(e)'
      BY <1>6, <1>9, <1>10, <1>11, <1>12, <2>3, <3>1 DEF SignalInv
    <3> QED
      BY <1>6, <2>3, <3>3, <3>4, <3>5 DEF EventOK
  <2> QED
    BY <2>2, <2>3
<1> QED
  BY <1>7, <1>8, <1>13 DEF SmpInv

\* The destinations of a call are CPUs.
LEMMA DestinationsAreCpus ==
    ASSUME NEW mode \in Modes, NEW dest \in SUBSET CPUs, NEW me \in CPUs
    PROVE  DoesCpuMatchDestination(mode, dest, me) \in SUBSET CPUs
BY DEF DoesCpuMatchDestination, Modes

\* IpcGenerateEvent has one reference for each destination and for a waiter.
LEMMA GeneratedEvent ==
    ASSUME NEW targets \in SUBSET CPUs, targets # {}, NEW wait \in BOOLEAN
    PROVE  \E ev \in IpcEvents :
              /\ ev = IpcGenerateEvent(targets, wait)
              /\ ev.state = "alive" /\ ev.SignalTermination = wait /\ ~ev.signaled
              /\ ev.ref = Cardinality(targets) + (IF wait THEN 1 ELSE 0) /\ ev.ref > 0
              /\ ev.targets = targets /\ ev.handled = {}
<1>1. PICK c : c \in targets
  OBVIOUS
<1>2. Cardinality(targets) \in Nat /\ Cardinality(targets) # 0
  BY <1>1, CountCpus
<1>3. IpcGenerateEvent(targets, wait) \in IpcEvents
  BY <1>2 DEF IpcGenerateEvent, IpcEvents
<1> WITNESS IpcGenerateEvent(targets, wait) \in IpcEvents
<1> QED
  BY <1>2 DEF IpcGenerateEvent

\* SmpSendGenericIpiEx up to the lists: a new event has nothing but the
\* destinations that its sender has still to insert it for.
LEMMA SenderGenerates ==
    ASSUME SmpInv, NEW t \in Threads, NEW mode \in Modes, NEW dest \in SUBSET CPUs, NEW wait \in BOOLEAN,
           SendIpi(t, mode, dest, wait)
    PROVE  SmpInv'
<1> DEFINE e0 == sends + 1
           targets == DoesCpuMatchDestination(mode, dest, cpu[t])
           new == [pc |-> "insert", mode |-> mode, dest |-> dest, wait |-> wait,
                    event |-> e0, todo |-> SetToSeq(targets)]
<1>1. /\ th[t].pc = "out" /\ sends < MaxSends /\ targets # {} /\ sends' = e0
      /\ UNCHANGED <<EventList, isr, cpu>>
      /\ \/ /\ event' = [event EXCEPT ![e0] = IpcGenerateEvent(targets, wait)]
            /\ th' = [th EXCEPT ![t] = new]
         \/ UNCHANGED <<event, th>>
  BY DEF SendIpi
<1>2. sends \in 0 .. MaxSends /\ MaxSends \in Nat /\ e0 \in Events /\ cpu[t] \in CPUs
  BY <1>1, SmpAssumption DEF SmpInv, Types, SmpAssumption, Events
<1>3. targets \in SUBSET CPUs
  BY <1>2, DestinationsAreCpus
<1>4. sends' \in 0 .. MaxSends /\ sends \in Nat /\ sends' \in Nat /\ sends <= sends'
  BY <1>1, <1>2 DEF Events
<1>5. \A e \in Events : EventOK(e)
  BY DEF SmpInv
<1>6. \A u \in Threads : th[u].pc # "out" => th[u].event \in 1 .. sends
  BY DEF SmpInv, SenderInv
<1>7. \A e \in Events, d \in CPUs :
         /\ Listed(e, d)' <=> Listed(e, d)
         /\ Handling(e, d)' <=> Handling(e, d)
         /\ Dropping(e, d)' <=> Dropping(e, d)
         /\ Signals(e, d)' <=> Signals(e, d)
  BY <1>1 DEF Listed, Handling, Dropping, Signals
<1>8. CASE UNCHANGED <<event, th>>
  <2>1. Types'
    BY <1>1, <1>4, <1>8 DEF SmpInv, Types
  <2>2. SenderInv'
    <3>1. \A u \in Threads : th'[u].pc # "out" => th'[u].event \in 1 .. sends'
      BY <1>1, <1>2, <1>6, <1>8
    <3> QED
      BY <1>1, <1>8, <3>1 DEF SmpInv, SenderInv
  <2>3. ASSUME NEW e \in Events PROVE EventOK(e)'
    <3>1. /\ \A d \in CPUs : Todo(e, d)' <=> Todo(e, d)
          /\ \A u \in Threads : (Waiting(e, u)' <=> Waiting(e, u)) /\ (Answered(e, u)' <=> Answered(e, u))
      BY <1>8 DEF Todo, Waiting, Answered
    <3>2. event'[e] = event[e]
      BY <1>8
    <3> QED
      BY <1>4, <1>5, <1>7, <3>1, <3>2, SameEvent
  <2> QED
    BY <2>1, <2>2, <2>3 DEF SmpInv
<1>9. CASE /\ event' = [event EXCEPT ![e0] = IpcGenerateEvent(targets, wait)]
           /\ th' = [th EXCEPT ![t] = new]
  <2>1. /\ SetToSeq(targets) \in Seq(CPUs) /\ Distinct(SetToSeq(targets))
        /\ \A x : Among(x, SetToSeq(targets)) <=> x \in targets
    <3>1. IsFiniteSet(targets)
      BY <1>3, SmpAssumption, FS_Subset DEF SmpAssumption
    <3>2. /\ SetToSeq(targets) \in Seq(targets) /\ Distinct(SetToSeq(targets))
          /\ \A x : Among(x, SetToSeq(targets)) <=> x \in targets
      BY <3>1, SetAsList
    <3> HIDE DEF targets
    <3>3. SetToSeq(targets) \in Seq(CPUs)
      BY <1>3, <3>2
    <3> QED
      BY <3>2, <3>3
  <2>2. /\ th'[t] = new /\ event'[e0] = IpcGenerateEvent(targets, wait)
        /\ \A u \in Threads : u # t => th'[u] = th[u]
        /\ \A e \in Events : e # e0 => event'[e] = event[e]
    BY <1>2, <1>9 DEF SmpInv, Types
  <2>3. /\ th'[t].pc = "insert" /\ th'[t].wait = wait /\ th'[t].event = e0
        /\ th'[t].todo = SetToSeq(targets)
    BY <2>2
  <2> HIDE DEF e0, targets
  <2>4. new \in Calls
    BY <1>2, <2>1 DEF Events, Calls
  <2>5. /\ event'[e0] \in IpcEvents /\ event'[e0].state = "alive"
        /\ event'[e0].SignalTermination = wait /\ ~event'[e0].signaled
        /\ event'[e0].ref = Cardinality(targets) + (IF wait THEN 1 ELSE 0) /\ event'[e0].ref > 0
        /\ event'[e0].targets = targets /\ event'[e0].handled = {}
    <3>1. targets # {}
      BY <1>1
    <3>2. \E ev \in IpcEvents :
             /\ ev = IpcGenerateEvent(targets, wait)
             /\ ev.state = "alive" /\ ev.SignalTermination = wait /\ ~ev.signaled
             /\ ev.ref = Cardinality(targets) + (IF wait THEN 1 ELSE 0) /\ ev.ref > 0
             /\ ev.targets = targets /\ ev.handled = {}
      BY <1>3, <3>1, GeneratedEvent
    <3> QED
      BY <2>2, <3>2
  <2> HIDE DEF new
  <2>6. Types'
    <3>1. event' \in [Events -> IpcEvents]
      BY <1>9, <2>2, <2>5 DEF SmpInv, Types
    <3> QED
      BY <1>1, <1>4, <1>9, <2>4, <3>1 DEF SmpInv, Types
  <2>7. SenderInv'
    <3>1. \A u \in Threads : th'[u].pc # "out" => th'[u].event \in 1 .. sends'
      BY <1>1, <1>2, <1>6, <2>2, <2>3 DEF e0
    <3>2. \A u, v \in Threads : th'[u].pc # "out" /\ th'[v].pc # "out" /\ th'[u].event = th'[v].event => u = v
      <4>1. \A u \in Threads : th[u].pc # "out" => th[u].event # e0
        BY <1>2, <1>6 DEF e0
      <4> QED
        BY <2>2, <2>3, <4>1 DEF SmpInv, SenderInv
    <3>3. \A u \in Threads : (th'[u].pc # "insert" => th'[u].todo = <<>>) /\ Distinct(th'[u].todo)
      BY <2>1, <2>2, <2>3 DEF SmpInv, SenderInv
    <3>4. \A d \in CPUs : Distinct(EventList'[d])
      BY <1>1 DEF SmpInv, SenderInv
    <3> QED
      BY <3>1, <3>2, <3>3, <3>4 DEF SenderInv
  <2>8. ASSUME NEW e \in Events, e # e0 PROVE EventOK(e)'
    <3>1. \A d \in CPUs : Todo(e, d)' <=> Todo(e, d)
      BY <1>1, <2>2, <2>3, <2>8 DEF Todo
    <3>2. \A u \in Threads : (Waiting(e, u)' <=> Waiting(e, u)) /\ (Answered(e, u)' <=> Answered(e, u))
      BY <1>1, <2>2, <2>3, <2>8 DEF Waiting, Answered
    <3> QED
      BY <1>4, <1>5, <1>7, <2>2, <2>8, <3>1, <3>2, SameEvent
  <2>9. ASSUME NEW e \in Events, e = e0 PROVE EventOK(e)'
    <3>1. NowhereInv(e)
      <4>1. ~RefInv(e)
        BY <1>2, <2>9 DEF RefInv, e0
      <4> QED
        BY <1>5, <4>1 DEF EventOK
    <3>2. \A d \in CPUs : Todo(e, d)' <=> d \in targets
      <4>1. \A u \in Threads : th[u].pc = "insert" => th[u].event # e
        BY <1>2, <1>6, <2>9 DEF e0
      <4> QED
        BY <2>1, <2>2, <2>3, <2>9, <4>1 DEF Todo
    <3>3. /\ \A u \in Threads : Waiting(e, u)' <=> u = t /\ wait
          /\ \A u \in Threads : ~Answered(e, u)'
      <4>1. \A u \in Threads : th[u].pc # "out" => th[u].event # e
        BY <1>2, <1>6, <2>9 DEF e0
      <4> QED
        BY <2>2, <2>3, <2>9, <4>1 DEF Waiting, Answered
    <3>4. \A d \in CPUs : ~Listed(e, d)' /\ ~Handling(e, d)' /\ ~Dropping(e, d)' /\ ~Signals(e, d)'
      BY <1>7, <3>1 DEF NowhereInv
    <3>5. Pending(e)' = targets
      BY <1>3, <3>2, <3>4 DEF Pending
    <3>6. RefInv(e)'
      <4>1. e <= sends'
        BY <1>1, <1>2, <2>9 DEF e0
      <4> QED
        BY <2>5, <2>9, <3>3, <3>5, <4>1 DEF RefInv
    <3>7. PhaseInv(e)'
      BY <2>5, <2>9, <3>2, <3>4 DEF PhaseInv
    <3>8. SignalInv(e)'
      BY <2>5, <2>9, <3>3, <3>4 DEF SignalInv
    <3> QED
      BY <2>5, <2>9, <3>6, <3>7, <3>8 DEF EventOK
  <2> QED
    BY <2>6, <2>7, <2>8, <2>9 DEF SmpInv
<1> QED
  BY <1>1, <1>8, <1>9

\* The event goes to the list of the next CPU.
LEMMA SenderInserts ==
    ASSUME SmpInv, NEW t \in Threads, Insert(t)
    PROVE  SmpInv'
<1> DEFINE e0 == th[t].event
           c == Head(th[t].todo)
<1>1. /\ th[t].pc = "insert" /\ th[t].todo # <<>> /\ UNCHANGED <<event, sends, isr, cpu>>
      /\ EventList' = [EventList EXCEPT ![c] = Append(EventList[c], e0)]
      /\ th' = [th EXCEPT ![t] = [th[t] EXCEPT !.todo = Tail(th[t].todo)]]
  BY DEF Insert
<1>2. th[t] \in Calls /\ th[t].todo \in Seq(CPUs) /\ Distinct(th[t].todo)
  BY DEF SmpInv, Types, SenderInv, Calls
<1>3. /\ c \in CPUs /\ Among(c, th[t].todo)
      /\ Tail(th[t].todo) \in Seq(CPUs) /\ Distinct(Tail(th[t].todo))
      /\ \A x : Among(x, Tail(th[t].todo)) <=> Among(x, th[t].todo) /\ x # c
  BY <1>1, <1>2, TailOfList
<1>4. e0 \in Events /\ event[e0].state = "alive" /\ sends \in 0 .. MaxSends /\ MaxSends \in Nat
  BY <1>1, UsedIsAlive, SmpAssumption DEF SmpInv, Types, SmpAssumption
<1>5. \A e \in Events : EventOK(e)
  BY DEF SmpInv
<1>6. Todo(e0, c)
  BY <1>1, <1>3 DEF Todo
<1>7. RefInv(e0) /\ PhaseInv(e0) /\ SignalInv(e0)
  BY <1>4, <1>5 DEF EventOK
<1>8. ~Listed(e0, c)
  BY <1>3, <1>6, <1>7 DEF PhaseInv
<1>9. /\ Append(EventList[c], e0) \in Seq(Events) /\ Distinct(Append(EventList[c], e0))
      /\ \A x : Among(x, Append(EventList[c], e0)) <=> Among(x, EventList[c]) \/ x = e0
  <2>1. EventList[c] \in Seq(Events) /\ Distinct(EventList[c])
    BY <1>3 DEF SmpInv, Types, SenderInv
  <2> QED
    BY <1>4, <1>8, <2>1, AppendedList DEF Listed
<1>10. /\ EventList'[c] = Append(EventList[c], e0)
       /\ \A d \in CPUs : d # c => EventList'[d] = EventList[d]
  BY <1>1, <1>3 DEF SmpInv, Types
<1>11. /\ th'[t] = [th[t] EXCEPT !.todo = Tail(th[t].todo)]
       /\ \A u \in Threads : u # t => th'[u] = th[u]
  BY <1>1 DEF SmpInv, Types
<1>12. /\ th'[t].pc = "insert" /\ th'[t].wait = th[t].wait /\ th'[t].event = e0
       /\ th'[t].todo = Tail(th[t].todo) /\ th'[t] \in Calls
  <2>1. th[t].pc = "insert"
    BY <1>1
  <2>2. /\ th'[t].pc = "insert" /\ th'[t].wait = th[t].wait /\ th'[t].event = e0
        /\ th'[t].todo = Tail(th[t].todo)
    BY <1>2, <1>11, <2>1 DEF Calls
  <2>3. [th[t] EXCEPT !.todo = Tail(th[t].todo)] \in Calls
    BY <1>2, <1>3 DEF Calls
  <2> QED
    BY <1>11, <2>2, <2>3
<1>13. \A u, v \in Threads : th[u].pc # "out" /\ th[v].pc # "out" /\ th[u].event = th[v].event => u = v
  BY DEF SmpInv, SenderInv
<1>14. Types'
  <2>1. th' \in [Threads -> Calls]
    BY <1>1, <1>11, <1>12 DEF SmpInv, Types
  <2>2. EventList' \in [CPUs -> Seq(Events)]
    BY <1>1, <1>9 DEF SmpInv, Types
  <2> QED
    BY <1>1, <2>1, <2>2 DEF SmpInv, Types
<1> HIDE DEF c
<1>15. SenderInv'
  <2>1. \A u \in Threads : /\ th'[u].pc # "out" => th'[u].event \in 1 .. sends'
                           /\ th'[u].pc # "insert" => th'[u].todo = <<>>
                           /\ Distinct(th'[u].todo)
    BY <1>1, <1>3, <1>11, <1>12 DEF SmpInv, SenderInv
  <2>2. \A u, v \in Threads : th'[u].pc # "out" /\ th'[v].pc # "out" /\ th'[u].event = th'[v].event => u = v
    BY <1>1, <1>11, <1>12, <1>13
  <2>3. \A d \in CPUs : Distinct(EventList'[d])
    BY <1>9, <1>10 DEF SmpInv, SenderInv
  <2> QED
    BY <2>1, <2>2, <2>3 DEF SenderInv
<1>16. \A e \in Events, d \in CPUs : Todo(e, d)' <=> Todo(e, d) /\ ~(e = e0 /\ d = c)
  BY <1>1, <1>3, <1>11, <1>12, <1>13 DEF Todo
<1> HIDE DEF e0
<1>17. \A e \in Events, d \in CPUs :
         /\ Listed(e, d)' <=> Listed(e, d) \/ (e = e0 /\ d = c)
         /\ Handling(e, d)' <=> Handling(e, d)
         /\ Dropping(e, d)' <=> Dropping(e, d)
         /\ Signals(e, d)' <=> Signals(e, d)
  BY <1>1, <1>9, <1>10 DEF Listed, Handling, Dropping, Signals
<1>18. \A e \in Events, u \in Threads :
         (Waiting(e, u)' <=> Waiting(e, u)) /\ (Answered(e, u)' <=> Answered(e, u))
  BY <1>1, <1>11, <1>12 DEF Waiting, Answered, e0
<1>19. ASSUME NEW e \in Events PROVE EventOK(e)'
  <2>1. EventOK(e) /\ event'[e] = event[e] /\ sends \in Nat /\ sends' \in Nat /\ sends <= sends'
    BY <1>1, <1>4, <1>5
  <2>2. CASE e # e0
    BY <1>16, <1>17, <1>18, <2>1, <2>2, SameEvent
  <2>3. CASE e = e0
    <3>1. Pending(e)' = Pending(e)
      BY <1>6, <1>16, <1>17, <2>3 DEF Pending
    <3>2. RefInv(e)'
      BY <1>1, <1>7, <1>18, <2>3, <3>1 DEF RefInv
    <3>3. PhaseInv(e)'
      BY <1>1, <1>6, <1>7, <1>16, <1>17, <2>3 DEF PhaseInv
    <3>4. SignalInv(e)'
      BY <1>1, <1>3, <1>6, <1>7, <1>16, <1>17, <1>18, <2>3 DEF SignalInv
    <3> QED
      BY <1>4, <2>1, <2>3, <3>2, <3>3, <3>4 DEF EventOK
  <2> QED
    BY <2>2, <2>3
<1> QED
  BY <1>14, <1>15, <1>19 DEF SmpInv

\* The request is sent: the call returns or waits, the event stays where it is.
LEMMA SenderRequests ==
    ASSUME SmpInv, NEW t \in Threads, SmpSendIpcIpi(t)
    PROVE  SmpInv'
<1> DEFINE next == IF th[t].wait THEN [Out EXCEPT !.pc = "wait", !.event = th[t].event] ELSE Out
<1>1. /\ th[t].pc = "insert" /\ th[t].todo = <<>> /\ UNCHANGED <<event, sends, EventList, isr, cpu>>
      /\ th' = [th EXCEPT ![t] = next]
  BY DEF SmpSendIpcIpi
<1>2. th[t] \in Calls /\ th[t].wait \in BOOLEAN /\ th[t].event \in 0 .. MaxSends
  BY DEF SmpInv, Types, Calls
<1>3. sends \in 0 .. MaxSends /\ MaxSends \in Nat
  BY SmpAssumption DEF SmpInv, Types, SmpAssumption
<1>4. /\ next \in Calls /\ next.todo = <<>>
      /\ th[t].wait => next.pc = "wait" /\ next.event = th[t].event
      /\ ~th[t].wait => next.pc = "out"
  <2>1. Out \in Calls /\ Out.todo = <<>> /\ Out.pc = "out"
    BY <1>3 DEF Out, Calls, NoEvent
  <2>2. LET o == [Out EXCEPT !.pc = "wait", !.event = th[t].event]
        IN  o \in Calls /\ o.todo = <<>> /\ o.pc = "wait" /\ o.event = th[t].event
    BY <1>2, <2>1 DEF Calls
  <2> QED
    BY <2>1, <2>2
<1>5. th'[t] = next /\ \A u \in Threads : u # t => th'[u] = th[u]
  BY <1>1 DEF SmpInv, Types
<1> HIDE DEF next
<1>6. Types'
  BY <1>1, <1>4 DEF SmpInv, Types
<1>7. SenderInv'
  <2>1. \A u \in Threads : /\ th'[u].pc # "out" => th'[u].event \in 1 .. sends'
                           /\ th'[u].pc # "insert" => th'[u].todo = <<>>
                           /\ Distinct(th'[u].todo)
    BY <1>1, <1>2, <1>4, <1>5 DEF SmpInv, SenderInv
  <2>2. \A u, v \in Threads : th'[u].pc # "out" /\ th'[v].pc # "out" /\ th'[u].event = th'[v].event => u = v
    BY <1>1, <1>2, <1>4, <1>5 DEF SmpInv, SenderInv
  <2> QED
    BY <1>1, <2>1, <2>2 DEF SmpInv, SenderInv
<1>8. ASSUME NEW e \in Events PROVE EventOK(e)'
  <2>1. EventOK(e) /\ event'[e] = event[e] /\ sends \in Nat /\ sends' \in Nat /\ sends <= sends'
    BY <1>1, <1>3 DEF SmpInv
  <2>2. \A d \in CPUs : Todo(e, d)' <=> Todo(e, d)
    <3>1. \A d : ~Among(d, th[t].todo)
      BY <1>1 DEF Among
    <3> QED
      BY <1>2, <1>4, <1>5, <3>1 DEF Todo
  <2>3. \A d \in CPUs : /\ Listed(e, d)' <=> Listed(e, d)
                        /\ Handling(e, d)' <=> Handling(e, d)
                        /\ Dropping(e, d)' <=> Dropping(e, d)
                        /\ Signals(e, d)' <=> Signals(e, d)
    BY <1>1 DEF Listed, Handling, Dropping, Signals
  <2>4. \A u \in Threads : (Waiting(e, u)' <=> Waiting(e, u)) /\ (Answered(e, u)' <=> Answered(e, u))
    BY <1>1, <1>2, <1>4, <1>5 DEF Waiting, Answered
  <2> QED
    BY <2>1, <2>2, <2>3, <2>4, SameEvent
<1> QED
  BY <1>6, <1>7, <1>8 DEF SmpInv

\* EvtWaitForSignal: the waiter takes the signal.
LEMMA SenderIsAnswered ==
    ASSUME SmpInv, NEW t \in Threads, EvtWaitForSignal(t)
    PROVE  SmpInv'
<1> DEFINE e0 == th[t].event
<1>1. /\ th[t].pc = "wait" /\ event[e0].signaled /\ UNCHANGED <<sends, EventList, isr, cpu>>
      /\ event' = [event EXCEPT ![e0] = [event[e0] EXCEPT !.signaled = FALSE]]
      /\ th' = [th EXCEPT ![t] = [th[t] EXCEPT !.pc = "dereference"]]
  BY DEF EvtWaitForSignal
<1>2. /\ e0 \in Events /\ event[e0].state = "alive" /\ sends \in 0 .. MaxSends /\ MaxSends \in Nat
      /\ th[t] \in Calls /\ event[e0] \in IpcEvents
  BY <1>1, UsedIsAlive, SmpAssumption DEF SmpInv, Types, SmpAssumption
<1>3. /\ th'[t] = [th[t] EXCEPT !.pc = "dereference"] /\ event'[e0] = [event[e0] EXCEPT !.signaled = FALSE]
      /\ \A u \in Threads : u # t => th'[u] = th[u]
      /\ \A e \in Events : e # e0 => event'[e] = event[e]
  BY <1>1, <1>2 DEF SmpInv, Types
<1>4. /\ th'[t].pc = "dereference" /\ th'[t].event = e0 /\ th'[t].todo = th[t].todo
  BY <1>2, <1>3 DEF Calls
<1>5. /\ event'[e0].state = "alive" /\ event'[e0].ref = event[e0].ref
      /\ event'[e0].SignalTermination = event[e0].SignalTermination
      /\ ~event'[e0].signaled /\ event'[e0].targets = event[e0].targets
      /\ event'[e0].handled = event[e0].handled
  BY <1>2, <1>3 DEF IpcEvents
<1>6. Types'
  <2>1. [th[t] EXCEPT !.pc = "dereference"] \in Calls
    BY <1>2 DEF Calls
  <2>2. [event[e0] EXCEPT !.signaled = FALSE] \in IpcEvents
    BY <1>2 DEF IpcEvents
  <2>3. th' \in [Threads -> Calls] /\ event' \in [Events -> IpcEvents]
    BY <1>1, <2>1, <2>2 DEF SmpInv, Types
  <2> QED
    BY <1>1, <2>3 DEF SmpInv, Types
<1>7. \A u, v \in Threads : th[u].pc # "out" /\ th[v].pc # "out" /\ th[u].event = th[v].event => u = v
  BY DEF SmpInv, SenderInv
<1>8. SenderInv'
  <2>1. \A u \in Threads : /\ th'[u].pc # "out" => th'[u].event \in 1 .. sends'
                           /\ th'[u].pc # "insert" => th'[u].todo = <<>>
                           /\ Distinct(th'[u].todo)
    BY <1>1, <1>3, <1>4 DEF SmpInv, SenderInv
  <2>2. \A u, v \in Threads : th'[u].pc # "out" /\ th'[v].pc # "out" /\ th'[u].event = th'[v].event => u = v
    BY <1>1, <1>3, <1>4, <1>7
  <2> QED
    BY <1>1, <2>1, <2>2 DEF SmpInv, SenderInv
<1>9. \A e \in Events, d \in CPUs :
         /\ Todo(e, d)' <=> Todo(e, d)
         /\ Listed(e, d)' <=> Listed(e, d)
         /\ Handling(e, d)' <=> Handling(e, d)
         /\ Dropping(e, d)' <=> Dropping(e, d)
         /\ Signals(e, d)' <=> Signals(e, d)
  <2>1. \A e \in Events, d \in CPUs : Todo(e, d)' <=> Todo(e, d)
    BY <1>1, <1>3, <1>4 DEF Todo
  <2> QED
    BY <1>1, <2>1 DEF Listed, Handling, Dropping, Signals
<1>10. \A e \in Events, u \in Threads :
         /\ Waiting(e, u)' <=> Waiting(e, u)
         /\ Answered(e, u)' <=> Answered(e, u) \/ (u = t /\ e = e0)
  BY <1>1, <1>3, <1>4 DEF Waiting, Answered
<1> HIDE DEF e0
<1>11. ASSUME NEW e \in Events PROVE EventOK(e)'
  <2>1. EventOK(e) /\ sends \in Nat /\ sends' \in Nat /\ sends <= sends'
    BY <1>1, <1>2 DEF SmpInv
  <2>2. CASE e # e0
    <3>1. \A u \in Threads : Answered(e, u)' <=> Answered(e, u)
      BY <1>10, <2>2
    <3> QED
      BY <1>3, <1>9, <1>10, <2>1, <2>2, <3>1, SameEvent
  <2>3. CASE e = e0
    <3>1. RefInv(e) /\ PhaseInv(e) /\ SignalInv(e)
      BY <1>2, <2>1, <2>3 DEF EventOK
    <3>2. Pending(e)' = Pending(e)
      BY <1>9 DEF Pending
    <3>3. RefInv(e)'
      BY <1>1, <1>5, <1>10, <2>3, <3>1, <3>2 DEF RefInv
    <3>4. PhaseInv(e)'
      BY <1>5, <1>9, <2>3, <3>1 DEF PhaseInv
    <3>5. SignalInv(e)'
      <4>1. event[e].signaled
        BY <1>1, <2>3
      <4> QED
        BY <1>5, <1>9, <1>10, <2>3, <3>1, <4>1 DEF SignalInv
    <3> QED
      BY <1>5, <2>3, <3>3, <3>4, <3>5 DEF EventOK
  <2> QED
    BY <2>2, <2>3
<1> QED
  BY <1>6, <1>8, <1>11 DEF SmpInv

\* IpcWaitForEventHandling drops the last reference: nobody else has the event.
LEMMA SenderDrops ==
    ASSUME SmpInv, NEW t \in Threads, WaiterDereference(t)
    PROVE  SmpInv'
<1> DEFINE e0 == th[t].event
<1>1. /\ th[t].pc = "dereference" /\ UNCHANGED <<sends, EventList, isr, cpu>>
      /\ event' = [event EXCEPT ![e0] = Dereferenced(event[e0])]
      /\ th' = [th EXCEPT ![t] = Out]
  BY DEF WaiterDereference
<1>2. e0 \in Events /\ event[e0].state = "alive" /\ sends \in 0 .. MaxSends /\ MaxSends \in Nat
  BY <1>1, UsedIsAlive, SmpAssumption DEF SmpInv, Types, SmpAssumption
<1>3. \A e \in Events : EventOK(e)
  BY DEF SmpInv
<1>4. RefInv(e0) /\ PhaseInv(e0) /\ SignalInv(e0)
  BY <1>2, <1>3 DEF EventOK
<1>5. Answered(e0, t) /\ Waiting(e0, t)
  BY <1>1 DEF Answered, Waiting
<1>6. \A u, v \in Threads : th[u].pc # "out" /\ th[v].pc # "out" /\ th[u].event = th[v].event => u = v
  BY DEF SmpInv, SenderInv
<1>7. /\ \A d \in CPUs : /\ ~Todo(e0, d) /\ ~Listed(e0, d) /\ ~Handling(e0, d) /\ ~Dropping(e0, d)
                         /\ ~Signals(e0, d)
      /\ ~event[e0].signaled /\ event[e0].SignalTermination
  BY <1>4, <1>5 DEF SignalInv
<1>8. event[e0].ref = 1
  <2>1. Pending(e0) = {}
    BY <1>7 DEF Pending
  <2>2. Cardinality(Pending(e0)) = 0
    BY <2>1, FS_EmptySet
  <2> QED
    BY <1>4, <1>7, <2>2 DEF RefInv
<1>9. event' = [event EXCEPT ![e0] = Freed]
  BY <1>1, <1>8 DEF Dereferenced
<1>10. /\ event'[e0] = Freed /\ th'[t] = Out
       /\ \A u \in Threads : u # t => th'[u] = th[u]
       /\ \A e \in Events : e # e0 => event'[e] = event[e]
  BY <1>1, <1>2, <1>9 DEF SmpInv, Types
<1>11. Out \in Calls /\ Out.todo = <<>> /\ Out.pc = "out"
  BY <1>2 DEF Out, Calls, NoEvent
<1>12. Types'
  <2>1. th' \in [Threads -> Calls] /\ event' \in [Events -> IpcEvents]
    BY <1>1, <1>9, <1>11, FreedEvent DEF SmpInv, Types
  <2> QED
    BY <1>1, <2>1 DEF SmpInv, Types
<1>13. SenderInv'
  <2>1. \A u \in Threads : /\ th'[u].pc # "out" => th'[u].event \in 1 .. sends'
                           /\ th'[u].pc # "insert" => th'[u].todo = <<>>
                           /\ Distinct(th'[u].todo)
    BY <1>1, <1>10, <1>11 DEF SmpInv, SenderInv
  <2>2. \A u, v \in Threads : th'[u].pc # "out" /\ th'[v].pc # "out" /\ th'[u].event = th'[v].event => u = v
    BY <1>6, <1>10, <1>11
  <2> QED
    BY <1>1, <2>1, <2>2 DEF SmpInv, SenderInv
<1>14. \A e \in Events, d \in CPUs :
         /\ Todo(e, d)' <=> Todo(e, d)
         /\ Listed(e, d)' <=> Listed(e, d)
         /\ Handling(e, d)' <=> Handling(e, d)
         /\ Dropping(e, d)' <=> Dropping(e, d)
         /\ Signals(e, d)' <=> Signals(e, d)
  <2>1. \A e \in Events, d \in CPUs : Todo(e, d)' <=> Todo(e, d)
    BY <1>1, <1>10, <1>11 DEF Todo
  <2> QED
    BY <1>1, <2>1 DEF Listed, Handling, Dropping, Signals
<1>15. \A e \in Events, u \in Threads :
         /\ Waiting(e, u)' <=> Waiting(e, u) /\ u # t
         /\ Answered(e, u)' <=> Answered(e, u) /\ u # t
  BY <1>1, <1>10, <1>11 DEF Waiting, Answered
<1>16. /\ \A e \in Events : e # e0 => ~Waiting(e, t) /\ ~Answered(e, t)
       /\ \A u \in Threads : Waiting(e0, u) => u = t
  BY <1>1, <1>6 DEF Waiting, Answered
<1> HIDE DEF e0
<1>17. ASSUME NEW e \in Events PROVE EventOK(e)'
  <2>1. EventOK(e) /\ sends \in Nat /\ sends' \in Nat /\ sends <= sends'
    BY <1>1, <1>2, <1>3
  <2>2. CASE e # e0
    <3>1. \A u \in Threads : (Waiting(e, u)' <=> Waiting(e, u)) /\ (Answered(e, u)' <=> Answered(e, u))
      BY <1>15, <1>16, <2>2
    <3> QED
      BY <1>10, <1>14, <2>1, <2>2, <3>1, SameEvent
  <2>3. CASE e = e0
    <3>1. event'[e].state = "freed" /\ ~event'[e].signaled
      BY <1>10, <2>3, FreedEvent
    <3>2. \A d \in CPUs : ~Todo(e, d)' /\ ~Listed(e, d)' /\ ~Handling(e, d)' /\ ~Dropping(e, d)' /\ ~Signals(e, d)'
      BY <1>7, <1>14, <2>3
    <3>3. \A u \in Threads : ~Waiting(e, u)'
      BY <1>15, <1>16, <2>3
    <3> QED
      BY <3>1, <3>2, <3>3 DEF EventOK, NowhereInv
  <2> QED
    BY <2>2, <2>3
<1> QED
  BY <1>12, <1>13, <1>17 DEF SmpInv

-----------------------------------------------------------------------------
(* The theorems.                                                           *)

\* No call, no event, no request at first.
LEMMA SmpInitially == SmpInit => SmpInv
<1> SUFFICES ASSUME SmpInit PROVE SmpInv
  OBVIOUS
<1>1. MaxSends \in Nat /\ 0 \in 0 .. MaxSends /\ BSP \in CPUs
  BY SmpAssumption DEF SmpAssumption
<1>2. /\ event = [e \in Events |-> NotAllocated] /\ sends = 0
      /\ EventList = [c \in CPUs |-> <<>>] /\ isr = [c \in CPUs |-> NoInterrupt]
      /\ cpu = [t \in Threads |-> BSP] /\ th = [t \in Threads |-> Out]
  BY DEF SmpInit
<1>3. Out \in Calls /\ Out.todo = <<>> /\ Out.pc = "out"
  BY <1>1 DEF Out, Calls, NoEvent
<1>4. NoInterrupt \in [pc : IsrLabels, event : 0 .. MaxSends] /\ NoInterrupt.pc = "none"
  BY <1>1 DEF NoInterrupt, NoEvent, IsrLabels
<1>5. Types
  BY <1>1, <1>2, <1>3, <1>4, FreedEvent DEF Types
<1>6. SenderInv
  <2>1. Distinct(<<>>)
    BY DEF Distinct
  <2> QED
    BY <1>2, <1>3, <2>1 DEF SenderInv
<1>7. ASSUME NEW e \in Events PROVE EventOK(e)
  <2>1. \A x : ~Among(x, <<>>)
    BY DEF Among
  <2>2. \A c \in CPUs : ~Todo(e, c) /\ ~Listed(e, c) /\ ~Handling(e, c) /\ ~Dropping(e, c) /\ ~Signals(e, c)
    BY <1>2, <1>3, <1>4, <2>1 DEF Todo, Listed, Handling, Dropping, Signals
  <2>3. \A t \in Threads : ~Waiting(e, t)
    BY <1>2, <1>3 DEF Waiting
  <2>4. event[e].state = "none" /\ ~event[e].signaled
    BY <1>2, FreedEvent
  <2> QED
    BY <2>2, <2>3, <2>4 DEF EventOK, NowhereInv
<1> QED
  BY <1>5, <1>6, <1>7 DEF SmpInv

\* Every step of the CPUs and the senders keeps the invariant.
LEMMA SmpStep == SmpInv /\ [Next]_vars => SmpInv'
<1> SUFFICES ASSUME SmpInv, [Next]_vars PROVE SmpInv'
  OBVIOUS
<1>0. cpu \in [Threads -> CPUs]
  BY DEF SmpInv, Types
<1>1. CASE UNCHANGED vars
  <2>1. UNCHANGED <<event, sends, EventList, isr, th>> /\ cpu' = cpu
    BY <1>1 DEF vars
  <2> QED
    BY <1>0, <2>1, SameState
<1>2. CASE SmpWakeupAps \/ ApsAreNotUp \/ \E c \in CPUs : SmpNotifyCpuWakeup(c)
  <2>1. UNCHANGED <<event, sends, EventList, isr, th>> /\ cpu' = cpu
    BY <1>2 DEF SmpWakeupAps, ApsAreNotUp, SmpNotifyCpuWakeup
  <2> QED
    BY <1>0, <2>1, SameState
<1>3. CASE ApsAreUp
  BY <1>3, SameState DEF ApsAreUp
<1>4. ASSUME NEW t \in Threads, Migrate(t) PROVE SmpInv'
  <2>1. UNCHANGED <<event, sends, EventList, isr, th>> /\ cpu' \in [Threads -> CPUs]
    BY <1>0, <1>4 DEF Migrate
  <2> QED
    BY <2>1, SameState
<1>5. ASSUME NEW t \in Threads, NEW mode \in Modes, NEW dest \in SUBSET CPUs, NEW wait \in BOOLEAN,
             SendIpi(t, mode, dest, wait)
      PROVE  SmpInv'
  BY <1>5, SenderGenerates
<1>6. ASSUME NEW t \in Threads, SendSteps(t) PROVE SmpInv'
  BY <1>6, SenderInserts, SenderRequests, SenderIsAnswered, SenderDrops DEF SendSteps
<1>7. ASSUME NEW c \in CPUs, Handler(c) PROVE SmpInv'
  <2>1. CASE EndOfInterrupt(c) /\ c \in failed
    <3>1. UNCHANGED <<event, sends, EventList, isr, th>> /\ cpu' = cpu
      BY <2>1 DEF EndOfInterrupt
    <3> QED
      BY <1>0, <3>1, SameState
  <2>2. CASE Interrupt(c) \/ (EndOfInterrupt(c) /\ c \notin failed)
    BY <2>2, HandlerEnds
  <2>3. CASE IpcIpiIsr(c) \/ \E ok \in BOOLEAN : RunFunction(c, ok)
    BY <2>3, HandlerTakes, HandlerRuns
  <2>4. CASE IpcDereference(c) \/ EvtSignal(c)
    BY <2>4, HandlerDrops, HandlerSignals
  <2> QED
    BY <1>7, <2>1, <2>2, <2>3, <2>4 DEF Handler
<1> QED
  BY <1>1, <1>2, <1>3, <1>4, <1>5, <1>6, <1>7 DEF Next

\* The reference count of an IPC event is the number of CPUs it is on its way
\* to and the waiter, it is in one place for each CPU, and signaled once.
THEOREM SmpInvariant == SmpSteps => []SmpInv
<1> QED
  BY SmpInitially, SmpStep, PTL DEF SmpSteps

\* No list, handler or sender holds an event that ipc.c has freed, for any
\* number of CPUs, senders and calls, the ones that fail to allocate included.
THEOREM EventsAreNotFreedInUse == SmpSteps => []EventsOutliveTheirUse
<1>1. SmpInv => EventsOutliveTheirUse
  <2> SUFFICES ASSUME SmpInv PROVE EventsOutliveTheirUse
    OBVIOUS
  <2>1. ASSUME NEW c \in CPUs, NEW e \in ToSet(EventList[c]) PROVE event[e].state = "alive"
    <3>1. EventList[c] \in Seq(Events)
      BY DEF SmpInv, Types
    <3>2. e \in Events /\ Listed(e, c)
      BY <3>1 DEF ToSet, Listed, Among
    <3> QED
      BY <3>2, UsedIsAlive
  <2>2. \A t \in Threads : th[t].todo # <<>> => th[t].pc = "insert"
    BY DEF SmpInv, SenderInv
  <2>3. \A t \in Threads : th[t].pc \in {"wait", "dereference"} \/ th[t].todo # <<>>
                           => event[th[t].event].state = "alive"
    BY <2>2, UsedIsAlive
  <2>4. \A c \in CPUs : isr[c].pc \in {"function", "dereference", "signal"}
                        => event[isr[c].event].state = "alive"
    BY UsedIsAlive
  <2> QED
    BY <2>1, <2>3, <2>4 DEF EventsOutliveTheirUse
<1> QED
  BY <1>1, SmpInvariant, PTL

\* An event that no CPU has still to run was run on all of its destinations.
LEMMA NothingLeftToRun ==
    ASSUME SmpInv, NEW e \in Events, event[e].state = "alive",
           \A c \in CPUs : ~Todo(e, c) /\ ~Listed(e, c) /\ ~Handling(e, c)
    PROVE  event[e].handled = event[e].targets
<1>1. PhaseInv(e)
  BY DEF SmpInv, EventOK
<1>2. event[e].handled \in SUBSET CPUs /\ event[e].targets \in SUBSET CPUs
  BY DEF SmpInv, Types, IpcEvents
<1> QED
  BY <1>1, <1>2 DEF PhaseInv

\* A signaled event is allocated, and so is one that is being signaled or was
\* waited for: its function has run everywhere.
LEMMA SignalMeansHandled ==
    ASSUME SmpInv, NEW e \in Events,
           \/ event[e].signaled
           \/ \E c \in CPUs : Signals(e, c)
           \/ \E t \in Threads : Answered(e, t)
    PROVE  event[e].handled = event[e].targets
<1>1. ~NowhereInv(e)
  <2>1. \A t \in Threads : Answered(e, t) => Waiting(e, t)
    BY DEF Answered, Waiting
  <2> QED
    BY <2>1 DEF NowhereInv
<1>2. event[e].state = "alive" /\ SignalInv(e)
  BY <1>1 DEF SmpInv, EventOK
<1>3. \A c \in CPUs : ~Todo(e, c) /\ ~Listed(e, c) /\ ~Handling(e, c)
  BY <1>2 DEF SignalInv
<1> QED
  BY <1>2, <1>3, NothingLeftToRun

\* EvtSignal, the return of EvtWaitForSignal and the free of an event happen
\* only when IpcProcessEvent has run the function on every destination CPU.
THEOREM WaitersFindItHandled == SmpSteps => WaitMeansHandled
<1> DEFINE Final(e) == event'[e].signaled \/ (event[e].state = "alive" /\ event'[e].state = "freed")
           Done(e) == event[e].handled = event[e].targets
<1>1. ASSUME SmpInv, [Next]_vars, NEW e \in Events, Final(e) PROVE Done(e)
  <2>0. /\ event \in [Events -> IpcEvents]
        /\ event[e].signaled => Done(e)
        /\ \A c \in CPUs : isr[c].pc = "signal" /\ isr[c].event = e => Done(e)
        /\ \A t \in Threads : th[t].pc = "dereference" /\ th[t].event = e => Done(e)
    BY <1>1, SignalMeansHandled DEF Signals, Answered, SmpInv, Types
  <2> HIDE DEF Done
  <2>1. CASE event'[e] = event[e]
    BY <1>1, <2>0, <2>1
  <2>2. ASSUME NEW t \in Threads, NEW mode \in Modes, NEW dest \in SUBSET CPUs, NEW wait \in BOOLEAN,
               SendIpi(t, mode, dest, wait), event'[e] # event[e]
        PROVE  FALSE
    <3> DEFINE targets == DoesCpuMatchDestination(mode, dest, cpu[t])
    <3>1. event'[e] = IpcGenerateEvent(targets, wait)
      BY <2>0, <2>2 DEF SendIpi
    <3> HIDE DEF targets
    <3>2. event'[e].state = "alive" /\ ~event'[e].signaled
      BY <3>1 DEF IpcGenerateEvent
    <3> QED
      BY <1>1, <3>2
  <2>3. ASSUME NEW t \in Threads, EvtWaitForSignal(t), event'[e] # event[e] PROVE Done(e)
    <3>1. e = th[t].event /\ event[e].signaled
      BY <2>0, <2>3 DEF EvtWaitForSignal
    <3> QED
      BY <2>0, <3>1
  <2>4. ASSUME NEW t \in Threads, WaiterDereference(t), event'[e] # event[e] PROVE Done(e)
    <3>1. e = th[t].event /\ th[t].pc = "dereference"
      BY <2>0, <2>4 DEF WaiterDereference
    <3> QED
      BY <2>0, <3>1
  <2>5. ASSUME NEW c \in CPUs, EvtSignal(c), event'[e] # event[e] PROVE Done(e)
    <3>1. e = isr[c].event /\ isr[c].pc = "signal"
      BY <2>0, <2>5 DEF EvtSignal
    <3> QED
      BY <2>0, <3>1
  <2>6. ASSUME NEW c \in CPUs, NEW ok \in BOOLEAN, RunFunction(c, ok), event'[e] # event[e] PROVE Done(e)
    <3>1. e = isr[c].event /\ event'[e] = [event[e] EXCEPT !.handled = event[e].handled \union {c}]
      BY <2>0, <2>6 DEF RunFunction
    <3>2. event'[e].signaled = event[e].signaled /\ event'[e].state = event[e].state
      BY <2>0, <3>1 DEF IpcEvents
    <3> QED
      BY <1>1, <2>0, <3>2
  <2>7. ASSUME NEW c \in CPUs, IpcDereference(c), event'[e] # event[e] PROVE Done(e)
    <3>1. e = isr[c].event /\ isr[c].pc = "dereference" /\ event'[e] = Dereferenced(event[e])
      BY <2>0, <2>7 DEF IpcDereference
    <3>2. Dropping(e, c) /\ event[e].state = "alive" /\ event[e].SignalTermination \in BOOLEAN
      BY <1>1, <2>0, <3>1, UsedIsAlive DEF Dropping, IpcEvents
    <3>3. RefInv(e) /\ PhaseInv(e)
      BY <1>1, <3>2 DEF SmpInv, EventOK
    <3>4. CASE event[e].ref = 1
      <4>1. Pending(e) \in SUBSET CPUs /\ c \in Pending(e) /\ Pending(e) \ {c} \in SUBSET CPUs
        BY <3>2 DEF Pending
      <4>2. /\ Cardinality(Pending(e)) \in Nat /\ Cardinality(Pending(e)) # 0
            /\ Cardinality(Pending(e) \ {c}) = Cardinality(Pending(e)) - 1
            /\ Pending(e) \ {c} = {} <=> Cardinality(Pending(e) \ {c}) = 0
        BY <4>1, CountCpus
      <4>3. Cardinality(Pending(e)) = 1
        BY <3>2, <3>3, <3>4, <4>2 DEF RefInv
      <4>4. \A d \in CPUs : d # c => ~Todo(e, d) /\ ~Listed(e, d) /\ ~Handling(e, d)
        BY <4>2, <4>3 DEF Pending
      <4>5. ~Todo(e, c) /\ ~Listed(e, c) /\ ~Handling(e, c)
        BY <3>2, <3>3 DEF PhaseInv
      <4> QED
        BY <1>1, <3>2, <4>4, <4>5, NothingLeftToRun DEF Done
    <3>5. CASE event[e].ref # 1
      <4>1. event'[e] = [event[e] EXCEPT !.ref = event[e].ref - 1]
        BY <3>1, <3>5 DEF Dereferenced
      <4>2. event'[e].signaled = event[e].signaled /\ event'[e].state = event[e].state
        BY <2>0, <4>1 DEF IpcEvents
      <4> QED
        BY <1>1, <2>0, <4>2
    <3> QED
      BY <3>4, <3>5
  <2>8. \/ event' = event
        \/ \E t \in Threads, mode \in Modes, dest \in SUBSET CPUs, wait \in BOOLEAN : SendIpi(t, mode, dest, wait)
        \/ \E t \in Threads : EvtWaitForSignal(t) \/ WaiterDereference(t)
        \/ \E c \in CPUs : \/ EvtSignal(c) \/ IpcDereference(c)
                           \/ \E ok \in BOOLEAN : RunFunction(c, ok)
    BY <1>1 DEF Next, vars, SendSteps, Handler, SmpWakeupAps, SmpNotifyCpuWakeup, ApsAreUp, ApsAreNotUp, Migrate, Insert,
                SmpSendIpcIpi, Interrupt, IpcIpiIsr, EndOfInterrupt
  <2> QED
    BY <2>1, <2>2, <2>3, <2>4, <2>5, <2>6, <2>7, <2>8
<1>2. SmpInv /\ [Next]_vars
      => [\A e \in Events :
             \/ event'[e].signaled
             \/ event[e].state = "alive" /\ event'[e].state = "freed"
             => event[e].handled = event[e].targets]_vars
  BY <1>1
<1> QED
  BY <1>2, SmpInvariant, PTL DEF SmpSteps, WaitMeansHandled

-----------------------------------------------------------------------------
(* The handler finds an event.                                             *)

\* The CPUs that the request of t would go to now; the senders whose event is
\* in the list of c and whose request for c is still to come; the requests
\* that c has accepted or will.
To(t) == DoesCpuMatchDestination(th[t].mode, th[t].dest, cpu[t])
Inserted(c) == {t \in Threads : th[t].pc = "insert" /\ c \in To(t) /\ ~Among(c, th[t].todo)}
Requests(c) == (IF irr[c] THEN 1 ELSE 0) + (IF isr[c].pc = "take" THEN 1 ELSE 0)

\* As long as no sender moved, a list has an event for every request, the
\* ones that are still to come included.
FoundInv ==
    /\ moved \in BOOLEAN /\ irr \in [CPUs -> BOOLEAN]
    /\ boot # "up" => \A t \in Threads : th[t].pc = "out"
    /\ \A t \in Threads : th[t].pc = "insert" => th[t].mode \in Modes
    /\ ~moved => /\ \A t \in Threads : th[t].pc = "insert"
                                       => \A c \in CPUs : Among(c, th[t].todo) => c \in To(t)
                 /\ \A c \in CPUs : Requests(c) + Cardinality(Inserted(c)) <= Len(EventList[c])

\* How many senders there are, when one more or one less is counted.
LEMMA CountThreads ==
    ASSUME NEW S \in SUBSET Threads, NEW t \in Threads
    PROVE  /\ Cardinality(S) \in Nat
           /\ Cardinality(S \union {t}) <= Cardinality(S) + 1
           /\ t \in S => Cardinality(S \ {t}) = Cardinality(S) - 1
<1>1. IsFiniteSet(S)
  BY SmpAssumption, FS_Subset DEF SmpAssumption
<1>2. Cardinality(S) \in Nat
  BY <1>1, FS_CardinalityType
<1>3. Cardinality(S \union {t}) <= Cardinality(S) + 1
  BY <1>1, <1>2, FS_AddElement
<1>4. t \in S => Cardinality(S \ {t}) = Cardinality(S) - 1
  BY <1>1, FS_RemoveElement
<1> QED
  BY <1>2, <1>3, <1>4

\* Steps that touch no request, no list and no sender on its way to one.
LEMMA SameFound ==
    ASSUME FoundInv, UNCHANGED <<cpu, EventList, irr, moved>>,
           boot' # "up" => \A t \in Threads : th'[t].pc = "out",
           \A t \in Threads : /\ th'[t].pc = "insert" <=> th[t].pc = "insert"
                              /\ th[t].pc = "insert" => th'[t] = th[t],
           \A c \in CPUs : isr'[c].pc = "take" <=> isr[c].pc = "take"
    PROVE  FoundInv'
<1>1. \A t \in Threads : th[t].pc = "insert" => To(t)' = To(t)
  BY DEF To
<1>2. ASSUME NEW c \in CPUs PROVE Inserted(c)' = Inserted(c) /\ Requests(c)' = Requests(c)
  BY <1>1 DEF Inserted, Requests
<1> QED
  BY <1>1, <1>2 DEF FoundInv

\* The steps of SameFound.
LEMMA OtherStepsFind ==
    ASSUME SmpInv, FoundInv,
           \/ UNCHANGED vars \/ SmpWakeupAps \/ ApsAreNotUp \/ \E c \in CPUs : SmpNotifyCpuWakeup(c)
           \/ \E t \in Threads : EvtWaitForSignal(t) \/ WaiterDereference(t)
           \/ \E c \in CPUs : \/ \E ok \in BOOLEAN : RunFunction(c, ok)
                              \/ IpcDereference(c) \/ EvtSignal(c) \/ EndOfInterrupt(c)
    PROVE  FoundInv'
<1>1. th \in [Threads -> Calls] /\ isr \in [CPUs -> [pc : IsrLabels, event : 0 .. MaxSends]]
  BY DEF SmpInv, Types
<1>2. boot # "up" => \A t \in Threads : th[t].pc = "out"
  BY DEF FoundInv
<1>3. CASE UNCHANGED vars
  BY <1>2, <1>3, SameFound DEF vars, bootVars
<1>4. CASE SmpWakeupAps \/ ApsAreNotUp
  BY <1>2, <1>4, SameFound DEF SmpWakeupAps, ApsAreNotUp
<1>5. CASE \E c \in CPUs : SmpNotifyCpuWakeup(c)
  BY <1>2, <1>5, SameFound DEF SmpNotifyCpuWakeup
<1>6. ASSUME NEW t \in Threads, EvtWaitForSignal(t) \/ WaiterDereference(t) PROVE FoundInv'
  <2>1. /\ boot = "up" /\ boot' = boot /\ th[t].pc \in {"wait", "dereference"}
        /\ UNCHANGED <<cpu, EventList, irr, moved, isr>>
        /\ \/ th' = [th EXCEPT ![t] = [th[t] EXCEPT !.pc = "dereference"]]
           \/ th' = [th EXCEPT ![t] = Out]
    BY <1>6 DEF EvtWaitForSignal, WaiterDereference, Runs, bootVars
  <2>2. /\ \A u \in Threads : u # t => th'[u] = th[u]
        /\ th'[t].pc # "insert"
    BY <1>1, <2>1 DEF Out, Calls
  <2> QED
    BY <2>1, <2>2, SameFound
<1>7. ASSUME NEW c \in CPUs, NEW l \in {"dereference", "signal", "eoi", "none"},
             UNCHANGED <<boot, th, cpu, EventList, irr, moved>>, isr[c].pc # "take",
             \/ isr' = [isr EXCEPT ![c] = [isr[c] EXCEPT !.pc = l]]
             \/ isr' = [isr EXCEPT ![c] = NoInterrupt]
      PROVE  FoundInv'
  <2>1. /\ \A d \in CPUs : d # c => isr'[d] = isr[d]
        /\ isr'[c].pc # "take"
    BY <1>1, <1>7 DEF NoInterrupt
  <2> QED
    BY <1>2, <1>7, <2>1, SameFound
<1>8. ASSUME NEW c \in CPUs, NEW ok \in BOOLEAN, RunFunction(c, ok) PROVE FoundInv'
  <2>1. /\ UNCHANGED <<boot, th, cpu, EventList, irr, moved>> /\ isr[c].pc # "take"
        /\ isr' = [isr EXCEPT ![c] = [isr[c] EXCEPT !.pc = "dereference"]]
    BY <1>8 DEF RunFunction, bootVars
  <2> QED
    BY <1>7, <2>1
<1>9. ASSUME NEW c \in CPUs, IpcDereference(c) PROVE FoundInv'
  <2>1. PICK l \in {"signal", "eoi"} :
          /\ UNCHANGED <<boot, th, cpu, EventList, irr, moved>> /\ isr[c].pc # "take"
          /\ isr' = [isr EXCEPT ![c] = [isr[c] EXCEPT !.pc = l]]
    BY <1>9 DEF IpcDereference, bootVars
  <2> QED
    BY <1>7, <2>1
<1>10. ASSUME NEW c \in CPUs, EvtSignal(c) PROVE FoundInv'
  <2>1. /\ UNCHANGED <<boot, th, cpu, EventList, irr, moved>> /\ isr[c].pc # "take"
        /\ isr' = [isr EXCEPT ![c] = [isr[c] EXCEPT !.pc = "eoi"]]
    BY <1>10 DEF EvtSignal, bootVars
  <2> QED
    BY <1>7, <2>1
<1>11. ASSUME NEW c \in CPUs, EndOfInterrupt(c) PROVE FoundInv'
  <2>1. /\ UNCHANGED <<boot, th, cpu, EventList, irr, moved>> /\ isr[c].pc # "take"
        /\ isr' = [isr EXCEPT ![c] = NoInterrupt] \/ isr' = isr
    BY <1>11 DEF EndOfInterrupt, bootVars
  <2>2. CASE isr' = isr
    BY <1>2, <2>1, <2>2, SameFound
  <2> QED
    BY <1>7, <2>1, <2>2
<1> QED
  BY <1>3, <1>4, <1>5, <1>6, <1>8, <1>9, <1>10, <1>11

\* The threads get CPUs before any of them sends, and a sender that moves
\* changes no destination unless that is recorded.
LEMMA MovesFind ==
    ASSUME SmpInv, FoundInv, ApsAreUp \/ \E t \in Threads : Migrate(t)
    PROVE  FoundInv'
<1>1. CASE ApsAreUp
  <2>1. /\ \A t \in Threads : th[t].pc # "insert"
        /\ UNCHANGED <<th, EventList, irr, isr, moved>> /\ boot' = "up"
    BY <1>1 DEF ApsAreUp, FoundInv
  <2>2. ASSUME NEW c \in CPUs PROVE Inserted(c)' = Inserted(c) /\ Requests(c)' = Requests(c)
    BY <2>1 DEF Inserted, Requests
  <2> QED
    BY <2>1, <2>2 DEF FoundInv
<1>2. ASSUME NEW t \in Threads, Migrate(t) PROVE FoundInv'
  <2>1. /\ UNCHANGED <<boot, th, EventList, irr, isr>> /\ th[t].pc = "insert" /\ moved' \in BOOLEAN
        /\ \A u \in Threads : u # t => cpu'[u] = cpu[u]
        /\ ~moved' => ~moved /\ th[t].mode \notin {"SendToSelf", "SendToAllExcludingSelf"}
    BY <1>2 DEF Migrate, bootVars, SmpInv, Types
  <2>2. th[t].mode \in Modes
    BY <2>1 DEF FoundInv
  <2>3. ~moved' => \A u \in Threads : To(u)' = To(u)
    BY <2>1, <2>2 DEF To, DoesCpuMatchDestination, Modes
  <2>4. ASSUME ~moved', NEW c \in CPUs PROVE Inserted(c)' = Inserted(c) /\ Requests(c)' = Requests(c)
    BY <2>1, <2>3, <2>4 DEF Inserted, Requests
  <2> QED
    BY <2>1, <2>3, <2>4 DEF FoundInv
<1> QED
  BY <1>1, <1>2

\* A new call has nothing in the lists, and no request.
LEMMA GenerateFinds ==
    ASSUME SmpInv, FoundInv, NEW t \in Threads, NEW mode \in Modes, NEW dest \in SUBSET CPUs,
           NEW wait \in BOOLEAN, SendIpi(t, mode, dest, wait)
    PROVE  FoundInv'
<1> DEFINE targets == DoesCpuMatchDestination(mode, dest, cpu[t])
           new == [pc |-> "insert", mode |-> mode, dest |-> dest, wait |-> wait,
                    event |-> sends + 1, todo |-> SetToSeq(targets)]
<1>1. /\ boot = "up" /\ boot' = "up" /\ th[t].pc = "out"
      /\ UNCHANGED <<EventList, irr, isr, cpu, moved>>
      /\ th' = [th EXCEPT ![t] = new] \/ th' = th
  BY DEF SendIpi, Runs, bootVars
<1>2. CASE th' = th
  BY <1>1, <1>2, SameFound
<1>3. CASE th' = [th EXCEPT ![t] = new]
  <2>1. \A x : Among(x, SetToSeq(targets)) <=> x \in targets
    <3>1. cpu[t] \in CPUs
      BY DEF SmpInv, Types
    <3>2. targets \in SUBSET CPUs
      BY <3>1, DestinationsAreCpus
    <3>3. IsFiniteSet(targets)
      BY <3>2, SmpAssumption, FS_Subset DEF SmpAssumption
    <3> QED
      BY <3>3, SetAsList
  <2>2. th'[t] = new /\ \A u \in Threads : u # t => th'[u] = th[u]
    BY <1>3 DEF SmpInv, Types
  <2>3. /\ th'[t].pc = "insert" /\ th'[t].mode = mode /\ th'[t].dest = dest
        /\ th'[t].todo = SetToSeq(targets)
    BY <2>2
  <2>4. /\ \A u \in Threads : u # t => To(u)' = To(u)
        /\ To(t)' = targets
    BY <1>1, <2>2, <2>3 DEF To
  <2> HIDE DEF targets, new
  <2>5. ASSUME NEW c \in CPUs PROVE Inserted(c)' = Inserted(c) /\ Requests(c)' = Requests(c)
    BY <1>1, <2>1, <2>2, <2>3, <2>4 DEF Inserted, Requests
  <2>6. \A u \in Threads : /\ th'[u].pc = "insert" => th'[u].mode \in Modes
                           /\ ~moved /\ th'[u].pc = "insert"
                              => \A c \in CPUs : Among(c, th'[u].todo) => c \in To(u)'
    BY <2>1, <2>2, <2>3, <2>4 DEF FoundInv
  <2> QED
    BY <1>1, <2>5, <2>6 DEF FoundInv
<1> QED
  BY <1>1, <1>2, <1>3

\* An insertion adds an event and a request to come.
LEMMA InsertFinds ==
    ASSUME SmpInv, FoundInv, NEW t \in Threads, Insert(t)
    PROVE  FoundInv'
<1> DEFINE c == Head(th[t].todo)
<1>1. /\ th[t].pc = "insert" /\ th[t].todo # <<>> /\ UNCHANGED <<boot, irr, isr, cpu, moved>>
      /\ boot = "up"
      /\ EventList' = [EventList EXCEPT ![c] = Append(EventList[c], th[t].event)]
      /\ th' = [th EXCEPT ![t] = [th[t] EXCEPT !.todo = Tail(th[t].todo)]]
  BY DEF Insert, Runs, bootVars
<1>2. th[t] \in Calls /\ th[t].todo \in Seq(CPUs) /\ Distinct(th[t].todo)
  BY DEF SmpInv, Types, SenderInv, Calls
<1>3. /\ c \in CPUs /\ Among(c, th[t].todo)
      /\ \A x : Among(x, Tail(th[t].todo)) <=> Among(x, th[t].todo) /\ x # c
  BY <1>1, <1>2, TailOfList
<1>4. /\ th'[t] = [th[t] EXCEPT !.todo = Tail(th[t].todo)]
      /\ \A u \in Threads : u # t => th'[u] = th[u]
  BY <1>1 DEF SmpInv, Types
<1>5. /\ th'[t].pc = "insert" /\ th'[t].mode = th[t].mode /\ th'[t].dest = th[t].dest
      /\ th'[t].todo = Tail(th[t].todo)
  <2>1. th[t].pc = "insert"
    BY <1>1
  <2> QED
    BY <1>2, <1>4, <2>1 DEF Calls
<1>6. /\ Len(EventList'[c]) = Len(EventList[c]) + 1 /\ Len(EventList[c]) \in Nat
      /\ \A d \in CPUs : d # c => EventList'[d] = EventList[d]
  <2>1. EventList[c] \in Seq(Events) /\ EventList \in [CPUs -> Seq(Events)] /\ th[t].event \in Events
    BY <1>1, <1>3, UsedIsAlive DEF SmpInv, Types
  <2> QED
    BY <1>1, <1>3, <2>1
<1>7. \A u \in Threads : To(u)' = To(u)
  BY <1>1, <1>4, <1>5 DEF To
<1> HIDE DEF c
<1>8. ASSUME NEW d \in CPUs PROVE Requests(d)' = Requests(d)
  BY <1>1 DEF Requests
<1>9. ASSUME NEW d \in CPUs, d # c PROVE Inserted(d)' = Inserted(d)
  BY <1>1, <1>3, <1>4, <1>5, <1>7, <1>9 DEF Inserted
<1>10. ASSUME NEW d \in CPUs, d = c PROVE Inserted(d)' \in {Inserted(d), Inserted(d) \union {t}}
  BY <1>1, <1>3, <1>4, <1>5, <1>7, <1>10 DEF Inserted
<1>11. ASSUME ~moved, NEW d \in CPUs
       PROVE  Requests(d)' + Cardinality(Inserted(d)') <= Len(EventList'[d])
  <2>1. /\ Requests(d) + Cardinality(Inserted(d)) <= Len(EventList[d])
        /\ Inserted(d) \in SUBSET Threads /\ Requests(d) \in Nat
    BY <1>11 DEF FoundInv, Inserted, Requests
  <2>2. CASE d # c
    BY <1>6, <1>8, <1>9, <2>1, <2>2
  <2>3. CASE d = c
    <3>1. /\ Cardinality(Inserted(d)) \in Nat
          /\ Cardinality(Inserted(d) \union {t}) <= Cardinality(Inserted(d)) + 1
      BY <2>1, CountThreads
    <3>2. Inserted(d) \union {t} \in SUBSET Threads
      BY <2>1
    <3>3. Cardinality(Inserted(d) \union {t}) \in Nat
      BY <3>2, CountThreads
    <3>0. Inserted(d)' = Inserted(d) \/ Inserted(d)' = Inserted(d) \union {t}
      BY <1>10, <2>3
    <3>4. Cardinality(Inserted(d)') <= Cardinality(Inserted(d)) + 1 /\ Cardinality(Inserted(d)') \in Nat
      <4>1. CASE Inserted(d)' = Inserted(d)
        BY <3>1, <4>1
      <4>2. CASE Inserted(d)' = Inserted(d) \union {t}
        BY <3>1, <3>3, <4>2
      <4> QED
        BY <3>0, <4>1, <4>2
    <3> QED
      BY <1>6, <1>8, <2>1, <2>3, <3>1, <3>4
  <2> QED
    BY <2>2, <2>3
<1>12. \A u \in Threads : /\ th'[u].pc = "insert" => th'[u].mode \in Modes
                          /\ ~moved /\ th'[u].pc = "insert"
                             => \A d \in CPUs : Among(d, th'[u].todo) => d \in To(u)'
  BY <1>1, <1>3, <1>4, <1>5, <1>7 DEF FoundInv
<1> QED
  BY <1>1, <1>11, <1>12 DEF FoundInv

\* The request comes: at most one more bit for an event that is in the list.
LEMMA RequestFinds ==
    ASSUME SmpInv, FoundInv, NEW t \in Threads, SmpSendIpcIpi(t)
    PROVE  FoundInv'
<1> DEFINE next == IF th[t].wait THEN [Out EXCEPT !.pc = "wait", !.event = th[t].event] ELSE Out
<1>1. /\ th[t].pc = "insert" /\ th[t].todo = <<>> /\ UNCHANGED <<boot, EventList, isr, cpu, moved>>
      /\ boot = "up"
      /\ th' = [th EXCEPT ![t] = next]
      /\ irr' = [c \in CPUs |-> irr[c] \/ c \in To(t)]
  BY DEF SmpSendIpcIpi, Runs, bootVars, To
<1>2. next.pc # "insert"
  BY DEF Out
<1>3. th'[t].pc # "insert" /\ \A u \in Threads : u # t => th'[u] = th[u]
  <2> HIDE DEF next
  <2> QED
    BY <1>1, <1>2 DEF SmpInv, Types
<1>4. irr' \in [CPUs -> BOOLEAN]
  BY <1>1
<1>5. \A u \in Threads : u # t => To(u)' = To(u)
  BY <1>1, <1>3 DEF To
<1> HIDE DEF next
<1>6. ASSUME ~moved, NEW c \in CPUs
      PROVE  Requests(c)' + Cardinality(Inserted(c)') <= Len(EventList'[c])
  <2>1. /\ Requests(c) + Cardinality(Inserted(c)) <= Len(EventList[c])
        /\ Inserted(c) \in SUBSET Threads /\ Requests(c) \in Nat /\ irr[c] \in BOOLEAN
    BY <1>6 DEF FoundInv, Inserted, Requests
  <2>2. CASE c \notin To(t)
    <3>1. Inserted(c)' = Inserted(c)
      BY <1>3, <1>5, <2>2 DEF Inserted
    <3>2. Requests(c)' = Requests(c)
      <4>1. irr'[c] <=> irr[c]
        BY <1>1, <2>2
      <4> QED
        BY <1>1, <4>1 DEF Requests
    <3> QED
      BY <1>1, <2>1, <3>1, <3>2
  <2>3. CASE c \in To(t)
    <3>1. ~Among(c, th[t].todo)
      BY <1>1 DEF Among
    <3>2. t \in Inserted(c)
      BY <1>1, <2>3, <3>1 DEF Inserted
    <3>3. Inserted(c)' = Inserted(c) \ {t}
      BY <1>3, <1>5 DEF Inserted
    <3>4. Requests(c)' <= Requests(c) + 1 /\ Requests(c)' \in Nat
      BY <1>1 DEF Requests
    <3>5. Cardinality(Inserted(c)) \in Nat /\ Cardinality(Inserted(c)') = Cardinality(Inserted(c)) - 1
      BY <2>1, <3>2, <3>3, CountThreads
    <3>6. Len(EventList[c]) \in Nat
      BY DEF SmpInv, Types
    <3> QED
      BY <1>1, <2>1, <3>4, <3>5, <3>6
  <2> QED
    BY <2>2, <2>3
<1>7. \A u \in Threads : /\ th'[u].pc = "insert" => th'[u].mode \in Modes
                         /\ ~moved /\ th'[u].pc = "insert"
                            => \A d \in CPUs : Among(d, th'[u].todo) => d \in To(u)'
  BY <1>3, <1>5 DEF FoundInv
<1> QED
  BY <1>1, <1>4, <1>6, <1>7 DEF FoundInv

\* The handler starts for a request, and takes one event.
LEMMA HandlerFinds ==
    ASSUME SmpInv, FoundInv, NEW c \in CPUs, Interrupt(c) \/ IpcIpiIsr(c)
    PROVE  FoundInv'
<1>1. /\ UNCHANGED <<boot, th, cpu, moved>>
      /\ \A t \in Threads : To(t)' = To(t)
      /\ \A d \in CPUs : Inserted(d)' = Inserted(d)
  <2>1. UNCHANGED <<boot, th, cpu, moved>>
    BY DEF Interrupt, IpcIpiIsr, bootVars
  <2> QED
    BY <2>1 DEF To, Inserted
<1>2. \A d \in CPUs : /\ Cardinality(Inserted(d)) \in Nat /\ Len(EventList[d]) \in Nat
                      /\ EventList[d] \in Seq(Events)
  <2>1. \A d \in CPUs : Inserted(d) \in SUBSET Threads /\ EventList[d] \in Seq(Events)
    BY DEF Inserted, SmpInv, Types
  <2>2. \A S \in SUBSET Threads : Cardinality(S) \in Nat
    BY SmpAssumption, FS_Subset, FS_CardinalityType DEF SmpAssumption
  <2> QED
    BY <2>1, <2>2
<1>3. CASE Interrupt(c)
  <2>1. /\ irr[c] /\ isr[c].pc = "none" /\ UNCHANGED <<boot, th, cpu, EventList, moved>>
        /\ irr' = [irr EXCEPT ![c] = FALSE]
        /\ isr' = [isr EXCEPT ![c] = [isr[c] EXCEPT !.pc = "take"]]
    BY <1>3 DEF Interrupt, bootVars
  <2>2. /\ ~irr'[c] /\ isr'[c].pc = "take"
        /\ \A d \in CPUs : d # c => irr'[d] = irr[d] /\ isr'[d] = isr[d]
        /\ irr' \in [CPUs -> BOOLEAN]
    BY <2>1 DEF SmpInv, Types, FoundInv
  <2>3. ASSUME NEW d \in CPUs PROVE Requests(d)' = Requests(d)
    BY <2>1, <2>2 DEF Requests
  <2> QED
    BY <1>1, <2>1, <2>2, <2>3 DEF FoundInv
<1>4. CASE IpcIpiIsr(c) /\ EventList[c] = <<>>
  <2>1. UNCHANGED <<boot, th, cpu, EventList, isr, irr, moved>>
    BY <1>4 DEF IpcIpiIsr, bootVars
  <2> QED
    BY <2>1, SameFound DEF FoundInv
<1>5. CASE IpcIpiIsr(c) /\ EventList[c] # <<>>
  <2>1. /\ isr[c].pc = "take" /\ UNCHANGED <<boot, th, cpu, irr, moved>>
        /\ EventList' = [EventList EXCEPT ![c] = Tail(EventList[c])]
        /\ isr' = [isr EXCEPT ![c] = [pc |-> "function", event |-> Head(EventList[c])]]
    BY <1>5 DEF IpcIpiIsr, bootVars
  <2>2. /\ isr'[c].pc = "function" /\ EventList'[c] = Tail(EventList[c])
        /\ \A d \in CPUs : d # c => isr'[d] = isr[d] /\ EventList'[d] = EventList[d]
    BY <2>1 DEF SmpInv, Types
  <2>3. Len(EventList'[c]) = Len(EventList[c]) - 1
    BY <1>2, <1>5, <2>2
  <2>4. ASSUME ~moved, NEW d \in CPUs
        PROVE  Requests(d)' + Cardinality(Inserted(d)') <= Len(EventList'[d])
    <3>1. Requests(d) + Cardinality(Inserted(d)) <= Len(EventList[d]) /\ Inserted(d)' = Inserted(d)
      BY <1>1, <2>1, <2>4 DEF FoundInv
    <3>2. CASE d # c
      BY <2>1, <2>2, <3>1, <3>2 DEF Requests
    <3>3. CASE d = c
      <4>1. Requests(d)' = Requests(d) - 1 /\ Requests(d) \in Nat
        BY <2>1, <2>2, <3>3 DEF Requests
      <4> QED
        BY <1>2, <2>3, <3>1, <3>3, <4>1
    <3> QED
      BY <3>2, <3>3
  <2> QED
    BY <1>1, <2>1, <2>4 DEF FoundInv
<1> QED
  BY <1>3, <1>4, <1>5

\* The assert of _SmpIpcIpiIsr, that the list of the CPU has an event, holds
\* unless a sender was moved to another CPU between the lists and its IPI.
THEOREM ListsAnswerRequests == SmpSteps => []HandlerFindsEvent
<1>1. SmpInit => FoundInv
  <2> SUFFICES ASSUME SmpInit PROVE FoundInv
    OBVIOUS
  <2>1. /\ EventList = [c \in CPUs |-> <<>>] /\ irr = [c \in CPUs |-> FALSE]
        /\ isr = [c \in CPUs |-> NoInterrupt] /\ th = [t \in Threads |-> Out] /\ moved = FALSE
    BY DEF SmpInit
  <2>2. \A t \in Threads : th[t].pc = "out"
    BY <2>1 DEF Out
  <2>3. ASSUME NEW c \in CPUs PROVE Requests(c) + Cardinality(Inserted(c)) <= Len(EventList[c])
    <3>1. Inserted(c) = {}
      BY <2>2 DEF Inserted
    <3>2. Cardinality(Inserted(c)) = 0
      BY <3>1, FS_EmptySet
    <3>3. Requests(c) = 0
      BY <2>1 DEF Requests, NoInterrupt
    <3> QED
      BY <2>1, <3>2, <3>3
  <2> QED
    BY <2>1, <2>2, <2>3 DEF FoundInv
<1>2. SmpInv /\ FoundInv /\ [Next]_vars => FoundInv'
  <2> SUFFICES ASSUME SmpInv, FoundInv, [Next]_vars PROVE FoundInv'
    OBVIOUS
  <2>1. ASSUME NEW t \in Threads, NEW mode \in Modes, NEW dest \in SUBSET CPUs, NEW wait \in BOOLEAN,
               SendIpi(t, mode, dest, wait)
        PROVE  FoundInv'
    BY <2>1, GenerateFinds
  <2>2. ASSUME NEW t \in Threads, SendSteps(t) PROVE FoundInv'
    BY <2>2, InsertFinds, RequestFinds, OtherStepsFind DEF SendSteps
  <2>3. ASSUME NEW c \in CPUs, Handler(c) PROVE FoundInv'
    BY <2>3, HandlerFinds, OtherStepsFind DEF Handler
  <2> QED
    BY <2>1, <2>2, <2>3, MovesFind, OtherStepsFind DEF Next
<1>3. SmpInv /\ FoundInv => HandlerFindsEvent
  <2> SUFFICES ASSUME SmpInv, FoundInv, ~moved, NEW c \in CPUs
               PROVE  Requests(c) <= Len(EventList[c])
    BY DEF HandlerFindsEvent, Requests
  <2>1. Inserted(c) \in SUBSET Threads
    BY DEF Inserted
  <2>2. Cardinality(Inserted(c)) \in Nat
    BY <2>1, SmpAssumption, FS_Subset, FS_CardinalityType DEF SmpAssumption
  <2>3. Requests(c) \in Nat /\ Len(EventList[c]) \in Nat
    BY DEF Requests, SmpInv, Types
  <2>4. Requests(c) + Cardinality(Inserted(c)) <= Len(EventList[c])
    BY DEF FoundInv
  <2> QED
    BY <2>2, <2>3, <2>4
<1> QED
  BY <1>1, <1>2, <1>3, SmpInvariant, PTL DEF SmpSteps
-----------------------------------------------------------------------------
(* Device interrupts.                                                      *)

\* The drivers on the list of a vector, and the registration under way.
Registered(d, v) == v \in I!Vectors /\ Among(d, RegisteredInterrupts[v])
Registration == [pc : {"insert", "program"}, driver : Drivers, vector : I!Vectors,
                 line : Lines \union {NoVector}, route : BOOLEAN, written : BOOLEAN]
Walk == [pc : {"walk"}, vector : I!Vectors, at : Nat \ {0}]

IoTypes ==
    /\ m_isrRoutines \subseteq InterruptBitmap /\ InterruptBitmap \subseteq I!Vectors
    /\ RegisteredInterrupts \in [I!Vectors -> Seq(Drivers)]
    /\ redirection \in [Lines -> I!Vectors \union {NoVector}]
    /\ message \in [Drivers -> I!Vectors \union {NoVector}]
    /\ registering \in {I!Nothing} \union Registration
    /\ result \in [Drivers -> {"none", "ok", "failed"}]
    /\ asserted \subseteq Drivers /\ remoteIrr \subseteq Lines
    /\ ioIrr \in [CPUs -> SUBSET I!Vectors] /\ ioIsr \in [CPUs -> {I!Nothing} \union Walk]
    /\ squeezed \subseteq Drivers /\ astray \subseteq Drivers

\* A vector with a list has a routine; a driver is on one list, once, of its
\* level, when its registration has got so far; the kernel's are the first of
\* theirs; a written line has a list.
EntryInv ==
    /\ \A v \in I!Vectors : RegisteredInterrupts[v] # <<>> => v \in m_isrRoutines
    /\ \A v, w \in I!Vectors :
           \A i \in 1 .. Len(RegisteredInterrupts[v]), j \in 1 .. Len(RegisteredInterrupts[w]) :
               RegisteredInterrupts[v][i] = RegisteredInterrupts[w][j] => v = w /\ i = j
    /\ \A v \in I!Vectors, d \in Drivers : Registered(d, v) =>
           /\ I!VECTOR_TO_IRQL(v) = Asked[d].Irql
           /\ result[d] = "ok" \/ (registering.pc = "program" /\ registering.driver = d)
    /\ \A v \in I!Vectors : \A i \in 1 .. Len(RegisteredInterrupts[v]) :
           Asked[RegisteredInterrupts[v][i]].kernel => i = 1
    /\ \A l \in Lines : redirection[l] # NoVector => RegisteredInterrupts[redirection[l]] # <<>>

\* What the registration under way has found out stays true until it ends.
RegisteringInv ==
    registering # I!Nothing =>
        LET d == registering.driver
            v == registering.vector
            l == registering.line
        IN  /\ result[d] = "none" /\ v \in InterruptBitmap /\ I!VECTOR_TO_IRQL(v) = Asked[d].Irql
            /\ I!UsesIoApic(d) => l \in Lines /\ (d \notin astray => l = I!Wire(d))
            /\ registering.written => I!UsesIoApic(d) /\ redirection[l] = v
            /\ ~registering.written /\ I!UsesIoApic(d) => redirection[l] = NoVector
            /\ registering.pc = "insert" /\ (Asked[d].kernel \/ (~registering.written /\ d \notin squeezed)) =>
                   RegisteredInterrupts[v] = <<>>
            /\ registering.pc = "program" => Registered(d, v)
            /\ registering.pc = "program" /\ ~registering.written /\ d \notin squeezed /\ I!UsesIoApic(d) =>
                   registering.route
            /\ registering.pc = "program" /\ registering.route =>
                   I!UsesIoApic(d) /\ ~registering.written /\ RegisteredInterrupts[v] = <<d>>
            /\ registering.pc = "program" /\ ~registering.route /\ ~I!UsesIoApic(d) /\ d \notin squeezed =>
                   RegisteredInterrupts[v] = <<d>>

\* A driver whose registration succeeded is on the list its device leads to;
\* only those send messages or want service.
RouteInv ==
    /\ \A d \in Drivers \ (squeezed \union astray) : result[d] = "ok" =>
           (I!UsesIoApic(d) => I!Wire(d) \in Lines) /\ Registered(d, I!Sent(d))
    /\ \A d \in Drivers : message[d] # NoVector => result[d] = "ok" /\ ~I!UsesIoApic(d)
    /\ asserted \subseteq {d \in Drivers : result[d] = "ok"}
    /\ ~MaskInterrupts => \A d \in Drivers : Asked[d].kernel => result[d] = "ok"

\* As long as no driver had to share a vector or got a wrong line.
Clean == squeezed = {} /\ astray = {}

\* The requests for vector v that are at the k-th driver of its list or beyond,
\* those not taken yet being at the first, and the drivers from the k-th on that
\* want service.
Outstanding(v, k) ==
    {x \in CPUs \X {0, 1} :
        IF x[2] = 0 THEN v \in ioIrr[x[1]] /\ k = 1
        ELSE ioIsr[x[1]].pc = "walk" /\ ioIsr[x[1]].vector = v /\ ioIsr[x[1]].at >= k}
Claimants(v, k) == {i \in k .. Len(RegisteredInterrupts[v]) : RegisteredInterrupts[v][i] \in asserted}

\* Vectors of the kernel's own routines; lines of PCI devices.
KernelVector(v) == \E d \in Drivers : Asked[d].kernel /\ Asked[d].Irql = I!VECTOR_TO_IRQL(v)
LevelTriggered(l) ==
    \E d \in Drivers : Asked[d].type = "pci" /\ I!Wire(d) = l /\ Registered(d, redirection[l])

\* A written line leads to drivers wired to it only.
WiredInv ==
    \A l \in Lines, d \in Drivers : Registered(d, redirection[l]) => I!UsesIoApic(d) /\ I!Wire(d) = l

\* A request has a source; wherever it is in the list, enough drivers ahead of
\* it want service; a level-triggered line has one request, until it is served.
RequestInv ==
    \A v \in I!Vectors :
        /\ Outstanding(v, 1) # {} =>
               (\E l \in Lines : redirection[l] = v) \/ (\E d \in Drivers : message[d] = v)
        /\ KernelVector(v) => Outstanding(v, 2) = {}
        /\ ~KernelVector(v) =>
               \A k \in Nat \ {0} : Cardinality(Outstanding(v, k)) <= Cardinality(Claimants(v, k))
        /\ \A l \in Lines : redirection[l] = v /\ LevelTriggered(l) =>
               /\ Outstanding(v, 1) # {} => l \in remoteIrr
               /\ \A x, y \in Outstanding(v, 1) : x = y

IoInv ==
    /\ IoTypes /\ EntryInv /\ RegisteringInv /\ RouteInv
    /\ Clean => WiredInv /\ RequestInv /\ ~unhandled

\* A set of natural numbers has a least element.
LEMMA LeastOfNaturals ==
    ASSUME NEW S, S \subseteq Nat, S # {} PROVE I!Min(S) \in S
<1> DEFINE Less == {p \in Nat \X Nat : p[1] < p[2]}
<1>1. OpToRel(<, Nat) = Less
  BY Zenon DEF OpToRel
<1>2. IsWellFoundedOn(Less, Nat)
  BY <1>1, NatLessThanWellFounded, Zenon
<1>3. \A a, b \in Nat : a < b => <<a, b>> \in Less
  OBVIOUS
<1> HIDE DEF Less
<1>4. PICK x \in S : \A y \in S : ~(<<y, x>> \in Less)
  BY <1>2, WFMin
<1>5. ASSUME NEW y \in S PROVE x <= y
  <2>1. x \in Nat /\ y \in Nat
    OBVIOUS
  <2>2. ~(y < x)
    BY <1>3, <1>4, <2>1, Zenon
  <2> QED
    BY <2>1, <2>2
<1> QED
  BY <1>5 DEF I!Min

\* The vectors of an IRQL: the first of them is one, and of that IRQL.
LEMMA VectorLevels ==
    /\ I!Vectors \subseteq Nat /\ NoVector \notin I!Vectors
    /\ \A d \in Drivers : /\ I!IRQL_TO_VECTOR(Asked[d].Irql) \in I!Vectors
                          /\ I!VECTOR_TO_IRQL(I!IRQL_TO_VECTOR(Asked[d].Irql)) = Asked[d].Irql
<1>1. VectorsPerIrql \in Nat \ {0} /\ NoVector \notin Nat /\ \A d \in Drivers : Asked[d].Irql \in Nat
  BY InterruptsAssumption DEF I!IoInterruptsAssumption
<1>2. \A a, b \in Nat : a * b \in Nat
  OBVIOUS
<1>3. I!Vectors \subseteq Nat
  BY <1>1, <1>2 DEF I!Vectors, I!IRQL_TO_VECTOR
<1>4. ASSUME NEW d \in Drivers PROVE I!IRQL_TO_VECTOR(Asked[d].Irql) \in I!Vectors
  <2>1. I!IRQL_TO_VECTOR(Asked[d].Irql) \in Nat
    BY <1>1, <1>2 DEF I!IRQL_TO_VECTOR
  <2>2. I!IRQL_TO_VECTOR(Asked[d].Irql) \in
           I!IRQL_TO_VECTOR(Asked[d].Irql) .. I!IRQL_TO_VECTOR(Asked[d].Irql) + VectorsPerIrql - 1
    BY <2>1, <1>1
  <2> QED
    BY <2>2 DEF I!Vectors
<1>5. ASSUME NEW a \in Nat, NEW n \in Nat \ {0} PROVE (a * n) \div n = a
  <2>1. a * n = n * a
    OBVIOUS
  <2> QED
    BY <2>1
<1> QED
  BY <1>1, <1>3, <1>4, <1>5 DEF I!VECTOR_TO_IRQL, I!IRQL_TO_VECTOR

\* The requests stay as they are while neither CPUs, devices, lists nor lines change.
LEMMA SameRequests ==
    ASSUME UNCHANGED <<ioIrr, ioIsr, asserted, remoteIrr, RegisteredInterrupts, redirection, message>>
    PROVE  (WiredInv => WiredInv') /\ (RequestInv => RequestInv')
<1>1. \A v, k : Outstanding(v, k)' = Outstanding(v, k) /\ Claimants(v, k)' = Claimants(v, k)
  BY DEF Outstanding, Claimants
<1>2. \A d, v : Registered(d, v)' <=> Registered(d, v)
  BY DEF Registered, Among, I!Vectors
<1>3. \A l : LevelTriggered(l)' <=> LevelTriggered(l)
  BY <1>2 DEF LevelTriggered
<1>4. WiredInv => WiredInv'
  BY <1>2 DEF WiredInv
<1>5. RequestInv => RequestInv'
  BY <1>1, <1>3 DEF RequestInv
<1> QED
  BY <1>4, <1>5

\* No driver has registered and no request is made at first.
LEMMA DevicesStart == I!IoInterruptsInit => IoInv
<1> SUFFICES ASSUME I!IoInterruptsInit PROVE IoInv
  OBVIOUS
<1> USE DEF I!IoInterruptsInit
<1>1. IoTypes
  BY DEF IoTypes
<1>2. \A d, v : ~Registered(d, v)
  BY DEF Registered, Among
<1>3. EntryInv
  BY <1>2 DEF EntryInv
<1>4. RegisteringInv /\ RouteInv
  BY InterruptsAssumption DEF RegisteringInv, RouteInv
<1>5. WiredInv
  BY <1>2 DEF WiredInv
<1>6. ASSUME NEW v \in I!Vectors, NEW k \in Nat \ {0} PROVE Outstanding(v, k) = {}
  BY DEF Outstanding, I!Nothing
<1>7. ASSUME NEW v \in I!Vectors, NEW k \in Nat \ {0} PROVE Cardinality(Claimants(v, k)) \in Nat
  <2>1. Claimants(v, k) = {}
    BY DEF Claimants
  <2> QED
    BY <2>1, FS_EmptySet
<1>8. RequestInv
  <2> SUFFICES ASSUME NEW v \in I!Vectors
               PROVE  /\ Outstanding(v, 1) = {} /\ Outstanding(v, 2) = {}
                      /\ \A k \in Nat \ {0} : Cardinality(Outstanding(v, k)) <= Cardinality(Claimants(v, k))
    BY DEF RequestInv
  <2>1. \A k \in Nat \ {0} : Outstanding(v, k) = {} /\ Cardinality(Claimants(v, k)) \in Nat
    BY <1>6, <1>7
  <2>2. Cardinality({}) = 0
    BY FS_EmptySet
  <2>3. ASSUME NEW k \in Nat \ {0} PROVE Cardinality(Outstanding(v, k)) <= Cardinality(Claimants(v, k))
    <3>1. Cardinality(Outstanding(v, k)) = 0 /\ Cardinality(Claimants(v, k)) \in Nat
      BY <2>1, <2>2, Zenon
    <3> QED
      BY <3>1
  <2> QED
    BY <2>1, <2>3
<1> QED
  BY <1>1, <1>3, <1>4, <1>5, <1>8 DEF IoInv

\* IomuRegisterInterrupt up to the list: a vector that no list has, or that of
\* the line, or else the driver is squeezed.
LEMMA ChooseKeeps ==
    ASSUME IoInv, NEW d \in Drivers, I!ChooseVector(d) PROVE IoInv'
<1> USE DEF IoInv
<1>1. /\ registering = I!Nothing /\ result[d] = "none"
      /\ UNCHANGED <<m_isrRoutines, RegisteredInterrupts, redirection, message, MaskInterrupts>>
      /\ UNCHANGED <<asserted, ioIrr, remoteIrr, ioIsr, unhandled>>
  BY DEF I!ChooseVector, I!MayRegister, I!deviceVars
<1>2. PICK line :
        /\ astray' = IF I!UsesIoApic(d) /\ line # I!Wire(d) THEN astray \union {d} ELSE astray
        /\ I!UsesIoApic(d) \/ line = NoVector
        /\ \/ I!Acceptable(d, line) /\ I!TakeVector(d, line)
           \/ I!Fail(d) /\ UNCHANGED <<InterruptBitmap, squeezed>>
  BY DEF I!ChooseVector
<1>3. Clean' => Clean
  BY <1>2 DEF Clean, I!TakeVector
<1>4. Clean' => (WiredInv /\ RequestInv /\ ~unhandled)'
  BY <1>1, <1>3, SameRequests
<1>5. \A e, v : (Registered(e, v)' <=> Registered(e, v)) /\ (I!Sent(e)' = I!Sent(e))
  BY <1>1 DEF Registered, Among, I!Sent
<1>6. squeezed \subseteq squeezed' /\ astray \subseteq astray'
  BY <1>2 DEF I!TakeVector
<1>7. registering.pc # "program"
  BY <1>1 DEF I!Nothing
<1>8. CASE I!Fail(d) /\ UNCHANGED <<InterruptBitmap, squeezed>>
  <2>1. /\ result' = [result EXCEPT ![d] = "failed"] /\ registering' = I!Nothing
    BY <1>8 DEF I!Fail
  <2>2. IoTypes'
    BY <1>1, <1>2, <1>8, <2>1 DEF IoTypes
  <2>3. \A e \in Drivers : result[e] = "ok" <=> result'[e] = "ok"
    BY <1>1, <2>1 DEF IoTypes
  <2>4. EntryInv'
    BY <1>1, <1>5, <1>7, <2>3 DEF EntryInv
  <2>5. RouteInv'
    BY <1>1, <1>5, <1>6, <2>3 DEF RouteInv
  <2>6. RegisteringInv'
    BY <2>1 DEF RegisteringInv
  <2> QED
    BY <1>4, <2>2, <2>4, <2>5, <2>6
<1>9. CASE I!Acceptable(d, line) /\ I!TakeVector(d, line)
  <2> DEFINE found == I!HasVector(d, line)
             v == I!VectorFor(d, line)
  <2>a. /\ I!UsesIoApic(d) => line \in Lines
        /\ found => I!VECTOR_TO_IRQL(v) = Asked[d].Irql
        /\ InterruptBitmap' = InterruptBitmap \union (IF I!FreeVectors(d, line) = {} THEN {} ELSE {v})
        /\ squeezed' = IF ~found /\ I!FreeVectors(d, line) = {} THEN squeezed \union {d} ELSE squeezed
        /\ registering' = [pc |-> "insert", driver |-> d, vector |-> v, line |-> line,
                           route |-> FALSE, written |-> found]
        /\ UNCHANGED result
    BY <1>9 DEF I!Acceptable, I!TakeVector
  <2>1. ASSUME found
        PROVE  v \in InterruptBitmap /\ I!VECTOR_TO_IRQL(v) = Asked[d].Irql
    BY <2>a, <2>1 DEF I!Written, IoTypes, EntryInv, I!VectorFor, I!HasVector
  <2>2. ASSUME ~found, I!FreeVectors(d, line) # {}
        PROVE  /\ v \in I!Vectors \ InterruptBitmap /\ I!VECTOR_TO_IRQL(v) = Asked[d].Irql
               /\ RegisteredInterrupts[v] = <<>>
    <3>1. I!FreeVectors(d, line) \subseteq Nat
      BY <2>2, VectorLevels DEF I!FreeVectors
    <3>2. v \in I!FreeVectors(d, line)
      BY <2>2, <3>1, LeastOfNaturals DEF I!VectorFor
    <3>3. v \in I!Vectors \ InterruptBitmap /\ I!VECTOR_TO_IRQL(v) = Asked[d].Irql
      BY <3>2 DEF I!FreeVectors
    <3> QED
      BY <3>3 DEF EntryInv, IoTypes
  <2>3. ASSUME ~found, I!FreeVectors(d, line) = {}
        PROVE  /\ v \in InterruptBitmap /\ I!VECTOR_TO_IRQL(v) = Asked[d].Irql
               /\ d \in squeezed'
    BY <2>a, <2>3, VectorLevels DEF I!FreeVectors, I!VectorFor
  <2>4. /\ v \in InterruptBitmap' /\ v \in I!Vectors /\ I!VECTOR_TO_IRQL(v) = Asked[d].Irql
        /\ Asked[d].kernel \/ (~found /\ d \notin squeezed') => RegisteredInterrupts[v] = <<>>
    <3>1. Asked[d].kernel => I!FreeVectors(d, line) # {} /\ ~found
      BY <1>9, InterruptsAssumption DEF I!Acceptable, I!IoInterruptsAssumption, I!FreeVectors
    <3> QED
      BY <2>a, <2>1, <2>2, <2>3, <3>1 DEF IoTypes
  <2>5. /\ InterruptBitmap \subseteq InterruptBitmap' /\ InterruptBitmap' \subseteq I!Vectors
    BY <2>a, <2>4 DEF IoTypes
  <2>6. line \in Lines \union {NoVector} /\ found \in BOOLEAN
    BY <1>2, <2>a DEF I!HasVector
  <2>7. registering' \in Registration
    BY <2>a, <2>4, <2>6 DEF Registration
  <2>8. IoTypes'
    BY <1>1, <1>2, <2>a, <2>5, <2>7 DEF IoTypes
  <2>9. EntryInv'
    BY <1>1, <1>5, <1>7, <2>a DEF EntryInv
  <2>10. RouteInv'
    BY <1>1, <1>5, <1>6, <2>a DEF RouteInv
  <2>11. /\ registering'.pc = "insert" /\ registering'.driver = d /\ registering'.vector = v
         /\ registering'.line = line /\ registering'.written = found
    BY <2>a
  <2>12. found => I!UsesIoApic(d) /\ redirection'[line] = v
    BY <1>1 DEF I!HasVector, I!VectorFor
  <2>13. ~found /\ I!UsesIoApic(d) => redirection'[line] = NoVector
    BY <1>1, <2>a DEF I!Written, I!HasVector
  <2>14. I!UsesIoApic(d) => line \in Lines /\ (d \notin astray' => line = I!Wire(d))
    BY <1>2, <2>a
  <2>15. RegisteringInv'
    <3> HIDE DEF found, v
    <3> QED
      BY <1>1, <2>a, <2>4, <2>11, <2>12, <2>13, <2>14 DEF RegisteringInv
  <2> QED
    BY <1>4, <2>8, <2>9, <2>10, <2>15
<1> QED
  BY <1>2, <1>8, <1>9

\* There are finitely many requests.
LEMMA FiniteWaiting ==
    ASSUME NEW S, S \subseteq CPUs \X {0, 1} PROVE IsFiniteSet(S) /\ Cardinality(S) \in Nat
<1>1. IsFiniteSet({0} \union {1})
  BY FS_Singleton, FS_Union
<1>2. {0, 1} = {0} \union {1}
  OBVIOUS
<1>3. IsFiniteSet({0, 1})
  BY <1>1, <1>2, Zenon
<1>4. IsFiniteSet(CPUs \X {0, 1})
  BY <1>3, SmpAssumption, FS_Product DEF SmpAssumption
<1> QED
  BY <1>4, FS_Subset, FS_CardinalityType

\* The positions of a list whose driver is in a set.
LEMMA FiniteClaimants ==
    ASSUME NEW s \in Seq(Drivers), NEW k \in Nat \ {0}, NEW A
    PROVE  /\ IsFiniteSet({i \in k .. Len(s) : s[i] \in A})
           /\ Cardinality({i \in k .. Len(s) : s[i] \in A}) \in Nat
<1>1. IsFiniteSet(1 .. Len(s))
  BY FS_Interval
<1>2. {i \in k .. Len(s) : s[i] \in A} \subseteq 1 .. Len(s)
  OBVIOUS
<1> QED
  BY <1>1, <1>2, FS_Subset, FS_CardinalityType

\* So the requests and claimants of a vector can be counted.
LEMMA FiniteRequests ==
    ASSUME IoTypes, NEW v \in I!Vectors, NEW k \in Nat \ {0}
    PROVE  /\ IsFiniteSet(Outstanding(v, k)) /\ Cardinality(Outstanding(v, k)) \in Nat
           /\ IsFiniteSet(Claimants(v, k)) /\ Cardinality(Claimants(v, k)) \in Nat
<1>1. Outstanding(v, k) \subseteq CPUs \X {0, 1} /\ RegisteredInterrupts[v] \in Seq(Drivers)
  BY DEF Outstanding, IoTypes
<1>2. IsFiniteSet(Claimants(v, k)) /\ Cardinality(Claimants(v, k)) \in Nat
  BY <1>1, FiniteClaimants DEF Claimants
<1> QED
  BY <1>1, <1>2, FiniteWaiting

\* The same in the next state.
LEMMA FiniteRequestsNext ==
    ASSUME IoTypes', NEW v \in I!Vectors, NEW k \in Nat \ {0}
    PROVE  /\ IsFiniteSet(Outstanding(v, k)') /\ Cardinality(Outstanding(v, k)') \in Nat
           /\ IsFiniteSet(Claimants(v, k)') /\ Cardinality(Claimants(v, k)') \in Nat
<1>1. Outstanding(v, k)' \subseteq CPUs \X {0, 1} /\ RegisteredInterrupts'[v] \in Seq(Drivers)
  BY DEF Outstanding, IoTypes
<1>2. IsFiniteSet(Claimants(v, k)') /\ Cardinality(Claimants(v, k)') \in Nat
  BY <1>1, FiniteClaimants DEF Claimants
<1> QED
  BY <1>1, <1>2, FiniteWaiting

\* A larger set of claimants, a smaller one of requests.
LEMMA FewerRequests ==
    ASSUME NEW A, NEW B, A \subseteq B, IsFiniteSet(B)
    PROVE  Cardinality(A) <= Cardinality(B)
BY FS_Subset

\* The members of a list are of one kind: all of them the kernel's or none, and
\* those of one line all PCI devices or none.
LEMMA OneKind ==
    ASSUME IoInv
    PROVE  /\ \A v \in I!Vectors, d \in Drivers : Registered(d, v) => (KernelVector(v) <=> Asked[d].kernel)
           /\ \A v \in I!Vectors, d, e \in Drivers :
                  /\ Registered(d, v) /\ Registered(e, v) /\ I!Wire(d) = I!Wire(e)
                  /\ I!UsesIoApic(d) /\ I!UsesIoApic(e) /\ Asked[d].type = "pci"
                  => Asked[e].type = "pci"
<1>1. \A v \in I!Vectors, d \in Drivers : Registered(d, v) => I!VECTOR_TO_IRQL(v) = Asked[d].Irql
  BY DEF IoInv, EntryInv
<1>2. \A d, e \in Drivers : Asked[d].kernel /\ Asked[e].Irql = Asked[d].Irql => Asked[e].kernel
  BY InterruptsAssumption DEF I!IoInterruptsAssumption
<1>3. \A d, e \in Drivers : Asked[d].type = "legacy" /\ Asked[e].type = "pci" =>
          I!Wire(d) # I!Wire(e) \/ Asked[d].Irql # Asked[e].Irql
  BY InterruptsAssumption DEF I!IoInterruptsAssumption
<1>4. \A d \in Drivers : Asked[d].type \in {"legacy", "pci", "msi"}
  BY InterruptsAssumption DEF I!IoInterruptsAssumption
<1>5. \A v \in I!Vectors, d \in Drivers : Registered(d, v) => (KernelVector(v) <=> Asked[d].kernel)
  BY <1>1, <1>2 DEF KernelVector
<1>6. \A v \in I!Vectors, d, e \in Drivers :
          /\ Registered(d, v) /\ Registered(e, v) /\ I!Wire(d) = I!Wire(e)
          /\ I!UsesIoApic(d) /\ I!UsesIoApic(e) /\ Asked[d].type = "pci"
          => Asked[e].type = "pci"
  BY <1>1, <1>3, <1>4 DEF I!UsesIoApic
<1> QED
  BY <1>5, <1>6

\* A written line has somebody on its list.
LEMMA SomebodyIsListed ==
    ASSUME IoInv, NEW v \in I!Vectors, RegisteredInterrupts[v] # <<>>
    PROVE  \E e \in Drivers : Registered(e, v)
<1>1. RegisteredInterrupts[v] \in Seq(Drivers)
  BY DEF IoInv, IoTypes
<1>2. Len(RegisteredInterrupts[v]) >= 1 /\ RegisteredInterrupts[v][1] \in Drivers
  BY <1>1
<1> QED
  BY <1>1, <1>2 DEF Registered, Among

\* The registration under way is a record, of a driver that has no entry yet.
LEMMA UnderWay ==
    ASSUME IoInv, registering.pc \in {"insert", "program"}
    PROVE  /\ registering \in Registration /\ registering # I!Nothing
           /\ registering.driver \in Drivers /\ registering.vector \in I!Vectors
           /\ registering.pc = "insert" => \A v \in I!Vectors : ~Registered(registering.driver, v)
<1>1. registering \in Registration /\ registering # I!Nothing
  BY DEF IoInv, IoTypes, I!Nothing
<1>2. registering.driver \in Drivers /\ registering.vector \in I!Vectors
  BY <1>1 DEF Registration
<1>3. result[registering.driver] = "none"
  BY <1>1 DEF IoInv, RegisteringInv
<1>4. registering.pc = "insert" => \A v \in I!Vectors : ~Registered(registering.driver, v)
  BY <1>2, <1>3 DEF IoInv, EntryInv
<1> QED
  BY <1>1, <1>2, <1>4

\* IsrInstallEx refuses or there is no memory: the routine may stay installed.
LEMMA InsertFails ==
    ASSUME IoInv, registering.pc = "insert", I!Fail(registering.driver),
           m_isrRoutines' \in {m_isrRoutines, I!Installed(registering.vector)},
           UNCHANGED <<RegisteredInterrupts, InterruptBitmap, redirection, message, squeezed, astray,
                       I!deviceVars, MaskInterrupts>>
    PROVE  IoInv'
<1> DEFINE d == registering.driver
<1>1. /\ d \in Drivers /\ registering.vector \in InterruptBitmap /\ result[d] = "none"
  BY UnderWay DEF IoInv, RegisteringInv
<1>2. /\ result' = [result EXCEPT ![d] = "failed"] /\ registering' = I!Nothing
  BY DEF I!Fail
<1>3. /\ UNCHANGED <<RegisteredInterrupts, InterruptBitmap, redirection, message, squeezed, astray, MaskInterrupts>>
      /\ UNCHANGED <<asserted, ioIrr, remoteIrr, ioIsr, unhandled>>
      /\ m_isrRoutines \subseteq m_isrRoutines' /\ m_isrRoutines' \subseteq InterruptBitmap
  BY <1>1 DEF I!deviceVars, I!Installed, IoInv, IoTypes
<1>4. IoTypes'
  BY <1>2, <1>3 DEF IoInv, IoTypes
<1>5. \A e \in Drivers : result[e] = "ok" <=> result'[e] = "ok"
  BY <1>1, <1>2 DEF IoInv, IoTypes
<1>6. \A e, v : (Registered(e, v)' <=> Registered(e, v)) /\ (I!Sent(e)' = I!Sent(e))
  BY <1>3 DEF Registered, Among, I!Sent
<1>7. EntryInv'
  BY <1>3, <1>5, <1>6 DEF IoInv, EntryInv
<1>8. RouteInv'
  BY <1>3, <1>5, <1>6 DEF IoInv, RouteInv
<1>9. RegisteringInv'
  BY <1>2 DEF RegisteringInv
<1>10. Clean' => (WiredInv /\ RequestInv /\ ~unhandled)'
  BY <1>3, SameRequests DEF Clean, IoInv
<1> QED
  BY <1>4, <1>7, <1>8, <1>9, <1>10 DEF IoInv

\* A new entry changes one list, at its end.
LEMMA NewEntry ==
    ASSUME IoInv, NEW d \in Drivers, NEW v \in I!Vectors, \A w \in I!Vectors : ~Registered(d, w),
           RegisteredInterrupts' = [RegisteredInterrupts EXCEPT ![v] = Append(RegisteredInterrupts[v], d)]
    PROVE  /\ RegisteredInterrupts' \in [I!Vectors -> Seq(Drivers)]
           /\ \A e, w : Registered(e, w)' <=> Registered(e, w) \/ (e = d /\ w = v)
           /\ \A w \in I!Vectors : /\ w # v => RegisteredInterrupts'[w] = RegisteredInterrupts[w]
                                   /\ RegisteredInterrupts[w] # <<>> => RegisteredInterrupts'[w] # <<>>
                                   /\ \A k \in Nat \ {0} : Claimants(w, k) \subseteq
                                          {i \in k .. Len(RegisteredInterrupts'[w]) : RegisteredInterrupts'[w][i] \in asserted}
           /\ RegisteredInterrupts[v] = <<>> => RegisteredInterrupts'[v] = <<d>>
           /\ (Asked[d].kernel => RegisteredInterrupts[v] = <<>>) =>
                  \A w \in I!Vectors : \A i \in 1 .. Len(RegisteredInterrupts'[w]) :
                      Asked[RegisteredInterrupts'[w][i]].kernel => i = 1
           /\ \A u, w \in I!Vectors :
                  \A i \in 1 .. Len(RegisteredInterrupts'[u]), j \in 1 .. Len(RegisteredInterrupts'[w]) :
                      RegisteredInterrupts'[u][i] = RegisteredInterrupts'[w][j] => u = w /\ i = j
<1> DEFINE R == RegisteredInterrupts
<1>1. R \in [I!Vectors -> Seq(Drivers)]
  BY DEF IoInv, IoTypes
<1>2. /\ R'[v] = Append(R[v], d) /\ \A w \in I!Vectors : w # v => R'[w] = R[w]
      /\ R[v] \in Seq(Drivers) /\ R' \in [I!Vectors -> Seq(Drivers)]
  BY <1>1, AppendedList
<1>3. /\ Len(R'[v]) = Len(R[v]) + 1 /\ R'[v][Len(R[v]) + 1] = d /\ Len(R[v]) \in Nat
      /\ \A i \in 1 .. Len(R[v]) : R'[v][i] = R[v][i]
  BY <1>2
<1>4. \A e : Among(e, R'[v]) <=> Among(e, R[v]) \/ e = d
  BY <1>2, AppendedList
<1>5. \A e, w : Registered(e, w)' <=> Registered(e, w) \/ (e = d /\ w = v)
  BY <1>2, <1>4 DEF Registered
<1>6. ASSUME NEW w \in I!Vectors
      PROVE  /\ R[w] # <<>> => R'[w] # <<>>
             /\ \A k \in Nat \ {0} : Claimants(w, k) \subseteq {i \in k .. Len(R'[w]) : R'[w][i] \in asserted}
  <2>1. CASE w # v
    BY <1>2, <2>1 DEF Claimants
  <2>2. CASE w = v
    <3>1. R'[w] # <<>>
      BY <1>2, <1>3, <2>2
    <3> QED
      BY <1>3, <2>2, <3>1 DEF Claimants
  <2> QED
    BY <2>1, <2>2
<1>7. R[v] = <<>> => R'[v] = <<d>>
  BY <1>2
<1>8. ASSUME NEW u \in I!Vectors, NEW w \in I!Vectors,
             NEW i \in 1 .. Len(R'[u]), NEW j \in 1 .. Len(R'[w]), R'[u][i] = R'[w][j]
      PROVE  u = w /\ i = j
  <2>1. \A x \in I!Vectors : \A n \in 1 .. Len(R[x]) : R[x][n] # d
    BY DEF Registered, Among
  <2>2. \A x \in I!Vectors : \A n \in 1 .. Len(R'[x]) :
           \/ n \in 1 .. Len(R[x]) /\ R'[x][n] = R[x][n]
           \/ x = v /\ n = Len(R[v]) + 1 /\ R'[x][n] = d
    BY <1>2, <1>3
  <2>3. \A x, y \in I!Vectors : \A n \in 1 .. Len(R[x]), m \in 1 .. Len(R[y]) :
            R[x][n] = R[y][m] => x = y /\ n = m
    BY DEF IoInv, EntryInv
  <2> QED
    BY <1>8, <2>1, <2>2, <2>3
<1>9. ASSUME Asked[d].kernel => R[v] = <<>>, NEW w \in I!Vectors, NEW i \in 1 .. Len(R'[w]), Asked[R'[w][i]].kernel
      PROVE  i = 1
  <2>1. CASE w = v /\ i = Len(R[v]) + 1
    BY <1>2, <1>3, <1>9, <2>1
  <2>2. CASE ~(w = v /\ i = Len(R[v]) + 1)
    <3>1. i \in 1 .. Len(R[w]) /\ R'[w][i] = R[w][i]
      BY <1>2, <1>3, <2>2
    <3> QED
      BY <1>9, <3>1 DEF IoInv, EntryInv
  <2> QED
    BY <2>1, <2>2
<1> QED
  BY <1>2, <1>5, <1>6, <1>7, <1>8, <1>9

\* The entry is inserted: behind others on a line that has its vector, or alone.
LEMMA InsertWorks ==
    ASSUME IoInv, registering.pc = "insert",
           RegisteredInterrupts' = [RegisteredInterrupts EXCEPT ![registering.vector] =
                                       Append(RegisteredInterrupts[registering.vector], registering.driver)],
           m_isrRoutines' = IF RegisteredInterrupts[registering.vector] = <<>>
                            THEN I!Installed(registering.vector) ELSE m_isrRoutines,
           registering' = [registering EXCEPT !.pc = "program",
                              !.route = I!NeedsRoute(registering.driver,
                                                     RegisteredInterrupts[registering.vector] = <<>>,
                                                     registering.written)],
           UNCHANGED <<result, InterruptBitmap, redirection, message, squeezed, astray, I!deviceVars, MaskInterrupts>>
    PROVE  IoInv'
<1> DEFINE d == registering.driver
           v == registering.vector
           l == registering.line
           R == RegisteredInterrupts
<1>1. /\ registering \in Registration /\ d \in Drivers /\ v \in I!Vectors
      /\ \A w \in I!Vectors : ~Registered(d, w)
  BY UnderWay
<1>2. /\ result[d] = "none" /\ v \in InterruptBitmap /\ I!VECTOR_TO_IRQL(v) = Asked[d].Irql
      /\ I!UsesIoApic(d) => l \in Lines /\ (d \notin astray => l = I!Wire(d))
      /\ registering.written => I!UsesIoApic(d) /\ redirection[l] = v
      /\ ~registering.written /\ I!UsesIoApic(d) => redirection[l] = NoVector
      /\ Asked[d].kernel \/ (~registering.written /\ d \notin squeezed) => R[v] = <<>>
  BY UnderWay DEF IoInv, RegisteringInv
<1>3. /\ R' \in [I!Vectors -> Seq(Drivers)]
      /\ \A e, w : Registered(e, w)' <=> Registered(e, w) \/ (e = d /\ w = v)
      /\ \A w \in I!Vectors : /\ w # v => R'[w] = R[w]
                              /\ R[w] # <<>> => R'[w] # <<>>
                              /\ \A k \in Nat \ {0} : Claimants(w, k) \subseteq {i \in k .. Len(R'[w]) :
                                                               R'[w][i] \in asserted}
      /\ R[v] = <<>> => R'[v] = <<d>>
      /\ \A w \in I!Vectors : \A i \in 1 .. Len(R'[w]) : Asked[R'[w][i]].kernel => i = 1
      /\ \A u, w \in I!Vectors : \A i \in 1 .. Len(R'[u]), j \in 1 .. Len(R'[w]) :
             R'[u][i] = R'[w][j] => u = w /\ i = j
  BY <1>1, <1>2, NewEntry
<1>4. /\ UNCHANGED <<result, InterruptBitmap, redirection, message, squeezed, astray, MaskInterrupts>>
      /\ UNCHANGED <<asserted, ioIrr, remoteIrr, ioIsr, unhandled>>
  BY DEF I!deviceVars
<1>5. /\ registering'.pc = "program" /\ registering'.driver = d /\ registering'.vector = v
      /\ registering'.line = l /\ registering'.written = registering.written
      /\ registering'.route <=> (R[v] = <<>> /\ I!UsesIoApic(d) /\ ~registering.written)
      /\ registering' \in Registration
  BY <1>1 DEF Registration, I!NeedsRoute
<1>6. m_isrRoutines \subseteq m_isrRoutines' /\ v \in m_isrRoutines' /\ m_isrRoutines' \subseteq InterruptBitmap
  BY <1>1, <1>2 DEF I!Installed, IoInv, IoTypes, EntryInv
<1>7. IoTypes'
  BY <1>3, <1>4, <1>5, <1>6 DEF IoInv, IoTypes
<1> HIDE DEF d, v, l
<1>8. EntryInv'
  <2>1. \A w \in I!Vectors : R'[w] # <<>> => w \in m_isrRoutines'
    BY <1>3, <1>6 DEF IoInv, EntryInv
  <2>2. \A w \in I!Vectors, e \in Drivers : Registered(e, w)' =>
           /\ I!VECTOR_TO_IRQL(w) = Asked[e].Irql
           /\ result'[e] = "ok" \/ (registering'.pc = "program" /\ registering'.driver = e)
    BY <1>2, <1>3, <1>4, <1>5 DEF IoInv, EntryInv
  <2>3. \A m \in Lines : redirection'[m] # NoVector => R'[redirection'[m]] # <<>>
    BY <1>3, <1>4 DEF IoInv, IoTypes, EntryInv
  <2> QED
    BY <1>3, <2>1, <2>2, <2>3 DEF EntryInv
<1>9. RouteInv'
  BY <1>3, <1>4 DEF IoInv, RouteInv, I!Sent
<1>10. RegisteringInv'
  <2>1. Registered(registering.driver, registering.vector)'
    BY <1>3, <1>5
  <2> QED
    BY <1>2, <1>3, <1>4, <1>5, <2>1 DEF RegisteringInv
<1>11. ASSUME Clean', NEW m \in Lines, redirection[m] = v
       PROVE  /\ Clean /\ I!UsesIoApic(d) /\ I!Wire(d) = m
              /\ \E e \in Drivers : Registered(e, v) /\ I!UsesIoApic(e) /\ I!Wire(e) = m
  <2>1. Clean
    BY <1>4, <1>11 DEF Clean
  <2>2. R[v] # <<>>
    BY <1>1, <1>11, VectorLevels DEF IoInv, EntryInv
  <2>3. PICK e \in Drivers : Registered(e, v)
    BY <1>1, <2>2, SomebodyIsListed
  <2>4. I!UsesIoApic(e) /\ I!Wire(e) = m
    BY <1>11, <2>1, <2>3 DEF IoInv, WiredInv
  <2>5. I!UsesIoApic(d) /\ l \in Lines /\ l = I!Wire(d) /\ redirection[l] = v
    BY <1>2, <2>1, <2>2 DEF Clean
  <2>6. I!Wire(e) = l
    BY <2>1, <2>3, <2>5 DEF IoInv, WiredInv
  <2> QED
    BY <2>1, <2>3, <2>4, <2>5, <2>6
<1>12. Clean' => WiredInv'
  <2> SUFFICES ASSUME Clean', NEW m \in Lines, NEW e \in Drivers, Registered(e, redirection[m])'
               PROVE  I!UsesIoApic(e) /\ I!Wire(e) = m
    BY DEF WiredInv
  <2>1. redirection'[m] = redirection[m] /\ Clean
    BY <1>4 DEF Clean
  <2>2. Registered(e, redirection[m]) \/ (e = d /\ redirection[m] = v)
    BY <1>3, <2>1
  <2>3. CASE Registered(e, redirection[m])
    BY <2>1, <2>3 DEF IoInv, WiredInv
  <2>4. CASE e = d /\ redirection[m] = v
    BY <1>11, <2>4
  <2> QED
    BY <2>2, <2>3, <2>4
<1>13. ASSUME Clean', NEW m \in Lines, LevelTriggered(m)' PROVE LevelTriggered(m)
  <2>1. redirection'[m] = redirection[m] /\ Clean
    BY <1>4, <1>13 DEF Clean
  <2>2. PICK e \in Drivers : Asked[e].type = "pci" /\ I!Wire(e) = m /\ Registered(e, redirection[m])'
    BY <1>13 DEF LevelTriggered
  <2>3. CASE Registered(e, redirection[m])
    BY <2>2, <2>3 DEF LevelTriggered
  <2>4. CASE e = d /\ redirection[m] = v
    <3>1. PICK f \in Drivers : Registered(f, v) /\ I!UsesIoApic(f) /\ I!Wire(f) = m
      BY <1>11, <1>13, <2>4
    <3>2. Asked[f].Irql = Asked[d].Irql
      BY <1>1, <1>2, <3>1 DEF IoInv, EntryInv
    <3>3. Asked[f].type = "pci"
      BY <2>2, <2>4, <3>1, <3>2, InterruptsAssumption DEF I!IoInterruptsAssumption, I!UsesIoApic
    <3> QED
      BY <2>4, <3>1, <3>3 DEF LevelTriggered
  <2> QED
    BY <1>3, <2>1, <2>2, <2>3, <2>4
<1>14. Clean' => RequestInv'
  <2> SUFFICES ASSUME Clean', NEW w \in I!Vectors
               PROVE  /\ Outstanding(w, 1)' # {} =>
                             (\E m \in Lines : redirection'[m] = w) \/ (\E e \in Drivers : message'[e] = w)
                      /\ KernelVector(w) => Outstanding(w, 2)' = {}
                      /\ ~KernelVector(w) => \A k \in Nat \ {0} :
                             Cardinality(Outstanding(w, k)') <= Cardinality(Claimants(w, k)')
                      /\ \A m \in Lines : redirection'[m] = w /\ LevelTriggered(m)' =>
                             /\ Outstanding(w, 1)' # {} => m \in remoteIrr'
                             /\ \A x, y \in Outstanding(w, 1)' : x = y
    BY DEF RequestInv, KernelVector
  <2>1. \A k : Outstanding(w, k)' = Outstanding(w, k)
    BY <1>4 DEF Outstanding
  <2>2. Clean /\ RequestInv
    BY <1>4 DEF Clean, IoInv
  <2>3. ASSUME NEW k \in Nat \ {0}, ~KernelVector(w)
        PROVE  Cardinality(Outstanding(w, k)') <= Cardinality(Claimants(w, k)')
    <3>1. Claimants(w, k) \subseteq Claimants(w, k)'
      BY <1>3, <1>4 DEF Claimants
    <3>2. IsFiniteSet(Claimants(w, k)') /\ Cardinality(Claimants(w, k)') \in Nat
      BY <1>7, FiniteRequestsNext
    <3>a. Cardinality(Outstanding(w, k)) \in Nat /\ Cardinality(Claimants(w, k)) \in Nat
      BY FiniteRequests DEF IoInv
    <3>3. Cardinality(Claimants(w, k)) <= Cardinality(Claimants(w, k)')
      BY <3>1, <3>2, FewerRequests
    <3> QED
      BY <2>1, <2>2, <2>3, <3>2, <3>a, <3>3 DEF RequestInv
  <2> QED
    BY <1>4, <1>13, <2>1, <2>2, <2>3 DEF RequestInv
<1>15. Clean' => ~unhandled'
  BY <1>4 DEF IoInv, Clean
<1> QED
  BY <1>7, <1>8, <1>9, <1>10, <1>12, <1>14, <1>15 DEF IoInv

\* The device sends the vector from now on, or its line does.
LEMMA ProgramKeeps ==
    ASSUME IoInv, I!Program PROVE IoInv'
<1> DEFINE d == registering.driver
           v == registering.vector
           l == registering.line
           R == RegisteredInterrupts
<1>1. /\ d \in Drivers /\ v \in I!Vectors /\ registering.pc = "program" /\ registering # I!Nothing
  BY UnderWay DEF I!Program
<1>2. /\ result[d] = "none" /\ v \in InterruptBitmap /\ Registered(d, v)
      /\ I!UsesIoApic(d) => l \in Lines /\ (d \notin astray => l = I!Wire(d))
      /\ registering.written => I!UsesIoApic(d) /\ redirection[l] = v
      /\ ~registering.written /\ I!UsesIoApic(d) => redirection[l] = NoVector
      /\ ~registering.written /\ d \notin squeezed /\ I!UsesIoApic(d) => registering.route
      /\ registering.route => I!UsesIoApic(d) /\ ~registering.written /\ R[v] = <<d>>
  BY <1>1 DEF IoInv, RegisteringInv
<1>3. /\ message' = IF I!UsesIoApic(d) THEN message ELSE [message EXCEPT ![d] = v]
      /\ redirection' = IF registering.route THEN [redirection EXCEPT ![l] = v] ELSE redirection
      /\ result' = [result EXCEPT ![d] = "ok"] /\ registering' = I!Nothing
      /\ UNCHANGED <<InterruptBitmap, m_isrRoutines, R, squeezed, astray, MaskInterrupts>>
      /\ UNCHANGED <<asserted, ioIrr, remoteIrr, ioIsr, unhandled>>
  BY DEF I!Program, I!Messages, I!Routed, I!deviceVars
<1> HIDE DEF d, v, l
<1>4. \A e, w : Registered(e, w)' <=> Registered(e, w)
  BY <1>3 DEF Registered
<1>5. IoTypes'
  <2>1. message' \in [Drivers -> I!Vectors \union {NoVector}]
    BY <1>1, <1>3 DEF IoInv, IoTypes
  <2>2. redirection' \in [Lines -> I!Vectors \union {NoVector}]
    BY <1>1, <1>3 DEF IoInv, IoTypes
  <2> QED
    BY <1>1, <1>3, <2>1, <2>2 DEF IoInv, IoTypes
<1>6. \A m \in Lines : \/ redirection'[m] = redirection[m]
                       \/ m = l /\ registering.route /\ redirection[m] = NoVector /\ redirection'[m] = v
  BY <1>2, <1>3 DEF IoInv, IoTypes
<1>7. \A e \in Drivers : e # d => message'[e] = message[e] /\ result'[e] = result[e]
  BY <1>3 DEF IoInv, IoTypes
<1>8. result'[d] = "ok" /\ message[d] = NoVector
  BY <1>1, <1>2, <1>3 DEF IoInv, IoTypes, RouteInv
<1>9. EntryInv'
  <2>1. \A w \in I!Vectors, e \in Drivers : Registered(e, w)' =>
           /\ I!VECTOR_TO_IRQL(w) = Asked[e].Irql /\ result'[e] = "ok"
    BY <1>4, <1>7, <1>8 DEF IoInv, EntryInv, d
  <2>2. R[v] # <<>>
    BY <1>1, <1>2 DEF Registered, Among
  <2>3. \A m \in Lines : redirection'[m] # NoVector => R'[redirection'[m]] # <<>>
    BY <1>3, <1>6, <2>2 DEF IoInv, EntryInv
  <2> QED
    BY <1>3, <2>1, <2>3 DEF IoInv, EntryInv
<1>10. RegisteringInv'
  BY <1>3 DEF RegisteringInv
<1>11. ASSUME NEW e \in Drivers \ (squeezed \union astray), result'[e] = "ok"
       PROVE  (I!UsesIoApic(e) => I!Wire(e) \in Lines) /\ Registered(e, I!Sent(e))'
  <2>1. CASE e = d
    <3>1. CASE I!UsesIoApic(e)
      <4>1. l \in Lines /\ l = I!Wire(e)
        BY <1>2, <1>11, <2>1, <3>1
      <4>2. redirection'[l] = v
        BY <1>2, <1>3, <1>11, <2>1, <3>1, <4>1 DEF IoInv, IoTypes
      <4> QED
        BY <1>2, <1>4, <2>1, <3>1, <4>1, <4>2 DEF I!Sent
    <3>2. CASE ~I!UsesIoApic(e)
      <4>1. message'[e] = v
        BY <1>1, <1>3, <2>1, <3>2 DEF IoInv, IoTypes
      <4> QED
        BY <1>2, <1>4, <2>1, <3>2, <4>1 DEF I!Sent
    <3> QED
      BY <3>1, <3>2
  <2>2. CASE e # d
    <3>1. (I!UsesIoApic(e) => I!Wire(e) \in Lines) /\ Registered(e, I!Sent(e))
      BY <1>7, <1>11, <2>2 DEF IoInv, RouteInv
    <3>2. I!Sent(e) \in I!Vectors
      BY <3>1 DEF Registered
    <3>3. I!Sent(e)' = I!Sent(e)
      BY <1>6, <1>7, <2>2, <3>1, <3>2, VectorLevels DEF I!Sent
    <3> QED
      BY <1>4, <3>1, <3>3
  <2> QED
    BY <2>1, <2>2
<1>12. RouteInv'
  <2>1. \A e \in Drivers : message'[e] # NoVector => result'[e] = "ok" /\ ~I!UsesIoApic(e)
    BY <1>1, <1>3, <1>7, <1>8 DEF IoInv, RouteInv
  <2>2. \A e \in Drivers : result[e] = "ok" => result'[e] = "ok"
    BY <1>7, <1>8
  <2> QED
    BY <1>3, <1>11, <2>1, <2>2 DEF IoInv, RouteInv
<1>13. ASSUME Clean' PROVE Clean /\ WiredInv /\ RequestInv /\ ~unhandled
  BY <1>3, <1>13 DEF IoInv, Clean
<1>14. \A e : registering.route /\ Registered(e, v) => e = d /\ I!UsesIoApic(d)
  BY <1>2 DEF Registered, Among
<1>15. Clean' => WiredInv'
  <2> SUFFICES ASSUME Clean', NEW m \in Lines, NEW e \in Drivers, Registered(e, redirection[m])'
               PROVE  I!UsesIoApic(e) /\ I!Wire(e) = m
    BY DEF WiredInv
  <2>1. Registered(e, redirection'[m])
    BY <1>4
  <2>2. CASE redirection'[m] = redirection[m]
    BY <1>13, <2>1, <2>2 DEF WiredInv
  <2>3. CASE m = l /\ registering.route /\ redirection'[m] = v
    BY <1>2, <1>13, <1>14, <2>1, <2>3 DEF Clean
  <2> QED
    BY <1>6, <2>2, <2>3
<1>16. ASSUME Clean', registering.route PROVE Outstanding(v, 1) = {}
  <2> SUFFICES ASSUME Outstanding(v, 1) # {} PROVE FALSE
    OBVIOUS
  <2>1. (\E m \in Lines : redirection[m] = v) \/ (\E e \in Drivers : message[e] = v)
    BY <1>1, <1>13, <1>16 DEF RequestInv
  <2>2. ASSUME NEW m \in Lines, redirection[m] = v PROVE FALSE
    <3>1. I!Wire(d) = m
      BY <1>1, <1>2, <1>13, <1>16, <2>2 DEF WiredInv
    <3>2. redirection[I!Wire(d)] = NoVector
      BY <1>2, <1>13, <1>16 DEF Clean
    <3> QED
      BY <1>1, <2>2, <3>1, <3>2, VectorLevels
  <2>3. ASSUME NEW e \in Drivers, message[e] = v PROVE FALSE
    <3>1. result[e] = "ok" /\ ~I!UsesIoApic(e)
      BY <1>1, <2>3, VectorLevels DEF IoInv, RouteInv
    <3>2. Registered(e, v)
      BY <1>13, <1>16, <2>3, <3>1 DEF IoInv, RouteInv, Clean, I!Sent
    <3> QED
      BY <1>14, <1>16, <3>1, <3>2
  <2> QED
    BY <2>1, <2>2, <2>3
<1>17. Clean' => RequestInv'
  <2> SUFFICES ASSUME Clean', NEW w \in I!Vectors
               PROVE  /\ Outstanding(w, 1)' # {} =>
                             (\E m \in Lines : redirection'[m] = w) \/ (\E e \in Drivers : message'[e] = w)
                      /\ KernelVector(w) => Outstanding(w, 2)' = {}
                      /\ ~KernelVector(w) => \A k \in Nat \ {0} :
                             Cardinality(Outstanding(w, k)') <= Cardinality(Claimants(w, k)')
                      /\ \A m \in Lines : redirection'[m] = w /\ LevelTriggered(m)' =>
                             /\ Outstanding(w, 1)' # {} => m \in remoteIrr'
                             /\ \A x, y \in Outstanding(w, 1)' : x = y
    BY DEF RequestInv, KernelVector
  <2>1. \A k : Outstanding(w, k)' = Outstanding(w, k) /\ Claimants(w, k)' = Claimants(w, k)
    BY <1>3 DEF Outstanding, Claimants
  <2>2. Outstanding(w, 1) # {} =>
          (\E m \in Lines : redirection'[m] = w) \/ (\E e \in Drivers : message'[e] = w)
    <3>1. \A m \in Lines : redirection[m] = w => redirection'[m] = w
      BY <1>6, VectorLevels
    <3>2. \A e \in Drivers : message[e] = w => message'[e] = w
      BY <1>7, <1>8, VectorLevels
    <3> QED
      BY <1>13, <3>1, <3>2 DEF RequestInv
  <2>3. ASSUME NEW m \in Lines, redirection'[m] = w, LevelTriggered(m)'
        PROVE  /\ Outstanding(w, 1) # {} => m \in remoteIrr
               /\ \A x, y \in Outstanding(w, 1) : x = y
    <3>1. CASE redirection'[m] = redirection[m]
      <4>1. LevelTriggered(m)
        BY <1>4, <2>3, <3>1 DEF LevelTriggered
      <4> QED
        BY <1>13, <2>3, <3>1, <4>1 DEF RequestInv
    <3>2. CASE registering.route /\ redirection'[m] = v
      BY <1>16, <2>3, <3>2
    <3> QED
      BY <1>6, <3>1, <3>2
  <2> QED
    BY <1>3, <1>13, <2>1, <2>2, <2>3 DEF RequestInv
<1> QED
  BY <1>3, <1>5, <1>9, <1>10, <1>12, <1>13, <1>15, <1>17 DEF IoInv

\* IomuInitSystemAfterApWakeup: lines are unmasked when the kernel's are all set up.
LEMMA WakeupKeeps ==
    ASSUME IoInv, I!AfterApWakeup PROVE IoInv'
<1>1. /\ UNCHANGED <<InterruptBitmap, m_isrRoutines, RegisteredInterrupts, redirection, message, registering,
                     result, squeezed, astray, asserted, ioIrr, remoteIrr, ioIsr, unhandled>>
      /\ \A d \in Drivers : Asked[d].kernel => result[d] = "ok"
  BY DEF I!AfterApWakeup, I!routeVars, I!deviceVars
<1>2. IoTypes'
  BY <1>1 DEF IoInv, IoTypes
<1>3. \A e, v : (Registered(e, v)' <=> Registered(e, v)) /\ (I!Sent(e)' = I!Sent(e))
  BY <1>1 DEF Registered, Among, I!Sent
<1>4. EntryInv'
  BY <1>1, <1>3 DEF IoInv, EntryInv
<1>5. RegisteringInv'
  BY <1>1, <1>3 DEF IoInv, RegisteringInv
<1>6. RouteInv'
  BY <1>1, <1>3 DEF IoInv, RouteInv
<1>7. Clean' => (WiredInv /\ RequestInv /\ ~unhandled)'
  BY <1>1, SameRequests DEF Clean, IoInv
<1> QED
  BY <1>2, <1>4, <1>5, <1>6, <1>7 DEF IoInv

\* Devices and CPUs change no route.
LEMMA RoutesStay ==
    ASSUME IoInv, UNCHANGED I!routeVars, MaskInterrupts' = MaskInterrupts,
           asserted' \subseteq {d \in Drivers : result[d] = "ok"}
    PROVE  /\ UNCHANGED <<InterruptBitmap, m_isrRoutines, RegisteredInterrupts, redirection, message, registering,
                          result, squeezed, astray>>
           /\ EntryInv' /\ RegisteringInv' /\ RouteInv'
           /\ Clean' => Clean /\ WiredInv' /\ WiredInv /\ RequestInv /\ ~unhandled
           /\ \A l : LevelTriggered(l)' <=> LevelTriggered(l)
<1>1. /\ UNCHANGED <<InterruptBitmap, m_isrRoutines, RegisteredInterrupts, redirection, message, registering,
                     result, squeezed, astray>>
  BY DEF I!routeVars
<1>2. \A e, v : (Registered(e, v)' <=> Registered(e, v)) /\ (I!Sent(e)' = I!Sent(e))
  BY <1>1 DEF Registered, Among, I!Sent
<1>3. EntryInv'
  BY <1>1, <1>2 DEF IoInv, EntryInv
<1>4. RegisteringInv'
  BY <1>1, <1>2 DEF IoInv, RegisteringInv
<1>5. RouteInv'
  BY <1>1, <1>2 DEF IoInv, RouteInv
<1>6. Clean' => Clean /\ WiredInv' /\ WiredInv /\ RequestInv /\ ~unhandled
  BY <1>1, <1>2 DEF IoInv, Clean, WiredInv
<1>7. \A l : LevelTriggered(l)' <=> LevelTriggered(l)
  BY <1>1, <1>2 DEF LevelTriggered
<1> QED
  BY <1>1, <1>3, <1>4, <1>5, <1>6, <1>7

\* What a successful registration means as long as the state is clean.
LEMMA CleanRoute ==
    ASSUME IoInv, Clean, NEW d \in Drivers, result[d] = "ok"
    PROVE  Registered(d, I!Sent(d)) /\ I!Sent(d) \in I!Vectors /\ (I!UsesIoApic(d) => I!Wire(d) \in Lines)
BY DEF IoInv, RouteInv, Clean, Registered

\* A request for a vector means that it has a list, and so a routine.
LEMMA RequestsHaveLists ==
    ASSUME IoInv, Clean, NEW v \in I!Vectors, Outstanding(v, 1) # {}
    PROVE  RegisteredInterrupts[v] # <<>> /\ v \in m_isrRoutines
<1>1. (\E l \in Lines : redirection[l] = v) \/ (\E d \in Drivers : message[d] = v)
  BY DEF IoInv, RequestInv
<1>2. RegisteredInterrupts[v] # <<>>
  <2>1. ASSUME NEW d \in Drivers, message[d] = v PROVE RegisteredInterrupts[v] # <<>>
    <3>1. result[d] = "ok" /\ I!Sent(d) = v
      BY <2>1, VectorLevels DEF IoInv, RouteInv, I!Sent
    <3> QED
      BY <3>1, CleanRoute DEF Registered, Among
  <2>2. ASSUME NEW l \in Lines, redirection[l] = v PROVE RegisteredInterrupts[v] # <<>>
    BY <2>2, VectorLevels DEF IoInv, EntryInv
  <2> QED
    BY <1>1, <2>1, <2>2
<1> QED
  BY <1>2 DEF IoInv, EntryInv

\* A new request is at the start of its list.
LEMMA NewRequest ==
    ASSUME IoInv, NEW c \in CPUs, NEW v \in I!Vectors, ioIsr' = ioIsr,
           ioIrr' = [ioIrr EXCEPT ![c] = ioIrr[c] \union {v}]
    PROVE  /\ ioIrr' \in [CPUs -> SUBSET I!Vectors]
           /\ Outstanding(v, 1)' = Outstanding(v, 1) \union {<<c, 0>>}
           /\ \A w \in I!Vectors, k \in Nat \ {0} : w # v \/ k # 1 => Outstanding(w, k)' = Outstanding(w, k)
<1>1. ioIrr \in [CPUs -> SUBSET I!Vectors]
  BY DEF IoInv, IoTypes
<1>2. \A b \in CPUs, w \in I!Vectors : w \in ioIrr'[b] <=> w \in ioIrr[b] \/ (b = c /\ w = v)
  BY <1>1
<1>3. Outstanding(v, 1)' = Outstanding(v, 1) \union {<<c, 0>>}
  <2>1. ASSUME NEW x \in CPUs \X {0, 1}
        PROVE  x \in Outstanding(v, 1)' <=> x \in Outstanding(v, 1) \/ x = <<c, 0>>
    BY <1>2 DEF Outstanding
  <2>2. Outstanding(v, 1) \subseteq CPUs \X {0, 1} /\ Outstanding(v, 1)' \subseteq CPUs \X {0, 1}
        /\ <<c, 0>> \in CPUs \X {0, 1}
    BY DEF Outstanding
  <2> QED
    BY <2>1, <2>2
<1>4. ASSUME NEW w \in I!Vectors, NEW k \in Nat \ {0}, w # v \/ k # 1 PROVE Outstanding(w, k)' = Outstanding(w, k)
  <2>1. \A x \in CPUs \X {0, 1} : x \in Outstanding(w, k)' <=> x \in Outstanding(w, k)
    BY <1>2, <1>4 DEF Outstanding
  <2>2. Outstanding(w, k) \subseteq CPUs \X {0, 1} /\ Outstanding(w, k)' \subseteq CPUs \X {0, 1}
    BY DEF Outstanding
  <2> QED
    BY <2>1, <2>2
<1> QED
  BY <1>1, <1>3, <1>4

\* Edge-triggered: a driver that wants service and a request for it.
LEMMA EdgeKeeps ==
    ASSUME IoInv, NEW d \in Drivers, I!Edge(d) PROVE IoInv'
<1> DEFINE s == IF I!UsesIoApic(d)
                THEN (IF MaskInterrupts \/ I!Wire(d) \notin Lines THEN NoVector ELSE redirection[I!Wire(d)])
                ELSE message[d]
<1>1. /\ d \notin asserted /\ Asked[d].type # "pci" /\ s # NoVector
      /\ Asked[d].kernel \/ result[d] = "ok" \/ ~I!UsesIoApic(d)
      /\ asserted' = IF Asked[d].kernel THEN asserted ELSE asserted \union {d}
      /\ UNCHANGED I!routeVars /\ MaskInterrupts' = MaskInterrupts
      /\ UNCHANGED <<remoteIrr, ioIsr, unhandled>>
      /\ I!Request(s)
  BY DEF I!Edge
<1>a. PICK v \in I!Vectors : v = s /\ result[d] = "ok" /\ v = I!Sent(d)
  BY <1>1 DEF IoInv, IoTypes, RouteInv, I!Sent
<1>2. v \in I!Vectors /\ result[d] = "ok" /\ v = I!Sent(d)
  BY <1>a
<1> HIDE DEF s
<1>3. PICK c \in CPUs : ioIrr' = [ioIrr EXCEPT ![c] = ioIrr[c] \union {v}]
  BY <1>1, <1>a DEF I!Request
<1>4. /\ ioIrr' \in [CPUs -> SUBSET I!Vectors]
      /\ Outstanding(v, 1)' = Outstanding(v, 1) \union {<<c, 0>>}
      /\ \A w \in I!Vectors, k \in Nat \ {0} : w # v \/ k # 1 => Outstanding(w, k)' = Outstanding(w, k)
  BY <1>1, <1>2, <1>3, NewRequest
<1>5. asserted' \subseteq {e \in Drivers : result[e] = "ok"}
  BY <1>1, <1>2 DEF IoInv, RouteInv
<1>6. /\ UNCHANGED <<InterruptBitmap, m_isrRoutines, RegisteredInterrupts, redirection, message, registering,
                     result, squeezed, astray>>
      /\ EntryInv' /\ RegisteringInv' /\ RouteInv'
      /\ Clean' => Clean /\ WiredInv' /\ WiredInv /\ RequestInv /\ ~unhandled
      /\ \A l : LevelTriggered(l)' <=> LevelTriggered(l)
  BY <1>1, <1>5, RoutesStay
<1>7. IoTypes'
  BY <1>1, <1>4, <1>5, <1>6 DEF IoInv, IoTypes
<1>8. Clean' => RequestInv'
  <2> SUFFICES ASSUME Clean', NEW w \in I!Vectors
               PROVE  /\ Outstanding(w, 1)' # {} =>
                             (\E m \in Lines : redirection'[m] = w) \/ (\E e \in Drivers : message'[e] = w)
                      /\ KernelVector(w) => Outstanding(w, 2)' = {}
                      /\ ~KernelVector(w) => \A k \in Nat \ {0} :
                             Cardinality(Outstanding(w, k)') <= Cardinality(Claimants(w, k)')
                      /\ \A m \in Lines : redirection'[m] = w /\ LevelTriggered(m)' =>
                             /\ Outstanding(w, 1)' # {} => m \in remoteIrr'
                             /\ \A x, y \in Outstanding(w, 1)' : x = y
    BY DEF RequestInv, KernelVector
  <2>1. Clean /\ WiredInv /\ RequestInv /\ Registered(d, v) /\ (I!UsesIoApic(d) => I!Wire(d) \in Lines)
    BY <1>2, <1>6, CleanRoute
  <2>2. (\E m \in Lines : redirection'[m] = v) \/ (\E e \in Drivers : message'[e] = v)
    BY <1>2, <1>6, <2>1 DEF I!Sent
  <2>3. Outstanding(w, 1)' # {} =>
          (\E m \in Lines : redirection'[m] = w) \/ (\E e \in Drivers : message'[e] = w)
    <3>1. CASE w = v
      BY <2>2, <3>1
    <3>2. CASE w # v
      BY <1>4, <1>6, <2>1, <3>2 DEF RequestInv
    <3> QED
      BY <3>1, <3>2
  <2>4. ASSUME NEW m \in Lines, redirection[m] = w, LevelTriggered(m) PROVE w # v
    <3> SUFFICES ASSUME w = v PROVE FALSE
      OBVIOUS
    <3>1. PICK e \in Drivers : Asked[e].type = "pci" /\ I!Wire(e) = m /\ Registered(e, v)
      BY <2>4 DEF LevelTriggered
    <3>2. /\ I!UsesIoApic(d) /\ I!Wire(d) = m /\ I!UsesIoApic(e)
      BY <2>1, <2>4, <3>1 DEF WiredInv
    <3> QED
      BY <1>1, <1>2, <2>1, <3>1, <3>2, OneKind
  <2>5. ASSUME ~KernelVector(w), NEW k \in Nat \ {0}
        PROVE  Cardinality(Outstanding(w, k)') <= Cardinality(Claimants(w, k)')
    <3>1. Claimants(w, k) \subseteq Claimants(w, k)'
      BY <1>1, <1>6 DEF Claimants
    <3>2. /\ IsFiniteSet(Claimants(w, k)') /\ Cardinality(Claimants(w, k)') \in Nat
          /\ IsFiniteSet(Claimants(w, k)) /\ Cardinality(Claimants(w, k)) \in Nat
          /\ IsFiniteSet(Outstanding(w, k)) /\ Cardinality(Outstanding(w, k)) \in Nat
      BY <1>7, FiniteRequestsNext, FiniteRequests DEF IoInv
    <3>3. Cardinality(Outstanding(w, k)) <= Cardinality(Claimants(w, k))
      BY <2>1, <2>5 DEF RequestInv
    <3>4. CASE w # v \/ k # 1
      <4>1. Cardinality(Claimants(w, k)) <= Cardinality(Claimants(w, k)')
        BY <3>1, <3>2, FewerRequests
      <4>2. Outstanding(w, k)' = Outstanding(w, k)
        BY <1>4, <3>4
      <4> QED
        BY <3>2, <3>3, <4>1, <4>2
    <3>5. CASE w = v /\ k = 1
      <4>1. ~Asked[d].kernel
        BY <1>2, <2>1, <2>5, <3>5, OneKind
      <4>2. PICK i \in 1 .. Len(RegisteredInterrupts[v]) : RegisteredInterrupts[v][i] = d
        BY <2>1 DEF Registered, Among
      <4>3. i \in Claimants(w, k)' /\ i \notin Claimants(w, k)
        BY <1>1, <1>6, <3>5, <4>1, <4>2 DEF Claimants
      <4>4. Claimants(w, k) \union {i} \subseteq Claimants(w, k)'
        BY <3>1, <4>3
      <4>5. Cardinality(Claimants(w, k) \union {i}) = Cardinality(Claimants(w, k)) + 1
        BY <3>2, <4>3, FS_AddElement
      <4>6. Cardinality(Claimants(w, k) \union {i}) <= Cardinality(Claimants(w, k)')
        BY <3>2, <4>4, FewerRequests
      <4>7. Cardinality(Outstanding(w, k) \union {<<c, 0>>}) <= Cardinality(Outstanding(w, k)) + 1
        <5>1. CASE <<c, 0>> \in Outstanding(w, k)
          <6>1. Outstanding(w, k) \union {<<c, 0>>} = Outstanding(w, k)
            BY <5>1
          <6>2. Cardinality(Outstanding(w, k) \union {<<c, 0>>}) = Cardinality(Outstanding(w, k))
            BY <6>1, Zenon
          <6> QED
            BY <3>2, <6>2
        <5>2. CASE <<c, 0>> \notin Outstanding(w, k)
          <6>1. Cardinality(Outstanding(w, k) \union {<<c, 0>>}) = Cardinality(Outstanding(w, k)) + 1
            BY <3>2, <5>2, FS_AddElement
          <6> QED
            BY <3>2, <6>1
        <5> QED
          BY <5>1, <5>2
      <4>8. Outstanding(w, k)' = Outstanding(w, k) \union {<<c, 0>>}
        BY <1>4, <3>5
      <4>9. Cardinality(Outstanding(w, k)') \in Nat
        BY <1>7, FiniteRequestsNext
      <4> QED
        BY <3>2, <3>3, <4>5, <4>6, <4>7, <4>8, <4>9
    <3> QED
      BY <3>4, <3>5
  <2>6. KernelVector(w) => Outstanding(w, 2)' = {}
    BY <1>4, <2>1 DEF RequestInv
  <2> QED
    BY <1>1, <1>4, <1>6, <2>1, <2>3, <2>4, <2>5, <2>6 DEF RequestInv
<1> QED
  BY <1>1, <1>6, <1>7, <1>8 DEF IoInv

\* Level-triggered: the line is asserted, the request follows.
LEMMA LevelKeeps ==
    ASSUME IoInv, NEW d \in Drivers, I!Level(d) PROVE IoInv'
<1>1. /\ result[d] = "ok" /\ asserted' = asserted \union {d}
      /\ UNCHANGED I!routeVars /\ MaskInterrupts' = MaskInterrupts
      /\ UNCHANGED <<ioIrr, remoteIrr, ioIsr, unhandled>>
  BY DEF I!Level
<1>2. asserted' \subseteq {e \in Drivers : result[e] = "ok"}
  BY <1>1 DEF IoInv, RouteInv
<1>3. /\ UNCHANGED <<InterruptBitmap, m_isrRoutines, RegisteredInterrupts, redirection, message, registering,
                     result, squeezed, astray>>
      /\ EntryInv' /\ RegisteringInv' /\ RouteInv'
      /\ Clean' => Clean /\ WiredInv' /\ WiredInv /\ RequestInv /\ ~unhandled
      /\ \A l : LevelTriggered(l)' <=> LevelTriggered(l)
  BY <1>1, <1>2, RoutesStay
<1>4. IoTypes'
  BY <1>1, <1>2, <1>3 DEF IoInv, IoTypes
<1>5. \A w, k : Outstanding(w, k)' = Outstanding(w, k)
  BY <1>1 DEF Outstanding
<1>6. ASSUME NEW w \in I!Vectors, NEW k \in Nat \ {0}, Clean', ~KernelVector(w)
      PROVE  Cardinality(Outstanding(w, k)') <= Cardinality(Claimants(w, k)')
  <2>1. Claimants(w, k) \subseteq Claimants(w, k)'
    BY <1>1, <1>3 DEF Claimants
  <2>2. /\ IsFiniteSet(Claimants(w, k)') /\ Cardinality(Claimants(w, k)') \in Nat
        /\ Cardinality(Claimants(w, k)) \in Nat /\ Cardinality(Outstanding(w, k)) \in Nat
    BY <1>4, FiniteRequestsNext, FiniteRequests DEF IoInv
  <2>3. Cardinality(Claimants(w, k)) <= Cardinality(Claimants(w, k)')
    BY <2>1, <2>2, FewerRequests
  <2>4. Cardinality(Outstanding(w, k)) <= Cardinality(Claimants(w, k))
    BY <1>3, <1>6 DEF RequestInv
  <2>5. Outstanding(w, k)' = Outstanding(w, k)
    BY <1>5
  <2> QED
    BY <2>2, <2>3, <2>4, <2>5
<1>7. Clean' => RequestInv'
  BY <1>1, <1>3, <1>5, <1>6 DEF RequestInv, KernelVector
<1> QED
  BY <1>1, <1>3, <1>4, <1>7 DEF IoInv

\* A level-triggered line that is not in service has no request, and gets one.
LEMMA DeliverKeeps ==
    ASSUME IoInv, NEW l \in Lines, I!Deliver(l) PROVE IoInv'
<1>1. /\ redirection[l] # NoVector /\ l \notin remoteIrr /\ remoteIrr' = remoteIrr \union {l}
      /\ UNCHANGED I!routeVars /\ MaskInterrupts' = MaskInterrupts
      /\ UNCHANGED <<asserted, ioIsr, unhandled>>
      /\ I!Request(redirection[l])
  BY DEF I!Deliver
<1>2. PICK v \in I!Vectors : v = redirection[l]
  BY <1>1 DEF IoInv, IoTypes
<1>3. PICK c \in CPUs : ioIrr' = [ioIrr EXCEPT ![c] = ioIrr[c] \union {v}]
  BY <1>1, <1>2 DEF I!Request
<1>4. /\ ioIrr' \in [CPUs -> SUBSET I!Vectors]
      /\ Outstanding(v, 1)' = Outstanding(v, 1) \union {<<c, 0>>}
      /\ \A w \in I!Vectors, k \in Nat \ {0} : w # v \/ k # 1 => Outstanding(w, k)' = Outstanding(w, k)
  BY <1>1, <1>3, NewRequest
<1>5. PICK d \in asserted : Asked[d].type = "pci" /\ I!Wire(d) = l
  BY DEF I!Deliver
<1>6. /\ UNCHANGED <<InterruptBitmap, m_isrRoutines, RegisteredInterrupts, redirection, message, registering,
                     result, squeezed, astray>>
      /\ EntryInv' /\ RegisteringInv' /\ RouteInv'
      /\ Clean' => Clean /\ WiredInv' /\ WiredInv /\ RequestInv /\ ~unhandled
      /\ \A m : LevelTriggered(m)' <=> LevelTriggered(m)
  <2>1. asserted' \subseteq {e \in Drivers : result[e] = "ok"}
    BY <1>1 DEF IoInv, RouteInv
  <2> QED
    BY <1>1, <2>1, RoutesStay
<1>7. IoTypes'
  BY <1>1, <1>4, <1>6 DEF IoInv, IoTypes
<1>8. Clean' => RequestInv'
  <2> SUFFICES ASSUME Clean', NEW w \in I!Vectors
               PROVE  /\ Outstanding(w, 1)' # {} =>
                             (\E m \in Lines : redirection'[m] = w) \/ (\E e \in Drivers : message'[e] = w)
                      /\ KernelVector(w) => Outstanding(w, 2)' = {}
                      /\ ~KernelVector(w) => \A k \in Nat \ {0} :
                             Cardinality(Outstanding(w, k)') <= Cardinality(Claimants(w, k)')
                      /\ \A m \in Lines : redirection'[m] = w /\ LevelTriggered(m)' =>
                             /\ Outstanding(w, 1)' # {} => m \in remoteIrr'
                             /\ \A x, y \in Outstanding(w, 1)' : x = y
    BY DEF RequestInv, KernelVector
  <2>1. Clean /\ WiredInv /\ RequestInv
    BY <1>6
  <2>2. d \in Drivers /\ result[d] = "ok" /\ I!UsesIoApic(d)
    BY <1>5 DEF IoInv, RouteInv, I!UsesIoApic
  <2>3. Registered(d, v) /\ LevelTriggered(l)
    BY <1>2, <1>5, <2>1, <2>2, CleanRoute DEF I!Sent, LevelTriggered
  <2>4. Outstanding(v, 1) = {} /\ Outstanding(v, 1)' = {<<c, 0>>}
    BY <1>1, <1>2, <1>4, <2>1, <2>3 DEF RequestInv
  <2>5. Outstanding(w, 1)' # {} =>
          (\E m \in Lines : redirection'[m] = w) \/ (\E e \in Drivers : message'[e] = w)
    <3>1. CASE w = v
      BY <1>2, <1>6, <3>1
    <3>2. CASE w # v
      BY <1>4, <1>6, <2>1, <3>2 DEF RequestInv
    <3> QED
      BY <3>1, <3>2
  <2>6. KernelVector(w) => Outstanding(w, 2)' = {}
    BY <1>4, <2>1 DEF RequestInv
  <2>7. ASSUME NEW m \in Lines, redirection[m] = w, LevelTriggered(m)
        PROVE  /\ Outstanding(w, 1)' # {} => m \in remoteIrr'
               /\ \A x, y \in Outstanding(w, 1)' : x = y
    <3>1. CASE w = v
      <4>1. m = l
        BY <1>2, <1>5, <2>1, <2>2, <2>3, <2>7, <3>1 DEF WiredInv
      <4> QED
        BY <1>1, <2>4, <3>1, <4>1
    <3>2. CASE w # v
      BY <1>1, <1>4, <2>1, <2>7, <3>2 DEF RequestInv
    <3> QED
      BY <3>1, <3>2
  <2>8. ASSUME ~KernelVector(w), NEW k \in Nat \ {0}
        PROVE  Cardinality(Outstanding(w, k)') <= Cardinality(Claimants(w, k)')
    <3>1. Claimants(w, k)' = Claimants(w, k)
      BY <1>1, <1>6 DEF Claimants
    <3>2. IsFiniteSet(Claimants(w, k)) /\ Cardinality(Claimants(w, k)) \in Nat
      BY FiniteRequests DEF IoInv
    <3>3. CASE w # v \/ k # 1
      <4>1. Outstanding(w, k)' = Outstanding(w, k)
        BY <1>4, <3>3
      <4> QED
        BY <2>1, <2>8, <3>1, <4>1 DEF RequestInv
    <3>4. CASE w = v /\ k = 1
      <4>1. PICK i \in 1 .. Len(RegisteredInterrupts[v]) : RegisteredInterrupts[v][i] = d
        BY <2>3 DEF Registered, Among
      <4>2. {i} \subseteq Claimants(w, k)
        BY <1>5, <3>4, <4>1 DEF Claimants
      <4>3. Cardinality({i}) <= Cardinality(Claimants(w, k))
        BY <3>2, <4>2, FewerRequests
      <4>4. Cardinality({i}) = 1 /\ Cardinality({<<c, 0>>}) = 1
        BY FS_Singleton
      <4>5. Cardinality(Outstanding(w, k)') = 1
        BY <2>4, <3>4, <4>4
      <4> QED
        BY <3>1, <3>2, <4>3, <4>4, <4>5
    <3> QED
      BY <3>3, <3>4
  <2> QED
    BY <1>6, <2>5, <2>6, <2>7, <2>8
<1> QED
  BY <1>1, <1>6, <1>7, <1>8 DEF IoInv

\* _IsrInterruptHandler: the request goes to the first driver of its list.
LEMMA TakeKeeps ==
    ASSUME IoInv, NEW c \in CPUs, I!TakeInterrupt(c) PROVE IoInv'
<1>1. PICK v \in ioIrr[c] :
        /\ ioIsr[c] = I!Nothing /\ ioIrr' = [ioIrr EXCEPT ![c] = ioIrr[c] \ {v}]
        /\ unhandled' = (v \notin m_isrRoutines)
        /\ ioIsr' = IF v \in m_isrRoutines THEN [ioIsr EXCEPT ![c] = [pc |-> "walk", vector |-> v, at |-> 1]] ELSE ioIsr
        /\ UNCHANGED I!routeVars /\ MaskInterrupts' = MaskInterrupts
        /\ UNCHANGED <<asserted, remoteIrr>>
  BY DEF I!TakeInterrupt
<1>2. v \in I!Vectors
  BY DEF IoInv, IoTypes
<1>3. /\ UNCHANGED <<InterruptBitmap, m_isrRoutines, RegisteredInterrupts, redirection, message, registering,
                     result, squeezed, astray>>
      /\ EntryInv' /\ RegisteringInv' /\ RouteInv'
      /\ Clean' => Clean /\ WiredInv' /\ WiredInv /\ RequestInv /\ ~unhandled
      /\ \A m : LevelTriggered(m)' <=> LevelTriggered(m)
  <2>1. asserted' \subseteq {e \in Drivers : result[e] = "ok"}
    BY <1>1 DEF IoInv, RouteInv
  <2> QED
    BY <1>1, <2>1, RoutesStay
<1>4. IoTypes'
  <2>1. [pc |-> "walk", vector |-> v, at |-> 1] \in Walk
    BY <1>2 DEF Walk
  <2>2. ioIsr' \in [CPUs -> {I!Nothing} \union Walk]
    BY <1>1, <2>1 DEF IoInv, IoTypes
  <2>3. ioIrr' \in [CPUs -> SUBSET I!Vectors]
    BY <1>1 DEF IoInv, IoTypes
  <2> QED
    BY <1>1, <1>3, <2>2, <2>3 DEF IoInv, IoTypes
<1>5. <<c, 0>> \in Outstanding(v, 1) /\ <<c, 1>> \notin Outstanding(v, 1)
  BY <1>1 DEF Outstanding, I!Nothing
<1>6. Clean' => v \in m_isrRoutines
  BY <1>2, <1>3, <1>5, RequestsHaveLists
<1>7. ASSUME Clean'
      PROVE  /\ Outstanding(v, 1)' = (Outstanding(v, 1) \ {<<c, 0>>}) \union {<<c, 1>>}
             /\ \A w \in I!Vectors, k \in Nat \ {0} : w # v \/ k # 1 => Outstanding(w, k)' = Outstanding(w, k)
  <2>1. /\ ioIsr'[c].pc = "walk" /\ ioIsr'[c].vector = v /\ ioIsr'[c].at = 1
        /\ \A b \in CPUs : b # c => ioIsr'[b] = ioIsr[b]
        /\ \A b \in CPUs, w \in I!Vectors : w \in ioIrr'[b] <=> w \in ioIrr[b] /\ (b # c \/ w # v)
    BY <1>1, <1>6, <1>7 DEF IoInv, IoTypes
  <2>2. ioIsr[c].pc # "walk"
    BY <1>1 DEF I!Nothing
  <2>3. \A x \in CPUs \X {0, 1} :
          x \in Outstanding(v, 1)' <=> (x \in Outstanding(v, 1) /\ x # <<c, 0>>) \/ x = <<c, 1>>
    BY <1>2, <2>1, <2>2 DEF Outstanding
  <2>4. ASSUME NEW w \in I!Vectors, NEW k \in Nat \ {0}, w # v \/ k # 1
        PROVE  \A x \in CPUs \X {0, 1} : x \in Outstanding(w, k)' <=> x \in Outstanding(w, k)
    BY <2>1, <2>2, <2>4 DEF Outstanding
  <2>5. \A w, k : Outstanding(w, k) \subseteq CPUs \X {0, 1} /\ Outstanding(w, k)' \subseteq CPUs \X {0, 1}
    BY DEF Outstanding
  <2>6. Outstanding(v, 1)' = (Outstanding(v, 1) \ {<<c, 0>>}) \union {<<c, 1>>}
    <3>1. <<c, 1>> \in CPUs \X {0, 1}
      OBVIOUS
    <3> QED
      BY <2>3, <2>5, <3>1
  <2>7. ASSUME NEW w \in I!Vectors, NEW k \in Nat \ {0}, w # v \/ k # 1
        PROVE  Outstanding(w, k)' = Outstanding(w, k)
    BY <2>4, <2>5, <2>7
  <2> QED
    BY <2>6, <2>7
<1>8. Clean' => RequestInv'
  <2> SUFFICES ASSUME Clean', NEW w \in I!Vectors
               PROVE  /\ Outstanding(w, 1)' # {} =>
                             (\E m \in Lines : redirection'[m] = w) \/ (\E e \in Drivers : message'[e] = w)
                      /\ KernelVector(w) => Outstanding(w, 2)' = {}
                      /\ ~KernelVector(w) => \A k \in Nat \ {0} :
                             Cardinality(Outstanding(w, k)') <= Cardinality(Claimants(w, k)')
                      /\ \A m \in Lines : redirection'[m] = w /\ LevelTriggered(m)' =>
                             /\ Outstanding(w, 1)' # {} => m \in remoteIrr'
                             /\ \A x, y \in Outstanding(w, 1)' : x = y
    BY DEF RequestInv, KernelVector
  <2>1. Clean /\ WiredInv /\ RequestInv
    BY <1>3
  <2>2. Outstanding(w, 1)' # {} => Outstanding(w, 1) # {}
    BY <1>5, <1>7
  <2>3. \A x, y \in Outstanding(w, 1)' : (\A a, b \in Outstanding(w, 1) : a = b) => x = y
    <3>1. CASE w = v
      BY <1>5, <1>7, <3>1
    <3>2. CASE w # v
      BY <1>7, <3>2
    <3> QED
      BY <3>1, <3>2
  <2>4. ASSUME ~KernelVector(w), NEW k \in Nat \ {0}
        PROVE  Cardinality(Outstanding(w, k)') <= Cardinality(Claimants(w, k)')
    <3>1. Claimants(w, k)' = Claimants(w, k)
      BY <1>1, <1>3 DEF Claimants
    <3>2. IsFiniteSet(Outstanding(w, k)) /\ Cardinality(Outstanding(w, k)) \in Nat
      BY FiniteRequests DEF IoInv
    <3>3. Cardinality(Outstanding(w, k)) <= Cardinality(Claimants(w, k))
      BY <2>1, <2>4 DEF RequestInv
    <3>4. CASE w # v \/ k # 1
      <4>1. Outstanding(w, k)' = Outstanding(w, k)
        BY <1>7, <3>4
      <4> QED
        BY <3>1, <3>3, <4>1
    <3>5. CASE w = v /\ k = 1
      <4> DEFINE W == Outstanding(w, k)
      <4>1. <<c, 0>> \in W /\ <<c, 1>> \notin W
        BY <1>5, <3>5
      <4>2. Outstanding(w, k)' = (W \ {<<c, 0>>}) \union {<<c, 1>>}
        BY <1>7, <3>5
      <4> HIDE DEF W
      <4>3. IsFiniteSet(W \ {<<c, 0>>}) /\ Cardinality(W \ {<<c, 0>>}) = Cardinality(W) - 1
        BY <3>2, <4>1, FS_RemoveElement DEF W
      <4>4. Cardinality((W \ {<<c, 0>>}) \union {<<c, 1>>}) = Cardinality(W \ {<<c, 0>>}) + 1
        BY <4>1, <4>3, FS_AddElement
      <4>5. Cardinality(Outstanding(w, k)') = Cardinality(W)
        BY <3>2, <4>2, <4>3, <4>4 DEF W
      <4> QED
        BY <3>1, <3>3, <4>5 DEF W
    <3> QED
      BY <3>4, <3>5
  <2>5. KernelVector(w) => Outstanding(w, 2)' = {}
    BY <1>7, <2>1 DEF RequestInv
  <2> QED
    BY <1>1, <1>3, <2>1, <2>2, <2>3, <2>4, <2>5 DEF RequestInv
<1> QED
  BY <1>1, <1>3, <1>4, <1>6, <1>8 DEF IoInv

\* A CPU in a list is at an entry of it or behind the last.
LEMMA AtWork ==
    ASSUME IoInv, NEW c \in CPUs, ioIsr[c].pc = "walk"
    PROVE  \E v \in I!Vectors, a \in Nat \ {0} :
              /\ ioIsr[c] = [pc |-> "walk", vector |-> v, at |-> a]
              /\ RegisteredInterrupts[v] \in Seq(Drivers)
              /\ \A k \in Nat \ {0} : <<c, 1>> \in Outstanding(v, k) <=> k <= a
<1>1. ioIsr[c] \in Walk
  BY DEF IoInv, IoTypes, I!Nothing
<1>2. PICK v \in I!Vectors, a \in Nat \ {0} : ioIsr[c] = [pc |-> "walk", vector |-> v, at |-> a]
  BY <1>1 DEF Walk
<1>3. RegisteredInterrupts[v] \in Seq(Drivers)
  BY DEF IoInv, IoTypes
<1>4. \A k \in Nat \ {0} : <<c, 1>> \in Outstanding(v, k) <=> k <= a
  BY <1>2 DEF Outstanding
<1> QED
  BY <1>2, <1>3, <1>4

\* The assert of _IsrInterruptHandler: whoever reaches the end of a list has had
\* somebody ahead of it to claim the interrupt.
LEMMA NobodyLeftOver ==
    ASSUME IoInv, NEW c \in CPUs, I!NotHandled(c) PROVE IoInv'
<1>1. /\ ioIsr[c].pc = "walk" /\ ioIsr[c].at > Len(RegisteredInterrupts[ioIsr[c].vector])
      /\ UNCHANGED I!routeVars /\ MaskInterrupts' = MaskInterrupts
      /\ UNCHANGED <<asserted, ioIrr, remoteIrr, ioIsr>>
  BY DEF I!NotHandled
<1>2. PICK v \in I!Vectors, a \in Nat \ {0} :
        /\ ioIsr[c] = [pc |-> "walk", vector |-> v, at |-> a]
        /\ RegisteredInterrupts[v] \in Seq(Drivers)
        /\ \A k \in Nat \ {0} : <<c, 1>> \in Outstanding(v, k) <=> k <= a
  BY <1>1, AtWork
<1>3. /\ UNCHANGED <<InterruptBitmap, m_isrRoutines, RegisteredInterrupts, redirection, message, registering,
                     result, squeezed, astray>>
      /\ EntryInv' /\ RegisteringInv' /\ RouteInv' /\ (Clean' => Clean)
  <2>1. asserted' \subseteq {e \in Drivers : result[e] = "ok"}
    BY <1>1 DEF IoInv, RouteInv
  <2> QED
    BY <1>1, <2>1, RoutesStay
<1>4. IoTypes'
  BY <1>1, <1>3 DEF IoInv, IoTypes
<1>5. ~Clean
  <2> SUFFICES ASSUME Clean PROVE FALSE
    OBVIOUS
  <2>1. RequestInv /\ a > Len(RegisteredInterrupts[v])
    BY <1>1, <1>2 DEF IoInv
  <2>2. CASE KernelVector(v)
    <3>1. Outstanding(v, 2) = {}
      BY <2>1, <2>2 DEF RequestInv
    <3>2. a = 1
      BY <1>2, <3>1
    <3>3. Outstanding(v, 1) # {}
      BY <1>2
    <3>4. RegisteredInterrupts[v] # <<>>
      BY <3>3, RequestsHaveLists
    <3> QED
      BY <1>2, <2>1, <3>2, <3>4
  <2>3. CASE ~KernelVector(v)
    <3>1. Cardinality(Outstanding(v, a)) <= Cardinality(Claimants(v, a))
      BY <2>1, <2>3 DEF RequestInv
    <3>2. Claimants(v, a) = {}
      BY <1>2, <2>1 DEF Claimants
    <3>3. Cardinality(Claimants(v, a)) = 0
      BY <3>2, FS_EmptySet
    <3>4. <<c, 1>> \in Outstanding(v, a)
      BY <1>2
    <3>5. Cardinality(Outstanding(v, a)) # 0 /\ Cardinality(Outstanding(v, a)) \in Nat
      BY <3>4, FiniteRequests, FS_EmptySet DEF IoInv
    <3> QED
      BY <3>1, <3>3, <3>5
  <2> QED
    BY <2>2, <2>3
<1> QED
  BY <1>3, <1>4, <1>5 DEF IoInv

\* The requests after one of them was served.
LEMMA OthersWait ==
    ASSUME IoInv, NEW c \in CPUs, NEW v \in I!Vectors, NEW a \in Nat \ {0}, ioIrr' = ioIrr,
           ioIsr[c] = [pc |-> "walk", vector |-> v, at |-> a],
           ioIsr' = [ioIsr EXCEPT ![c] = I!Nothing]
    PROVE  /\ \A w \in I!Vectors, k \in Nat \ {0} : w # v => Outstanding(w, k)' = Outstanding(w, k)
           /\ \A k \in Nat \ {0} : Outstanding(v, k)' = Outstanding(v, k) \ {<<c, 1>>}
<1>1. /\ ioIsr'[c] = I!Nothing /\ \A b \in CPUs : b # c => ioIsr'[b] = ioIsr[b]
  BY DEF IoInv, IoTypes
<1>2. \A w, k : Outstanding(w, k) \subseteq CPUs \X {0, 1} /\ Outstanding(w, k)' \subseteq CPUs \X {0, 1}
  BY DEF Outstanding
<1>3. ASSUME NEW w \in I!Vectors, NEW k \in Nat \ {0}, w # v PROVE Outstanding(w, k)' = Outstanding(w, k)
  <2>1. \A x \in CPUs \X {0, 1} : x \in Outstanding(w, k)' <=> x \in Outstanding(w, k)
    BY <1>1, <1>3 DEF Outstanding, I!Nothing
  <2> QED
    BY <1>2, <2>1
<1>4. ASSUME NEW k \in Nat \ {0} PROVE Outstanding(v, k)' = Outstanding(v, k) \ {<<c, 1>>}
  <2>1. \A x \in CPUs \X {0, 1} : x \in Outstanding(v, k)' <=> x \in Outstanding(v, k) /\ x # <<c, 1>>
    BY <1>1, <1>4 DEF Outstanding, I!Nothing
  <2> QED
    BY <1>2, <2>1
<1> QED
  BY <1>3, <1>4

\* The requests after one of them moved on in its list.
LEMMA OneMovesOn ==
    ASSUME IoInv, NEW c \in CPUs, NEW v \in I!Vectors, NEW a \in Nat \ {0}, ioIrr' = ioIrr,
           ioIsr[c] = [pc |-> "walk", vector |-> v, at |-> a],
           ioIsr' = [ioIsr EXCEPT ![c] = [pc |-> "walk", vector |-> v, at |-> a + 1]]
    PROVE  /\ \A w \in I!Vectors, k \in Nat \ {0} : w # v \/ k # a + 1 => Outstanding(w, k)' = Outstanding(w, k)
           /\ Outstanding(v, a + 1)' \subseteq Outstanding(v, a)
<1>1. /\ ioIsr'[c] = [pc |-> "walk", vector |-> v, at |-> a + 1]
      /\ \A b \in CPUs : b # c => ioIsr'[b] = ioIsr[b]
  BY DEF IoInv, IoTypes
<1>2. \A w, k : Outstanding(w, k) \subseteq CPUs \X {0, 1} /\ Outstanding(w, k)' \subseteq CPUs \X {0, 1}
  BY DEF Outstanding
<1>3. ASSUME NEW w \in I!Vectors, NEW k \in Nat \ {0}, w # v \/ k # a + 1 PROVE Outstanding(w, k)' = Outstanding(w, k)
  <2>1. \A x \in CPUs \X {0, 1} : x \in Outstanding(w, k)' <=> x \in Outstanding(w, k)
    BY <1>1, <1>3 DEF Outstanding
  <2> QED
    BY <1>2, <2>1
<1>4. Outstanding(v, a + 1)' \subseteq Outstanding(v, a)
  <2>1. \A x \in CPUs \X {0, 1} : x \in Outstanding(v, a + 1)' => x \in Outstanding(v, a)
    <3>1. \A b \in CPUs : ioIsr[b].pc = "walk" => ioIsr[b].at \in Nat
      BY DEF IoInv, IoTypes, Walk, I!Nothing
    <3> QED
      BY <1>1, <3>1 DEF Outstanding
  <2> QED
    BY <1>2, <2>1
<1> QED
  BY <1>3, <1>4

\* A routine claims the interrupt: one request and one claimant less, and a
\* level-triggered line of that vector may be delivered again.
LEMMA ClaimKeeps ==
    ASSUME IoInv, NEW c \in CPUs, NEW v \in I!Vectors, NEW a \in Nat \ {0},
           ioIsr[c] = [pc |-> "walk", vector |-> v, at |-> a],
           RegisteredInterrupts[v] \in Seq(Drivers), a <= Len(RegisteredInterrupts[v]),
           Asked[RegisteredInterrupts[v][a]].kernel \/ RegisteredInterrupts[v][a] \in asserted,
           asserted' = asserted \ {RegisteredInterrupts[v][a]},
           ioIsr' = [ioIsr EXCEPT ![c] = I!Nothing],
           remoteIrr' = {l \in remoteIrr : redirection[l] # v},
           UNCHANGED I!routeVars, UNCHANGED <<ioIrr, unhandled, MaskInterrupts>>
    PROVE  IoInv'
<1>1. PICK d \in Drivers : d = RegisteredInterrupts[v][a]
  OBVIOUS
<1>2. /\ UNCHANGED <<InterruptBitmap, m_isrRoutines, RegisteredInterrupts, redirection, message, registering,
                     result, squeezed, astray>>
      /\ EntryInv' /\ RegisteringInv' /\ RouteInv'
      /\ Clean' => Clean /\ WiredInv' /\ WiredInv /\ RequestInv /\ ~unhandled
      /\ \A m : LevelTriggered(m)' <=> LevelTriggered(m)
  <2>1. asserted' \subseteq {e \in Drivers : result[e] = "ok"}
    BY DEF IoInv, RouteInv
  <2> QED
    BY <2>1, RoutesStay
<1>3. IoTypes'
  BY <1>2 DEF IoInv, IoTypes
<1>4. /\ \A w \in I!Vectors, k \in Nat \ {0} : w # v => Outstanding(w, k)' = Outstanding(w, k)
      /\ \A k \in Nat \ {0} : Outstanding(v, k)' = Outstanding(v, k) \ {<<c, 1>>}
  BY OthersWait
<1>5. \A k \in Nat \ {0} : <<c, 1>> \in Outstanding(v, k) <=> k <= a
  BY DEF Outstanding
<1>6. Registered(d, v)
  BY <1>1 DEF Registered, Among
<1>7. \A w \in I!Vectors : \A i \in 1 .. Len(RegisteredInterrupts[w]) :
          RegisteredInterrupts[w][i] = d => w = v /\ i = a
  BY <1>1 DEF IoInv, EntryInv
<1>8. Clean' => RequestInv'
  <2> SUFFICES ASSUME Clean', NEW w \in I!Vectors
               PROVE  /\ Outstanding(w, 1)' # {} =>
                             (\E m \in Lines : redirection'[m] = w) \/ (\E e \in Drivers : message'[e] = w)
                      /\ KernelVector(w) => Outstanding(w, 2)' = {}
                      /\ ~KernelVector(w) => \A k \in Nat \ {0} :
                             Cardinality(Outstanding(w, k)') <= Cardinality(Claimants(w, k)')
                      /\ \A m \in Lines : redirection'[m] = w /\ LevelTriggered(m)' =>
                             /\ Outstanding(w, 1)' # {} => m \in remoteIrr'
                             /\ \A x, y \in Outstanding(w, 1)' : x = y
    BY DEF RequestInv, KernelVector
  <2>1. Clean /\ WiredInv /\ RequestInv
    BY <1>2
  <2>2. \A k \in Nat \ {0} : Outstanding(w, k)' \subseteq Outstanding(w, k)
    BY <1>4
  <2>3. Outstanding(w, 1)' \subseteq Outstanding(w, 1) /\ Outstanding(w, 2)' \subseteq Outstanding(w, 2)
    BY <2>2
  <2>4. ASSUME NEW m \in Lines, redirection[m] = w, LevelTriggered(m)
        PROVE  Outstanding(w, 1)' # {} => m \in remoteIrr'
    <3>1. CASE w = v
      <4>1. <<c, 1>> \in Outstanding(v, 1)
        BY <1>5
      <4>2. Outstanding(v, 1) \subseteq {<<c, 1>>}
        BY <2>1, <2>4, <3>1, <4>1 DEF RequestInv
      <4>3. Outstanding(v, 1)' = {}
        BY <1>4, <4>2
      <4> QED
        BY <3>1, <4>3
    <3>2. CASE w # v
      BY <1>4, <2>1, <2>4, <3>2 DEF RequestInv
    <3> QED
      BY <3>1, <3>2
  <2>5. ASSUME ~KernelVector(w), NEW k \in Nat \ {0}
        PROVE  Cardinality(Outstanding(w, k)') <= Cardinality(Claimants(w, k)')
    <3>1. /\ IsFiniteSet(Outstanding(w, k)) /\ Cardinality(Outstanding(w, k)) \in Nat
          /\ IsFiniteSet(Claimants(w, k)) /\ Cardinality(Claimants(w, k)) \in Nat
      BY FiniteRequests DEF IoInv
    <3>2. Cardinality(Outstanding(w, k)) <= Cardinality(Claimants(w, k))
      BY <2>1, <2>5 DEF RequestInv
    <3>3. CASE w # v \/ k > a
      <4>1. Claimants(w, k)' = Claimants(w, k)
        BY <1>1, <1>2, <1>7, <3>3 DEF Claimants
      <4>2. Outstanding(w, k)' = Outstanding(w, k)
        <5>1. CASE w # v
          BY <1>4, <5>1
        <5>2. CASE w = v
          <6>1. <<c, 1>> \notin Outstanding(v, k) /\ Outstanding(v, k)' = Outstanding(v, k) \ {<<c, 1>>}
            BY <1>4, <1>5, <3>3, <5>2
          <6> QED
            BY <5>2, <6>1
        <5> QED
          BY <5>1, <5>2
      <4> QED
        BY <3>2, <4>1, <4>2
    <3>4. CASE w = v /\ k <= a
      <4>1. ~Asked[d].kernel
        BY <1>6, <2>5, <3>4, OneKind
      <4>2. a \in Claimants(w, k)
        BY <1>1, <3>4, <4>1 DEF Claimants
      <4>3. Claimants(w, k)' = Claimants(w, k) \ {a}
        BY <1>1, <1>2, <1>7, <3>4 DEF Claimants
      <4>4. Outstanding(w, k)' = Outstanding(w, k) \ {<<c, 1>>} /\ <<c, 1>> \in Outstanding(w, k)
        BY <1>4, <1>5, <3>4
      <4>5. Cardinality(Claimants(w, k) \ {a}) = Cardinality(Claimants(w, k)) - 1
        BY <3>1, <4>2, FS_RemoveElement
      <4>6. Cardinality(Outstanding(w, k) \ {<<c, 1>>}) = Cardinality(Outstanding(w, k)) - 1
        BY <3>1, <4>4, FS_RemoveElement
      <4> QED
        BY <3>1, <3>2, <4>3, <4>4, <4>5, <4>6
    <3> QED
      BY <3>3, <3>4
  <2> QED
    BY <1>2, <2>1, <2>3, <2>4, <2>5 DEF RequestInv
<1> QED
  BY <1>2, <1>3, <1>8 DEF IoInv

\* A routine has nothing to do: the claimants are all further down the list.
LEMMA PassKeeps ==
    ASSUME IoInv, NEW c \in CPUs, NEW v \in I!Vectors, NEW a \in Nat \ {0},
           ioIsr[c] = [pc |-> "walk", vector |-> v, at |-> a],
           RegisteredInterrupts[v] \in Seq(Drivers), a <= Len(RegisteredInterrupts[v]),
           ~Asked[RegisteredInterrupts[v][a]].kernel, RegisteredInterrupts[v][a] \notin asserted,
           ioIsr' = [ioIsr EXCEPT ![c] = [pc |-> "walk", vector |-> v, at |-> a + 1]],
           UNCHANGED I!routeVars, UNCHANGED <<asserted, remoteIrr, ioIrr, unhandled, MaskInterrupts>>
    PROVE  IoInv'
<1>1. PICK d \in Drivers : d = RegisteredInterrupts[v][a]
  OBVIOUS
<1>2. /\ UNCHANGED <<InterruptBitmap, m_isrRoutines, RegisteredInterrupts, redirection, message, registering,
                     result, squeezed, astray>>
      /\ EntryInv' /\ RegisteringInv' /\ RouteInv'
      /\ Clean' => Clean /\ WiredInv' /\ WiredInv /\ RequestInv /\ ~unhandled
      /\ \A m : LevelTriggered(m)' <=> LevelTriggered(m)
  <2>1. asserted' \subseteq {e \in Drivers : result[e] = "ok"}
    BY DEF IoInv, RouteInv
  <2> QED
    BY <2>1, RoutesStay
<1>3. IoTypes'
  <2>1. [pc |-> "walk", vector |-> v, at |-> a + 1] \in Walk
    BY DEF Walk
  <2> QED
    BY <1>2, <2>1 DEF IoInv, IoTypes
<1>4. /\ \A w \in I!Vectors, k \in Nat \ {0} : w # v \/ k # a + 1 => Outstanding(w, k)' = Outstanding(w, k)
      /\ Outstanding(v, a + 1)' \subseteq Outstanding(v, a)
  BY OneMovesOn
<1>5. ~KernelVector(v)
  <2>1. Registered(d, v)
    BY <1>1 DEF Registered, Among
  <2> QED
    BY <1>1, <2>1, OneKind
<1>6. \A w, k : Claimants(w, k)' = Claimants(w, k)
  BY <1>2 DEF Claimants
<1>7. Claimants(v, a + 1) = Claimants(v, a)
  BY <1>1 DEF Claimants
<1>8. Clean' => RequestInv'
  <2> SUFFICES ASSUME Clean', NEW w \in I!Vectors
               PROVE  /\ Outstanding(w, 1)' # {} =>
                             (\E m \in Lines : redirection'[m] = w) \/ (\E e \in Drivers : message'[e] = w)
                      /\ KernelVector(w) => Outstanding(w, 2)' = {}
                      /\ ~KernelVector(w) => \A k \in Nat \ {0} :
                             Cardinality(Outstanding(w, k)') <= Cardinality(Claimants(w, k)')
                      /\ \A m \in Lines : redirection'[m] = w /\ LevelTriggered(m)' =>
                             /\ Outstanding(w, 1)' # {} => m \in remoteIrr'
                             /\ \A x, y \in Outstanding(w, 1)' : x = y
    BY DEF RequestInv, KernelVector
  <2>1. Clean /\ WiredInv /\ RequestInv
    BY <1>2
  <2>2. Outstanding(w, 1)' = Outstanding(w, 1) /\ (w # v => Outstanding(w, 2)' = Outstanding(w, 2))
    BY <1>4
  <2>3. ASSUME ~KernelVector(w), NEW k \in Nat \ {0}
        PROVE  Cardinality(Outstanding(w, k)') <= Cardinality(Claimants(w, k)')
    <3>1. CASE w # v \/ k # a + 1
      <4>1. Outstanding(w, k)' = Outstanding(w, k) /\ Claimants(w, k)' = Claimants(w, k)
        BY <1>4, <1>6, <3>1
      <4> QED
        BY <2>1, <2>3, <4>1 DEF RequestInv
    <3>2. CASE w = v /\ k = a + 1
      <4>1. Cardinality(Outstanding(v, a)) <= Cardinality(Claimants(v, a))
        BY <1>5, <2>1 DEF RequestInv
      <4>2. /\ IsFiniteSet(Outstanding(v, a)) /\ Cardinality(Outstanding(v, a)) \in Nat
            /\ Cardinality(Claimants(v, a)) \in Nat
        BY FiniteRequests DEF IoInv
      <4>3. Cardinality(Outstanding(v, a + 1)') <= Cardinality(Outstanding(v, a))
        BY <1>4, <4>2, FewerRequests
      <4>4. Cardinality(Outstanding(v, a + 1)') \in Nat
        <5>1. a + 1 \in Nat \ {0}
          OBVIOUS
        <5> QED
          BY <1>3, <5>1, FiniteRequestsNext
      <4>5. Claimants(w, k)' = Claimants(v, a)
        BY <1>6, <1>7, <3>2
      <4>6. Cardinality(Outstanding(v, a + 1)') <= Cardinality(Claimants(v, a))
        BY <4>1, <4>2, <4>3, <4>4
      <4> QED
        BY <3>2, <4>5, <4>6
    <3> QED
      BY <3>1, <3>2
  <2> QED
    BY <1>2, <1>5, <2>1, <2>2, <2>3 DEF RequestInv
<1> QED
  BY <1>2, <1>3, <1>8 DEF IoInv

\* _IomuGenericInterrupt calls a routine.
LEMMA CallKeeps ==
    ASSUME IoInv, NEW c \in CPUs, I!CallRoutine(c) PROVE IoInv'
<1>1. ioIsr[c].pc = "walk"
  BY DEF I!CallRoutine
<1>2. PICK v \in I!Vectors, a \in Nat \ {0} :
        /\ ioIsr[c] = [pc |-> "walk", vector |-> v, at |-> a]
        /\ RegisteredInterrupts[v] \in Seq(Drivers)
        /\ \A k \in Nat \ {0} : <<c, 1>> \in Outstanding(v, k) <=> k <= a
  BY <1>1, AtWork
<1>3. ioIsr[c].vector = v /\ ioIsr[c].at = a
  BY <1>2
<1> DEFINE d == RegisteredInterrupts[v][a]
<1>4. /\ a <= Len(RegisteredInterrupts[v]) /\ UNCHANGED I!routeVars
      /\ UNCHANGED <<ioIrr, unhandled, MaskInterrupts>>
      /\ \/ (Asked[d].kernel \/ d \in asserted) /\ asserted' = asserted \ {d} /\ I!Acknowledge(c, v)
         \/ /\ ~Asked[d].kernel /\ d \notin asserted
            /\ ioIsr' = [ioIsr EXCEPT ![c].at = @ + 1] /\ UNCHANGED <<asserted, remoteIrr>>
  BY <1>3 DEF I!CallRoutine
<1>5. CASE (Asked[d].kernel \/ d \in asserted) /\ asserted' = asserted \ {d} /\ I!Acknowledge(c, v)
  <2>1. ioIsr' = [ioIsr EXCEPT ![c] = I!Nothing] /\ remoteIrr' = {l \in remoteIrr : redirection[l] # v}
    BY <1>5 DEF I!Acknowledge
  <2> QED
    BY <1>2, <1>4, <1>5, <2>1, ClaimKeeps
<1>6. CASE /\ ~Asked[d].kernel /\ d \notin asserted
           /\ ioIsr' = [ioIsr EXCEPT ![c].at = @ + 1] /\ UNCHANGED <<asserted, remoteIrr>>
  <2>1. ioIsr' = [ioIsr EXCEPT ![c] = [pc |-> "walk", vector |-> v, at |-> a + 1]]
    <3>1. [ioIsr[c] EXCEPT !.at = ioIsr[c].at + 1] = [pc |-> "walk", vector |-> v, at |-> a + 1]
      BY <1>2
    <3>2. ioIsr' = [ioIsr EXCEPT ![c] = [ioIsr[c] EXCEPT !.at = ioIsr[c].at + 1]]
      BY <1>6
    <3> QED
      BY <3>1, <3>2
  <2> QED
    BY <1>2, <1>4, <1>6, <2>1, PassKeeps
<1> QED
  BY <1>4, <1>5, <1>6

\* A stuttering step.
LEMMA NothingHappens ==
    ASSUME IoInv, UNCHANGED I!ioInterruptVars PROVE IoInv'
<1>1. /\ UNCHANGED I!routeVars /\ UNCHANGED <<MaskInterrupts, asserted, ioIrr, remoteIrr, ioIsr, unhandled>>
  BY DEF I!ioInterruptVars, I!deviceVars
<1>2. /\ UNCHANGED <<InterruptBitmap, m_isrRoutines, RegisteredInterrupts, redirection, message, registering,
                     result, squeezed, astray>>
      /\ EntryInv' /\ RegisteringInv' /\ RouteInv' /\ (Clean' => Clean)
  <2>1. asserted' \subseteq {e \in Drivers : result[e] = "ok"}
    BY <1>1 DEF IoInv, RouteInv
  <2> QED
    BY <1>1, <2>1, RoutesStay
<1>3. IoTypes'
  BY <1>1, <1>2 DEF IoInv, IoTypes
<1>4. Clean' => (WiredInv /\ RequestInv /\ ~unhandled)'
  BY <1>1, <1>2, SameRequests DEF IoInv
<1> QED
  BY <1>2, <1>3, <1>4 DEF IoInv

\* InsertEntry, which may fail.
LEMMA InsertKeeps ==
    ASSUME IoInv, I!InsertEntry PROVE IoInv'
<1>1. /\ registering.pc = "insert"
      /\ m_isrRoutines' = IF RegisteredInterrupts[registering.vector] = <<>>
                          THEN I!Installed(registering.vector) ELSE m_isrRoutines
      /\ UNCHANGED <<InterruptBitmap, redirection, message, squeezed, astray, I!deviceVars, MaskInterrupts>>
      /\ \/ I!Fail(registering.driver) /\ UNCHANGED RegisteredInterrupts
         \/ /\ RegisteredInterrupts' =
                   [RegisteredInterrupts EXCEPT ![registering.vector] = Append(@, registering.driver)]
            /\ registering' = [registering EXCEPT !.pc = "program",
                                  !.route = I!NeedsRoute(registering.driver,
                                                         RegisteredInterrupts[registering.vector] = <<>>,
                                                         registering.written)]
            /\ UNCHANGED result
  BY DEF I!InsertEntry
<1>2. CASE I!Fail(registering.driver) /\ UNCHANGED RegisteredInterrupts
  BY <1>1, <1>2, InsertFails
<1>3. CASE /\ RegisteredInterrupts' =
                  [RegisteredInterrupts EXCEPT ![registering.vector] = Append(@, registering.driver)]
           /\ registering' = [registering EXCEPT !.pc = "program",
                                 !.route = I!NeedsRoute(registering.driver,
                                                        RegisteredInterrupts[registering.vector] = <<>>,
                                                        registering.written)]
           /\ UNCHANGED result
  <2>1. RegisteredInterrupts' = [RegisteredInterrupts EXCEPT ![registering.vector] =
                                    Append(RegisteredInterrupts[registering.vector], registering.driver)]
    BY <1>3
  <2> QED
    BY <1>1, <1>3, <2>1, InsertWorks
<1> QED
  BY <1>1, <1>2, <1>3

\* The inductive invariant of device interrupts: drivers are on the lists their
\* devices lead to, and no list has more requests under way than claimants.
THEOREM DevicesInvariant == I!IoInterruptsSpec => []IoInv
<1>1. IoInv /\ [I!IoInterruptsNext]_(I!ioInterruptVars) => IoInv'
  <2> SUFFICES ASSUME IoInv, [I!IoInterruptsNext]_(I!ioInterruptVars) PROVE IoInv'
    OBVIOUS
  <2>1. CASE I!IoInterruptsNext
    BY <2>1, ChooseKeeps, InsertKeeps, ProgramKeeps, WakeupKeeps, EdgeKeeps, LevelKeeps, DeliverKeeps, TakeKeeps,
       CallKeeps, NobodyLeftOver DEF I!IoInterruptsNext
  <2>2. CASE UNCHANGED I!ioInterruptVars
    BY <2>2, NothingHappens
  <2> QED
    BY <2>1, <2>2
<1> QED
  BY <1>1, DevicesStart, PTL DEF I!IoInterruptsSpec

\* IomuRegisterInterrupt and _IsrInterruptHandler: a device whose driver has
\* registered reaches its routine, and every interrupt is claimed, for any CPUs,
\* drivers, lines, vectors and tables of overrides.
THEOREM DevicesAreServed == I!IoInterruptsSpec => []InterruptsReachTheirRoutine
<1>1. ASSUME IoInv PROVE InterruptsReachTheirRoutine
  <2>1. ASSUME NEW d \in Drivers \ (squeezed \union astray), result[d] = "ok"
        PROVE  \E v \in m_isrRoutines \intersect {I!Sent(d)} : \E i \in DOMAIN RegisteredInterrupts[v] :
                  /\ RegisteredInterrupts[v][i] = d
                  /\ \A j \in 1 .. i - 1 : ~Asked[RegisteredInterrupts[v][j]].kernel
    <3>1. PICK v \in I!Vectors : v = I!Sent(d) /\ Registered(d, v) /\ RegisteredInterrupts[v] \in Seq(Drivers)
      BY <1>1, <2>1 DEF IoInv, RouteInv, Registered, IoTypes
    <3>2. PICK i \in 1 .. Len(RegisteredInterrupts[v]) : RegisteredInterrupts[v][i] = d
      BY <3>1 DEF Registered, Among
    <3>3. v \in m_isrRoutines
      BY <1>1, <3>1, <3>2 DEF IoInv, EntryInv
    <3>4. ASSUME NEW j \in 1 .. i - 1 PROVE ~Asked[RegisteredInterrupts[v][j]].kernel
      <4>1. PICK e \in Drivers : e = RegisteredInterrupts[v][j] /\ Registered(e, v)
        BY <3>1, <3>2 DEF Registered, Among
      <4>2. j < i /\ j \in 1 .. Len(RegisteredInterrupts[v])
        BY <3>1, <3>2
      <4>3. ~Asked[e].kernel \/ Asked[d].kernel
        BY <1>1, <3>1, <4>1, OneKind
      <4>4. Asked[d].kernel => i = 1
        BY <1>1, <3>1, <3>2 DEF IoInv, EntryInv
      <4> QED
        BY <4>1, <4>2, <4>3, <4>4
    <3> QED
      BY <3>1, <3>2, <3>3, <3>4
  <2>2. unhandled => squeezed \union astray # {}
    BY <1>1 DEF IoInv, Clean
  <2> QED
    BY <2>1, <2>2 DEF InterruptsReachTheirRoutine, I!InterruptsReachTheirRoutine
<1> QED
  BY <1>1, DevicesInvariant, PTL

-----------------------------------------------------------------------------
(* The network card.  An offset says how far a descriptor is from where    *)
(* the ring begins, so the state of every descriptor follows from its      *)
(* offset, and no step has to move more than one of them.                  *)

\* The specification of Network without its fairness, which no proof here uses.
CardSteps == N!NetworkInit /\ [][N!NetworkNext]_(N!networkVars)

\* How far descriptor j is behind descriptor i of a ring of n.
Offset(i, j, n) == IF i <= j THEN j - i ELSE j - i + n

\* The descriptor k places behind i of a ring of n.
Shift(i, k, n) == IF i + k < n THEN i + k ELSE i + k - n

WorkerPcs == {"test", "link", "blocked", "take", "avail", "avail link", "avail blocked", "fill",
              "full", "clear", "tail"}
HandlerPcs == {"out", "rx", "loop", "signal", "next", "store", "tx", "link", "notify"}
Causes == {"rx", "tx", "link"}
Handlers == [pc : HandlerPcs, causes : SUBSET Causes, cur : 0 .. RxDescriptors - 1, up : BOOLEAN]

NetTypes ==
    /\ taken \in Nat /\ sent \in Nat /\ arrived \in Nat
    /\ rxList \in Seq([id : Nat, size : Nat]) /\ txList \in Seq(Nat) /\ wire \in Seq(Nat)
    /\ worker \in [pc : WorkerPcs, frame : Nat]
    /\ handler \in [CPUs -> Handlers] /\ link \in BOOLEAN
    /\ rxRing \in [0 .. RxDescriptors - 1 -> [done : BOOLEAN, frame : [id : Nat, size : Nat]]]
    /\ txRing \in [0 .. TxDescriptors - 1 -> [done : BOOLEAN, frame : Nat]]
    /\ rxCurrent \in 0 .. RxDescriptors - 1 /\ rxHead \in 0 .. RxDescriptors - 1
    /\ rxTail \in 0 .. RxDescriptors - 1
    /\ txCurrent \in 0 .. TxDescriptors - 1 /\ txHead \in 0 .. TxDescriptors - 1
    /\ txTail \in 0 .. TxDescriptors - 1
    /\ cause \subseteq Causes \union {"overrun"}

\* The descriptors that are done begin where frames are read; the card goes on
\* behind them, and is kept off the descriptor before that one.
RxDone == N!InRxRing + N!Copied
RxInv ==
    /\ RxDone \in 0 .. RxDescriptors - 1 /\ N!InRxRing \in Nat
    /\ N!ReadIndex \in 0 .. RxDescriptors - 1
    /\ rxHead = Shift(N!ReadIndex, RxDone, RxDescriptors)
    /\ rxTail = Shift(N!ReadIndex, RxDescriptors - 1, RxDescriptors)
    /\ \A k \in 1 .. Len(rxList) : rxList[k].id = taken + k
    /\ \A j \in 0 .. RxDescriptors - 1 :
          LET k == Offset(N!ReadIndex, j, RxDescriptors)
          IN  /\ rxRing[j].done <=> k < RxDone
              /\ rxRing[j].done => rxRing[j].frame.id = taken + Len(rxList) - N!Copied + k + 1

\* The descriptors that are not done begin at the head of the card and end
\* before the transmit thread's next one.  The tail lags behind by one while the
\* thread has filled a descriptor and not handed it over.
TxUntold == IF worker.pc \in {"full", "clear", "tail"} THEN 1 ELSE 0
TxInv ==
    /\ N!InTxRing \in TxUntold .. TxDescriptors
    /\ txCurrent = Shift(txHead, N!InTxRing, TxDescriptors)
    /\ txTail = Shift(txHead, N!InTxRing - TxUntold, TxDescriptors)
    /\ \A k \in 1 .. Len(wire) : wire[k] = k
    /\ \A j \in 0 .. TxDescriptors - 1 :
          LET k == Offset(txHead, j, TxDescriptors)
          IN  /\ ~txRing[j].done <=> k < N!InTxRing
              /\ ~txRing[j].done => txRing[j].frame = Len(wire) + k + 1
    /\ N!Held = 1 => worker.frame = sent - Len(txList)
    /\ \A k \in 1 .. Len(txList) : txList[k] = sent - Len(txList) + k

\* Received frames are in order as long as no two CPUs were in EthReceiveFrame.
Unrivalled == ~competed => N!NoCompetingThread /\ RxInv

NetInv == NetTypes /\ (~cardHalted => Unrivalled /\ TxInv)

LEMMA CardHasDescriptors ==
    /\ RxDescriptors \in Nat /\ RxDescriptors > 1 /\ TxDescriptors \in Nat /\ TxDescriptors > 1
    /\ FrameSizes \subseteq Nat
BY InterruptsAssumption DEF N!NetworkAssumption

\* Indexes of a ring of n: at most once round.
LEMMA OnceRound ==
    ASSUME NEW n \in Nat \ {0}, NEW x \in Nat, x < n + n
    PROVE  x % n = IF x < n THEN x ELSE x - n
<1>1. x % n \in 0 .. n - 1 /\ x \div n \in Int /\ x = n * (x \div n) + (x % n)
  OBVIOUS
<1>2. PICK q \in Int, r \in 0 .. n - 1 : q = x \div n /\ r = x % n /\ x = n * q + r
  BY <1>1
<1>3. q < 0 => n * q <= -n
  BY <1>2
<1>4. q > 1 => n * q >= n + n
  BY <1>2
<1>5. q = 0 \/ q = 1
  BY <1>2, <1>3, <1>4
<1>6. q = 0 => n * q = 0
  OBVIOUS
<1>7. q = 1 => n * q = n
  OBVIOUS
<1> QED
  BY <1>2, <1>5, <1>6, <1>7

\* Shift and the modulo of the code.
LEMMA ShiftIsModulo ==
    ASSUME NEW n \in Nat \ {0}, NEW i \in 0 .. n - 1, NEW k \in 0 .. n
    PROVE  (i + k) % n = Shift(i, k, n)
<1>1. PICK x \in Nat : x = i + k /\ x < n + n
  OBVIOUS
<1>2. x % n = IF x < n THEN x ELSE x - n
  BY <1>1, OnceRound
<1> QED
  BY <1>1, <1>2 DEF Shift

LEMMA NextDescriptors ==
    /\ \A i \in 0 .. RxDescriptors - 1 : N!RxNext(i) = Shift(i, 1, RxDescriptors)
    /\ \A i \in 0 .. TxDescriptors - 1 : N!TxNext(i) = Shift(i, 1, TxDescriptors)
BY CardHasDescriptors, ShiftIsModulo DEF N!RxNext, N!TxNext

\* Where a ring begins is at offset 0, and an offset is where Shift leads.
LEMMA OffsetOfShift ==
    ASSUME NEW n \in Nat \ {0}, NEW i \in 0 .. n - 1, NEW k \in 0 .. n - 1
    PROVE  Shift(i, k, n) \in 0 .. n - 1 /\ Offset(i, Shift(i, k, n), n) = k
BY DEF Shift, Offset

\* Descriptors are found at their offsets only.
LEMMA ShiftOfOffset ==
    ASSUME NEW n \in Nat \ {0}, NEW i \in 0 .. n - 1, NEW j \in 0 .. n - 1
    PROVE  /\ Offset(i, j, n) \in 0 .. n - 1 /\ Shift(i, Offset(i, j, n), n) = j
           /\ Offset(i, j, n) = 0 <=> j = i
BY DEF Shift, Offset

\* When the ring begins one descriptor later.
LEMMA OffsetMoves ==
    ASSUME NEW n \in Nat \ {0}, NEW i \in 0 .. n - 1, NEW j \in 0 .. n - 1
    PROVE  Offset(Shift(i, 1, n), j, n) = IF j = i THEN n - 1 ELSE Offset(i, j, n) - 1
BY DEF Shift, Offset

LEMMA ShiftMoves ==
    ASSUME NEW n \in Nat \ {0}, NEW i \in 0 .. n - 1
    PROVE  /\ \A k \in 1 .. n : Shift(Shift(i, 1, n), k - 1, n) = Shift(i, k, n)
           /\ \A k \in 0 .. n - 1 : Shift(Shift(i, k, n), 1, n) = Shift(i, k + 1, n)
           /\ Shift(Shift(i, 1, n), n - 1, n) = i
BY DEF Shift

\* Where frames are read from, when one CPU is in EthReceiveFrame and when none is,
\* before and after a step.
LEMMA NoReader ==
    ASSUME \A c \in CPUs : ~N!InReceive(c)
    PROVE  N!ReadIndex = rxCurrent /\ N!Copied = 0
<1>1. N!Receivers = {}
  BY DEF N!Receivers
<1>2. \A c \in CPUs : handler[c].pc \notin {"signal", "next"}
  BY DEF N!InReceive
<1> QED
  BY <1>1, <1>2 DEF N!ReadIndex, N!Copied

LEMMA NoReaderNext ==
    ASSUME \A c \in CPUs : ~N!InReceive(c)'
    PROVE  N!ReadIndex' = rxCurrent' /\ N!Copied' = 0
<1>1. N!Receivers' = {}
  BY DEF N!Receivers
<1>2. \A c \in CPUs : handler'[c].pc \notin {"signal", "next"}
  BY DEF N!InReceive
<1> QED
  BY <1>1, <1>2 DEF N!ReadIndex, N!Copied

LEMMA TheReader ==
    ASSUME N!NoCompetingThread, NEW c \in CPUs, N!InReceive(c)
    PROVE  /\ N!ReadIndex = handler[c].cur
           /\ N!Copied = IF handler[c].pc \in {"signal", "next"} THEN 1 ELSE 0
<1>1. N!Receivers = {c}
  BY DEF N!Receivers, N!NoCompetingThread
<1>2. (CHOOSE d \in N!Receivers : TRUE) = c
  BY <1>1
<1>3. \A d \in CPUs : handler[d].pc \in {"signal", "next"} => d = c
  BY DEF N!NoCompetingThread, N!InReceive
<1> QED
  BY <1>1, <1>2, <1>3 DEF N!ReadIndex, N!Copied

LEMMA TheReaderNext ==
    ASSUME N!NoCompetingThread', NEW c \in CPUs, N!InReceive(c)'
    PROVE  /\ N!ReadIndex' = handler'[c].cur
           /\ N!Copied' = IF handler'[c].pc \in {"signal", "next"} THEN 1 ELSE 0
<1>1. N!Receivers' = {c}
  BY DEF N!Receivers, N!NoCompetingThread
<1>2. (CHOOSE d \in N!Receivers' : TRUE) = c
  BY <1>1
<1>3. \A d \in CPUs : handler'[d].pc \in {"signal", "next"} => d = c
  BY DEF N!NoCompetingThread, N!InReceive
<1> QED
  BY <1>1, <1>2, <1>3 DEF N!ReadIndex, N!Copied

\* A handler takes a step that copies and gives back nothing: it enters or leaves
\* EthReceiveFrame alone, or stays in or out of it.  Frames are read where they were.
LEMMA HandlerMoves ==
    ASSUME N!NoCompetingThread, NEW c \in CPUs, \A d \in CPUs \ {c} : handler'[d] = handler[d],
           handler'[c].pc \in {"signal", "next"} <=> handler[c].pc \in {"signal", "next"},
           \/ ~N!InReceive(c) /\ ~N!InReceive(c)' /\ rxCurrent' = rxCurrent
           \/ N!InReceive(c) /\ N!InReceive(c)' /\ handler'[c].cur = handler[c].cur
           \/ /\ ~N!InReceive(c) /\ N!InReceive(c)' /\ handler'[c].cur = rxCurrent
              /\ \A d \in CPUs \ {c} : ~N!InReceive(d)
           \/ N!InReceive(c) /\ ~N!InReceive(c)' /\ rxCurrent' = handler[c].cur
    PROVE  N!NoCompetingThread' /\ N!ReadIndex' = N!ReadIndex /\ N!Copied' = N!Copied
<1>1. \A d \in CPUs \ {c} : N!InReceive(d)' <=> N!InReceive(d)
  BY DEF N!InReceive
<1>2. N!NoCompetingThread'
  BY <1>1 DEF N!NoCompetingThread
<1>3. CASE \E d \in CPUs \ {c} : N!InReceive(d)
  <2>1. PICK d \in CPUs \ {c} : N!InReceive(d)
    BY <1>3
  <2>2. N!InReceive(d)' /\ handler'[d] = handler[d]
    BY <1>1, <2>1
  <2> QED
    BY <1>2, <2>1, <2>2, TheReader, TheReaderNext
<1>4. CASE \A d \in CPUs \ {c} : ~N!InReceive(d)
  <2>1. \A d \in CPUs \ {c} : ~N!InReceive(d)'
    BY <1>1, <1>4
  <2>2. CASE ~N!InReceive(c) /\ ~N!InReceive(c)' /\ rxCurrent' = rxCurrent
    BY <1>2, <1>4, <2>1, <2>2, NoReader, NoReaderNext
  <2>3. CASE N!InReceive(c) /\ N!InReceive(c)' /\ handler'[c].cur = handler[c].cur
    BY <1>2, <2>3, TheReader, TheReaderNext
  <2>4. CASE ~N!InReceive(c) /\ N!InReceive(c)' /\ handler'[c].cur = rxCurrent
    <3>1. N!ReadIndex = rxCurrent /\ N!Copied = 0
      BY <1>4, <2>4, NoReader
    <3>2. handler[c].pc \notin {"signal", "next"}
      BY <2>4 DEF N!InReceive
    <3> QED
      BY <1>2, <2>4, <3>1, <3>2, TheReaderNext
  <2>5. CASE N!InReceive(c) /\ ~N!InReceive(c)' /\ rxCurrent' = handler[c].cur
    <3>1. N!ReadIndex' = rxCurrent' /\ N!Copied' = 0
      BY <2>1, <2>5, NoReaderNext
    <3>2. handler'[c].pc \notin {"signal", "next"}
      BY <2>5 DEF N!InReceive
    <3> QED
      BY <1>2, <2>5, <3>1, <3>2, TheReader
  <2> QED
    BY <2>2, <2>3, <2>4, <2>5
<1> QED
  BY <1>3, <1>4

\* The invariant implies the property: the code's index arithmetic is Shift's.
LEMMA NetInvOrders ==
    ASSUME NetInv PROVE FramesKeepTheirOrder
<1> SUFFICES ASSUME ~cardHalted PROVE (~competed => N!ReceivedInOrder) /\ N!SentInOrder
  BY DEF FramesKeepTheirOrder, N!FramesKeepTheirOrder
<1>1. NetTypes /\ TxInv /\ (~competed => RxInv)
  BY DEF NetInv, Unrivalled
<1>2. ASSUME ~competed PROVE N!ReceivedInOrder
  <2>1. N!Copied \in {0, 1} /\ N!InRxRing \in Nat /\ N!InRxRing + N!Copied <= RxDescriptors - 1
    BY <1>1, <1>2, CardHasDescriptors DEF N!Copied, RxInv, RxDone
  <2>2. ASSUME NEW k \in 0 .. RxDescriptors - N!Copied - 1
        PROVE  LET d == N!RxAt(N!ReadIndex, N!Copied + k)
               IN  /\ d.done <=> k < N!InRxRing
                   /\ d.done => d.frame.id = taken + Len(rxList) + k + 1
    <3>1. PICK c \in {0, 1} : c = N!Copied
      BY <2>1
    <3>2. PICK j \in 0 .. RxDescriptors - 1 :
            j = (N!ReadIndex + (c + k)) % RxDescriptors /\ Offset(N!ReadIndex, j, RxDescriptors) = c + k
      <4>1. PICK m \in 0 .. RxDescriptors - 1 : m = c + k
        BY <2>1, <3>1, CardHasDescriptors
      <4>2. RxDescriptors \in Nat \ {0} /\ N!ReadIndex \in 0 .. RxDescriptors - 1
        BY <1>1, <1>2, CardHasDescriptors DEF RxInv
      <4>3. /\ Shift(N!ReadIndex, m, RxDescriptors) \in 0 .. RxDescriptors - 1
            /\ Offset(N!ReadIndex, Shift(N!ReadIndex, m, RxDescriptors), RxDescriptors) = m
        BY <4>2, OffsetOfShift
      <4>4. m \in 0 .. RxDescriptors
        BY <4>2
      <4>5. (N!ReadIndex + m) % RxDescriptors = Shift(N!ReadIndex, m, RxDescriptors)
        BY <4>2, <4>4, ShiftIsModulo
      <4> QED
        BY <4>1, <4>3, <4>5
    <3>3. /\ rxRing[j].done <=> c + k < RxDone
          /\ rxRing[j].done => rxRing[j].frame.id = taken + Len(rxList) - N!Copied + (c + k) + 1
      BY <1>1, <1>2, <3>2 DEF RxInv
    <3>4. N!RxAt(N!ReadIndex, N!Copied + k) = rxRing[j]
      BY <3>1, <3>2 DEF N!RxAt
    <3>5. Len(rxList) \in Nat /\ taken \in Nat
      BY <1>1, <1>2 DEF NetTypes
    <3> QED
      BY <2>1, <3>1, <3>3, <3>4, <3>5 DEF RxDone
  <2> QED
    BY <1>1, <1>2, <2>1, <2>2, CardHasDescriptors DEF N!ReceivedInOrder, RxInv
<1>3. N!SentInOrder
  <2>1. N!InTxRing \in 0 .. TxDescriptors
    BY <1>1, CardHasDescriptors DEF TxInv, TxUntold
  <2>2. ASSUME NEW k \in 0 .. TxDescriptors - 1
        PROVE  LET d == N!TxAt(txHead, k)
               IN  /\ ~d.done <=> k < N!InTxRing
                   /\ ~d.done => d.frame = Len(wire) + k + 1
    <3>1. TxDescriptors \in Nat \ {0} /\ txHead \in 0 .. TxDescriptors - 1
      BY <1>1, CardHasDescriptors DEF NetTypes
    <3>2. PICK j \in 0 .. TxDescriptors - 1 :
            j = (txHead + k) % TxDescriptors /\ Offset(txHead, j, TxDescriptors) = k
      <4>1. /\ Shift(txHead, k, TxDescriptors) \in 0 .. TxDescriptors - 1
            /\ Offset(txHead, Shift(txHead, k, TxDescriptors), TxDescriptors) = k
        BY <3>1, OffsetOfShift
      <4>2. k \in 0 .. TxDescriptors
        BY <3>1
      <4>3. (txHead + k) % TxDescriptors = Shift(txHead, k, TxDescriptors)
        BY <3>1, <4>2, ShiftIsModulo
      <4> QED
        BY <4>1, <4>3
    <3> QED
      BY <1>1, <3>2 DEF TxInv, N!TxAt
  <2> QED
    BY <1>1, <2>1, <2>2 DEF N!SentInOrder, TxInv
<1> QED
  BY <1>2, <1>3

\* The card at start.
LEMMA NetStarts ==
    ASSUME N!NetworkInit PROVE NetInv
<1>1. NetTypes
  <2>1. handler \in [CPUs -> Handlers]
    BY CardHasDescriptors DEF N!NetworkInit, N!Out, Handlers, HandlerPcs
  <2> QED
    BY <2>1, CardHasDescriptors DEF N!NetworkInit, NetTypes, N!Empty, WorkerPcs
<1>2. Unrivalled
  <2>1. \A c \in CPUs : ~N!InReceive(c)
    BY DEF N!NetworkInit, N!Out, N!InReceive
  <2>2. N!NoCompetingThread /\ N!Copied = 0 /\ N!ReadIndex = 0
    BY <2>1, NoReader DEF N!NoCompetingThread, N!NetworkInit
  <2>3. RxInv
    <3>1. N!InRxRing = 0 /\ RxDone = 0
      <4>1. arrived = 0 /\ taken = 0 /\ Len(rxList) = 0
        BY DEF N!NetworkInit
      <4> QED
        BY <2>2, <4>1 DEF N!InRxRing, RxDone
    <3>2. PICK n \in Nat : n = RxDescriptors /\ n > 1
      BY CardHasDescriptors
    <3>3. rxHead = Shift(0, 0, n) /\ rxTail = Shift(0, n - 1, n)
      BY <3>2 DEF N!NetworkInit, Shift
    <3>4. \A j \in 0 .. n - 1 : ~rxRing[j].done /\ ~(Offset(0, j, n) < 0)
      BY <3>2 DEF N!NetworkInit, N!Empty, Offset
    <3>5. Len(rxList) = 0
      BY DEF N!NetworkInit
    <3> QED
      BY <2>2, <3>1, <3>2, <3>3, <3>4, <3>5 DEF RxInv
  <2> QED
    BY <2>2, <2>3 DEF Unrivalled
<1>3. TxInv
  BY CardHasDescriptors DEF N!NetworkInit, TxInv, TxUntold, N!InTxRing, N!Held, Shift, Offset
<1> QED
  BY <1>1, <1>2, <1>3 DEF NetInv

\* A list without its first element.
LEMMA Shorter ==
    ASSUME NEW S, NEW s \in Seq(S), s # <<>>
    PROVE  /\ Tail(s) \in Seq(S) /\ Len(Tail(s)) = Len(s) - 1 /\ Len(s) \in Nat /\ Len(s) >= 1
           /\ \A k \in 1 .. Len(s) - 1 : k + 1 \in 1 .. Len(s) /\ Tail(s)[k] = s[k + 1]
           /\ Head(s) = s[1] /\ Head(s) \in S
OBVIOUS

\* What the invariant says of the types, by pieces.
LEMMA NetTyped ==
    ASSUME NetTypes
    PROVE  /\ taken \in Nat /\ sent \in Nat /\ arrived \in Nat
           /\ Len(rxList) \in Nat /\ Len(txList) \in Nat /\ Len(wire) \in Nat
           /\ RxDescriptors \in Nat \ {0} /\ RxDescriptors > 1 /\ TxDescriptors \in Nat \ {0} /\ TxDescriptors > 1
           /\ rxCurrent \in 0 .. RxDescriptors - 1 /\ rxHead \in 0 .. RxDescriptors - 1
           /\ link \in BOOLEAN
           /\ txCurrent \in 0 .. TxDescriptors - 1 /\ txHead \in 0 .. TxDescriptors - 1
           /\ N!Copied \in {0, 1} /\ N!Held \in {0, 1} /\ TxUntold \in {0, 1}
<1>1. N!Copied \in {0, 1} /\ N!Held \in {0, 1} /\ TxUntold \in {0, 1}
  BY DEF N!Copied, N!Held, TxUntold
<1>2. /\ taken \in Nat /\ sent \in Nat /\ arrived \in Nat
      /\ Len(rxList) \in Nat /\ Len(txList) \in Nat /\ Len(wire) \in Nat
  BY DEF NetTypes
<1> QED
  BY <1>1, <1>2, CardHasDescriptors DEF NetTypes

\* Steps that concern one direction leave the invariant of the other alone.
LEMMA RxStays ==
    ASSUME RxInv, UNCHANGED <<taken, arrived, rxList, rxRing, rxHead, rxTail>>,
           N!Copied' = N!Copied, N!ReadIndex' = N!ReadIndex
    PROVE  RxInv'
BY DEF RxInv, RxDone, N!InRxRing

LEMMA TxStays ==
    ASSUME TxInv, UNCHANGED <<sent, wire, txList, txRing, txCurrent, txHead, txTail>>,
           N!Held' = N!Held, TxUntold' = TxUntold, N!Held = 1 => worker'.frame = worker.frame
    PROVE  TxInv'
<1>1. N!InTxRing' = N!InTxRing
  BY DEF N!InTxRing
<1> QED
  BY <1>1 DEF TxInv

\* Where the handler and the transmit thread are when they did not move.
LEMMA NobodyMoved ==
    /\ UNCHANGED <<handler, rxCurrent>> =>
          /\ N!Copied' = N!Copied /\ N!NoCompetingThread' = N!NoCompetingThread
          /\ N!NoCompetingThread => N!ReadIndex' = N!ReadIndex
    /\ worker' = worker => N!Held' = N!Held /\ TxUntold' = TxUntold
<1>1. ASSUME UNCHANGED <<handler, rxCurrent>>
      PROVE  /\ N!Copied' = N!Copied /\ N!NoCompetingThread' = N!NoCompetingThread
             /\ N!NoCompetingThread => N!ReadIndex' = N!ReadIndex
  <2>1. \A c \in CPUs : N!InReceive(c)' = N!InReceive(c)
    BY <1>1 DEF N!InReceive
  <2>2. N!Copied' = N!Copied /\ N!NoCompetingThread' = N!NoCompetingThread
    BY <1>1, <2>1 DEF N!Copied, N!NoCompetingThread
  <2>3. ASSUME N!NoCompetingThread PROVE N!ReadIndex' = N!ReadIndex
    <3>1. CASE \A c \in CPUs : ~N!InReceive(c)
      BY <1>1, <2>1, <3>1, NoReader, NoReaderNext
    <3>2. CASE \E c \in CPUs : N!InReceive(c)
      BY <1>1, <2>1, <2>2, <2>3, <3>2, TheReader, TheReaderNext
    <3> QED
      BY <3>1, <3>2
  <2> QED
    BY <2>2, <2>3
<1>2. worker' = worker => N!Held' = N!Held /\ TxUntold' = TxUntold
  BY DEF N!Held, TxUntold
<1> QED
  BY <1>1, <1>2

\* Received frames stay in order when nothing moves on their way.
LEMMA UnrivalledStays ==
    ASSUME Unrivalled, UNCHANGED <<taken, arrived, rxList, rxRing, rxHead, rxTail, handler, rxCurrent, competed>>
    PROVE  Unrivalled'
<1> SUFFICES ASSUME ~competed' PROVE N!NoCompetingThread' /\ RxInv'
  BY DEF Unrivalled
<1>1. N!NoCompetingThread /\ RxInv
  BY DEF Unrivalled
<1> QED
  BY <1>1, NobodyMoved, RxStays

\* A receive call takes the first frame of the list.
LEMMA LookKeeps ==
    ASSUME NetInv, ~cardHalted, N!ReceiveLook PROVE NetInv'
<1>1. NetTypes /\ Unrivalled /\ TxInv
  BY DEF NetInv
<1>2. /\ UNCHANGED <<sent, wire, txList, txRing, txCurrent, txHead, txTail, worker, handler, rxRing, rxCurrent, rxHead,
                     rxTail, arrived, cause, link, competed>>
      /\ \/ UNCHANGED <<rxList, taken>>
         \/ rxList # <<>> /\ rxList' = Tail(rxList) /\ taken' = taken + 1
  BY DEF N!ReceiveLook, N!cardVars, N!rxCard, N!txCard, N!workerVars, N!handlerVars, N!txQueue
<1>3. /\ N!Copied' = N!Copied /\ N!Copied \in {0, 1} /\ TxInv' /\ N!NoCompetingThread' = N!NoCompetingThread
      /\ N!NoCompetingThread => N!ReadIndex' = N!ReadIndex
  BY <1>1, <1>2, TxStays, NobodyMoved DEF N!Copied
<1>4. CASE UNCHANGED <<rxList, taken>>
  BY <1>1, <1>2, <1>3, <1>4, UnrivalledStays DEF NetInv, NetTypes
<1>5. CASE rxList # <<>> /\ rxList' = Tail(rxList) /\ taken' = taken + 1
  <2>1. /\ Len(rxList') = Len(rxList) - 1 /\ Len(rxList) \in Nat /\ Len(rxList) >= 1
        /\ rxList' \in Seq([id : Nat, size : Nat])
        /\ \A k \in 1 .. Len(rxList') : k + 1 \in 1 .. Len(rxList) /\ rxList'[k] = rxList[k + 1]
    <3>1. rxList \in Seq([id : Nat, size : Nat])
      BY <1>1 DEF NetTypes
    <3> QED
      BY <1>5, <3>1, Shorter
  <2>2. NetTypes'
    <3>1. taken' \in Nat
      BY <1>1, <1>5, NetTyped
    <3> QED
      BY <1>1, <1>2, <2>1, <3>1 DEF NetTypes
  <2>3. taken \in Nat /\ arrived \in Nat /\ N!Copied \in {0, 1}
    BY <1>1, NetTyped
  <2>4. N!InRxRing' = N!InRxRing /\ RxDone' = RxDone
    <3>1. arrived' - taken' - Len(rxList') = arrived - taken - Len(rxList)
      <4>1. PICK l \in Nat : l = Len(rxList) /\ Len(rxList') = l - 1
        BY <2>1
      <4>2. arrived' = arrived /\ taken' = taken + 1
        BY <1>2, <1>5
      <4> QED
        BY <2>3, <4>1, <4>2
    <3>2. N!InRxRing' = N!InRxRing
      BY <3>1 DEF N!InRxRing
    <3> QED
      BY <1>3, <3>2 DEF RxDone
  <2>5. taken' + Len(rxList') - N!Copied' = taken + Len(rxList) - N!Copied
    BY <1>3, <1>5, <2>1, <2>3
  <2> SUFFICES ASSUME ~competed PROVE N!NoCompetingThread' /\ RxInv'
    BY <1>2, <1>3, <2>2 DEF NetInv, Unrivalled
  <2>a. N!NoCompetingThread /\ RxInv
    BY <1>1 DEF Unrivalled
  <2>6. ASSUME NEW k \in 1 .. Len(rxList') PROVE rxList'[k].id = taken' + k
    <3>1. k + 1 \in 1 .. Len(rxList) /\ rxList'[k] = rxList[k + 1]
      BY <2>1
    <3>2. rxList[k + 1].id = taken + (k + 1)
      BY <2>a, <3>1 DEF RxInv
    <3> QED
      BY <1>5, <2>1, <2>3, <3>1, <3>2
  <2>7. RxInv'
    BY <1>2, <1>3, <2>a, <2>4, <2>5, <2>6 DEF RxInv
  <2> QED
    BY <1>3, <2>a, <2>7
<1> QED
  BY <1>2, <1>4, <1>5

\* The handler copies the frame of its descriptor into the list, or finds none.
LEMMA ReceiveKeeps ==
    ASSUME NetInv, ~cardHalted, NEW c \in CPUs, NEW memory \in BOOLEAN, N!NotifyReceiveBuffer(c, memory) PROVE NetInv'
<1>1. NetTypes /\ Unrivalled /\ TxInv
  BY DEF NetInv
<1> DEFINE i == handler[c].cur
<1>2. /\ UNCHANGED <<sent, wire, txList, txRing, txCurrent, txHead, txTail, worker, rxRing, rxCurrent, rxHead, rxTail,
                     arrived, taken, cause, link, competed>>
      /\ handler[c].pc = "loop"
      /\ \/ N!Handle(c, "store") /\ UNCHANGED rxList
         \/ cardHalted' /\ UNCHANGED <<rxList, handler>>
         \/ /\ rxRing[i].done /\ rxList' = Append(rxList, rxRing[i].frame)
            /\ \E pc \in {"signal", "next"} : N!Handle(c, pc)
  <2>1. /\ UNCHANGED <<sent, wire, txList, txRing, txCurrent, txHead, txTail, worker, rxRing, rxCurrent, rxHead, rxTail,
                       arrived, taken, cause, link, competed>>
        /\ handler[c].pc = "loop"
    BY DEF N!NotifyReceiveBuffer, N!cardVars, N!rxCard, N!txCard, N!workerVars, N!callVars, N!txQueue
  <2> QED
    BY <2>1 DEF N!NotifyReceiveBuffer
<1>3. TxInv'
  BY <1>1, <1>2, TxStays, NobodyMoved
<1>t. i \in 0 .. RxDescriptors - 1 /\ handler \in [CPUs -> Handlers] /\ handler[c] \in Handlers
  BY <1>1 DEF NetTypes, Handlers
<1>h. ASSUME NEW pc \in HandlerPcs, N!Handle(c, pc)
      PROVE  /\ handler' \in [CPUs -> Handlers] /\ handler'[c].pc = pc /\ handler'[c].cur = i
             /\ \A d \in CPUs \ {c} : handler'[d] = handler[d]
  BY <1>t, <1>h DEF N!Handle, Handlers
<1>4. CASE N!Handle(c, "store") /\ UNCHANGED rxList
  <2>1. /\ handler' \in [CPUs -> Handlers] /\ handler'[c].pc = "store" /\ handler'[c].cur = i
        /\ \A d \in CPUs \ {c} : handler'[d] = handler[d]
    BY <1>4, <1>h DEF HandlerPcs
  <2>2. N!NoCompetingThread => N!NoCompetingThread' /\ N!ReadIndex' = N!ReadIndex /\ N!Copied' = N!Copied
    <3>1. N!InReceive(c) /\ N!InReceive(c)'
      BY <1>2, <2>1 DEF N!InReceive
    <3>2. handler'[c].pc \in {"signal", "next"} <=> handler[c].pc \in {"signal", "next"}
      BY <1>2, <2>1
    <3> QED
      BY <2>1, <3>1, <3>2, HandlerMoves
  <2>3. Unrivalled'
    BY <1>1, <1>2, <1>4, <2>2, RxStays DEF Unrivalled
  <2> QED
    BY <1>1, <1>2, <1>3, <1>4, <2>1, <2>3 DEF NetInv, NetTypes
<1>5. CASE cardHalted' /\ UNCHANGED <<rxList, handler>>
  BY <1>1, <1>2, <1>5 DEF NetInv, NetTypes
<1>6. CASE /\ rxRing[i].done /\ rxList' = Append(rxList, rxRing[i].frame)
           /\ \E pc \in {"signal", "next"} : N!Handle(c, pc)
  <2>1. /\ handler' \in [CPUs -> Handlers] /\ handler'[c].pc \in {"signal", "next"} /\ handler'[c].cur = i
        /\ \A d \in CPUs \ {c} : handler'[d] = handler[d]
    <3>1. PICK pc \in {"signal", "next"} : N!Handle(c, pc)
      BY <1>6
    <3> QED
      BY <3>1, <1>h DEF HandlerPcs
  <2>3. PICK d \in [done : BOOLEAN, frame : [id : Nat, size : Nat]] : d = rxRing[i]
    BY <1>1, <1>t DEF NetTypes
  <2>4. /\ rxList \in Seq([id : Nat, size : Nat]) /\ rxList' = Append(rxList, d.frame)
        /\ d.frame \in [id : Nat, size : Nat]
    BY <1>1, <1>6, <2>3 DEF NetTypes
  <2>5. /\ Len(rxList') = Len(rxList) + 1 /\ Len(rxList) \in Nat
        /\ rxList' \in Seq([id : Nat, size : Nat])
        /\ \A k \in 1 .. Len(rxList) : rxList'[k] = rxList[k]
        /\ rxList'[Len(rxList) + 1] = d.frame
    BY <2>4
  <2>6. NetTypes'
    BY <1>1, <1>2, <2>1, <2>5 DEF NetTypes
  <2> SUFFICES ASSUME ~competed PROVE N!NoCompetingThread' /\ RxInv'
    BY <1>2, <1>3, <2>6 DEF NetInv, Unrivalled
  <2>a. N!NoCompetingThread /\ RxInv
    BY <1>1 DEF Unrivalled
  <2>b. N!InReceive(c) /\ N!InReceive(c)' /\ \A e \in CPUs \ {c} : N!InReceive(e)' = N!InReceive(e)
    BY <1>2, <2>1 DEF N!InReceive
  <2>c. N!NoCompetingThread'
    BY <2>a, <2>b DEF N!NoCompetingThread
  <2>2. N!Copied = 0 /\ N!Copied' = 1 /\ N!ReadIndex = i /\ N!ReadIndex' = i
    <3>1. N!Copied = 0 /\ N!ReadIndex = i
      BY <1>2, <2>a, <2>b, TheReader
    <3> QED
      BY <2>1, <2>b, <2>c, <3>1, TheReaderNext
  <2>7. taken \in Nat /\ arrived \in Nat
    BY <1>1 DEF NetTypes
  <2>8. Offset(i, i, RxDescriptors) = 0
    BY <1>t, CardHasDescriptors DEF Offset
  <2>9. 0 < RxDone /\ d.frame.id = taken + Len(rxList) + 1
    BY <1>t, <1>6, <2>a, <2>2, <2>3, <2>5, <2>7, <2>8 DEF RxInv
  <2>10. N!InRxRing' = N!InRxRing - 1 /\ RxDone' = RxDone /\ N!InRxRing \in Nat /\ N!InRxRing >= 1
    <3>1. N!InRxRing \in Nat
      BY <2>a DEF RxInv
    <3>2. N!InRxRing = arrived - taken - Len(rxList) /\ N!InRxRing' = arrived - taken - (Len(rxList) + 1)
      BY <1>2, <2>5 DEF N!InRxRing
    <3>3. N!InRxRing' = N!InRxRing - 1
      BY <2>5, <2>7, <3>2
    <3>4. RxDone = N!InRxRing + 0 /\ RxDone' = N!InRxRing' + 1
      BY <2>2 DEF RxDone
    <3> QED
      BY <2>9, <3>1, <3>3, <3>4
  <2>11. taken' + Len(rxList') - N!Copied' = taken + Len(rxList) - N!Copied
    BY <1>2, <2>2, <2>5, <2>7
  <2>12. ASSUME NEW k \in 1 .. Len(rxList') PROVE rxList'[k].id = taken' + k
    <3>1. CASE k \in 1 .. Len(rxList)
      BY <1>2, <2>a, <2>5, <3>1 DEF RxInv
    <3>2. CASE k = Len(rxList) + 1
      BY <1>2, <2>5, <2>7, <2>9, <3>2
    <3> QED
      BY <2>5, <3>1, <3>2
  <2>13. RxInv'
    BY <1>2, <2>a, <2>2, <2>10, <2>11, <2>12 DEF RxInv
  <2> QED
    BY <2>c, <2>13
<1> QED
  BY <1>2, <1>4, <1>5, <1>6

\* The handler gives the descriptor back and goes on to the next one.
LEMMA GiveBackKeeps ==
    ASSUME NetInv, ~cardHalted, NEW who \in CPUs, N!GiveBack(who) PROVE NetInv'
<1>1. NetTypes /\ Unrivalled /\ TxInv
  BY DEF NetInv
<1>2. /\ UNCHANGED <<sent, wire, txList, txRing, txCurrent, txHead, txTail, worker, rxHead, rxList, arrived, taken, cause,
                     link, rxCurrent, competed>>
      /\ handler[who].pc = "next"
      /\ handler' = [handler EXCEPT ![who].pc = "loop", ![who].cur = N!RxNext(@)]
      /\ rxRing' = [rxRing EXCEPT ![handler[who].cur] = N!Empty] /\ rxTail' = handler[who].cur
  BY DEF N!GiveBack, N!besidesRing, N!txCard, N!workerVars, N!callVars, N!txQueue, N!rxQueue
<1>3. TxInv'
  BY <1>1, <1>2, TxStays, NobodyMoved
<1>t. handler \in [CPUs -> Handlers] /\ handler[who] \in Handlers /\ handler[who].cur \in 0 .. RxDescriptors - 1
  BY <1>1 DEF NetTypes, Handlers
<1>4. PICK n \in Nat \ {0}, c \in 0 .. RxDescriptors - 1 : n = RxDescriptors /\ c = handler[who].cur /\ n > 1
  BY <1>1, <1>t, NetTyped
<1> DEFINE next == N!RxNext(c)
<1>5. next = Shift(c, 1, n) /\ next \in 0 .. n - 1
  <2>1. next = Shift(c, 1, n)
    BY <1>4, NextDescriptors
  <2> QED
    BY <1>4, <2>1 DEF Shift
<1>6. /\ handler' \in [CPUs -> Handlers] /\ handler'[who].pc = "loop" /\ handler'[who].cur = next
      /\ \A d \in CPUs \ {who} : handler'[d] = handler[d]
  <2> HIDE DEF next
  <2>1. handler' = [handler EXCEPT ![who].pc = "loop", ![who].cur = next]
    BY <1>2, <1>4, <1>t DEF next
  <2> QED
    BY <1>t, <1>4, <1>5, <2>1 DEF Handlers, HandlerPcs
<1> HIDE DEF next
<1>8. /\ rxRing' \in [0 .. n - 1 -> [done : BOOLEAN, frame : [id : Nat, size : Nat]]]
      /\ ~rxRing'[c].done /\ \A j \in 0 .. n - 1 : j # c => rxRing'[j] = rxRing[j]
  BY <1>1, <1>2, <1>4 DEF NetTypes, N!Empty
<1>9. NetTypes'
  BY <1>1, <1>2, <1>4, <1>6, <1>8 DEF NetTypes
<1> SUFFICES ASSUME ~competed PROVE N!NoCompetingThread' /\ RxInv'
  BY <1>2, <1>3, <1>9 DEF NetInv, Unrivalled
<1>a. N!NoCompetingThread /\ RxInv
  BY <1>1 DEF Unrivalled
<1>b. N!InReceive(who) /\ N!InReceive(who)' /\ \A e \in CPUs \ {who} : N!InReceive(e)' = N!InReceive(e)
  BY <1>2, <1>6 DEF N!InReceive
<1>c. N!NoCompetingThread'
  BY <1>a, <1>b DEF N!NoCompetingThread
<1>7. N!Copied = 1 /\ N!Copied' = 0 /\ N!ReadIndex = c /\ N!ReadIndex' = next
  <2>1. N!Copied = 1 /\ N!ReadIndex = c
    BY <1>2, <1>4, <1>a, <1>b, TheReader
  <2> QED
    BY <1>6, <1>b, <1>c, <2>1, TheReaderNext
<1>10. /\ N!InRxRing' = N!InRxRing /\ RxDone' = RxDone - 1 /\ RxDone \in 1 .. n - 1 /\ N!InRxRing \in Nat
       /\ RxDone' \in 0 .. n - 1
  <2>1. N!InRxRing \in Nat /\ RxDone \in 0 .. n - 1
    BY <1>a, <1>7, <1>4 DEF RxInv
  <2> QED
    BY <1>2, <1>7, <2>1 DEF N!InRxRing, RxDone
<1>11. rxHead' = Shift(next, RxDone', n)
  <2>1. PICK m \in 1 .. n - 1 : m = RxDone
    BY <1>10
  <2>2. rxHead' = Shift(c, m, n)
    BY <1>a, <1>7, <1>2, <1>4, <2>1 DEF RxInv
  <2>3. Shift(Shift(c, 1, n), m - 1, n) = Shift(c, m, n)
    BY <1>4 DEF Shift
  <2> QED
    BY <1>5, <1>10, <2>1, <2>2, <2>3
<1>12. rxTail' = Shift(next, n - 1, n)
  BY <1>2, <1>4, <1>5, ShiftMoves
<1>13. ASSUME NEW j \in 0 .. n - 1
       PROVE  /\ rxRing'[j].done <=> Offset(next, j, n) < RxDone'
              /\ rxRing'[j].done =>
                    rxRing'[j].frame.id = taken' + Len(rxList') - N!Copied' + Offset(next, j, n) + 1
  <2>1. Offset(next, j, n) = IF j = c THEN n - 1 ELSE Offset(c, j, n) - 1
    BY <1>4, <1>5, OffsetMoves
  <2>2. CASE j = c
    BY <1>4, <1>8, <1>10, <2>1, <2>2
  <2>3. CASE j # c
    <3>1. /\ rxRing[j].done <=> Offset(c, j, n) < RxDone
          /\ rxRing[j].done => rxRing[j].frame.id = taken + Len(rxList) - 1 + Offset(c, j, n) + 1
      BY <1>a, <1>7, <1>4, <1>7 DEF RxInv
    <3>2. PICK o \in 0 .. n - 1 : o = Offset(c, j, n)
      BY <1>4, ShiftOfOffset
    <3>3. Len(rxList) \in Nat /\ taken \in Nat
      BY <1>1 DEF NetTypes
    <3>4. Offset(next, j, n) = o - 1 /\ rxRing'[j] = rxRing[j]
      BY <1>8, <2>1, <2>3, <3>2
    <3>5. /\ rxRing[j].done <=> o < RxDone
          /\ rxRing[j].done => rxRing[j].frame.id = taken + Len(rxList) - 1 + o + 1
      BY <3>1, <3>2
    <3>6. o < RxDone <=> o - 1 < RxDone'
      BY <1>10
    <3>7. taken' + Len(rxList') - N!Copied' + (o - 1) + 1 = taken + Len(rxList) - 1 + o + 1
      BY <1>2, <1>7, <3>3
    <3> QED
      BY <3>4, <3>5, <3>6, <3>7
  <2> QED
    BY <2>2, <2>3
<1>14. \A k \in 1 .. Len(rxList') : rxList'[k].id = taken' + k
  BY <1>a, <1>7, <1>2 DEF RxInv
<1>15. RxInv'
  BY <1>4, <1>5, <1>7, <1>10, <1>11, <1>12, <1>13, <1>14 DEF RxInv
<1> QED
  BY <1>c, <1>15

\* A frame arrives in the descriptor at the card's head.
LEMMA ArrivalKeeps ==
    ASSUME NetInv, ~cardHalted, NEW size \in FrameSizes, N!FrameArrives(size) PROVE NetInv'
<1>1. NetTypes /\ Unrivalled /\ TxInv
  BY DEF NetInv
<1>2. /\ UNCHANGED <<sent, wire, txList, txRing, txCurrent, txHead, txTail, worker, handler, rxTail, rxCurrent, rxList,
                     taken, cause, link, competed>>
      /\ rxHead # rxTail
      /\ rxRing' = [rxRing EXCEPT ![rxHead] = [done |-> TRUE, frame |-> [id |-> arrived + 1, size |-> size]]]
      /\ rxHead' = N!RxNext(rxHead) /\ arrived' = arrived + 1
  BY DEF N!FrameArrives, N!txCard, N!workerVars, N!handlerVars, N!callVars, N!txQueue, N!rxQueue
<1>3. /\ TxInv' /\ N!Copied' = N!Copied /\ N!Copied \in {0, 1} /\ N!NoCompetingThread' = N!NoCompetingThread
      /\ N!NoCompetingThread => N!ReadIndex' = N!ReadIndex
  BY <1>1, <1>2, TxStays, NobodyMoved DEF N!Copied
<1>4. PICK n \in Nat \ {0}, h \in 0 .. RxDescriptors - 1 : n = RxDescriptors /\ h = rxHead /\ n > 1
  BY <1>1, NetTyped
<1>5. taken \in Nat /\ arrived \in Nat /\ Len(rxList) \in Nat /\ size \in Nat
  BY <1>1, CardHasDescriptors DEF NetTypes
<1>7. /\ rxRing' \in [0 .. n - 1 -> [done : BOOLEAN, frame : [id : Nat, size : Nat]]]
      /\ rxRing'[h].done /\ rxRing'[h].frame.id = arrived + 1 /\ \A j \in 0 .. n - 1 : j # h => rxRing'[j] = rxRing[j]
  <2>1. [done |-> TRUE, frame |-> [id |-> arrived + 1, size |-> size]]
            \in [done : BOOLEAN, frame : [id : Nat, size : Nat]]
    BY <1>5
  <2>2. rxRing \in [0 .. n - 1 -> [done : BOOLEAN, frame : [id : Nat, size : Nat]]]
    BY <1>1, <1>4 DEF NetTypes
  <2> QED
    BY <1>2, <1>4, <2>1, <2>2
<1>n. rxHead' = Shift(h, 1, n) /\ rxHead' \in 0 .. n - 1
  <2>1. rxHead' = Shift(h, 1, n)
    BY <1>2, <1>4, NextDescriptors
  <2> QED
    BY <1>4, <2>1 DEF Shift
<1>9. NetTypes'
  <2>1. arrived' \in Nat
    BY <1>2, <1>5
  <2> QED
    BY <1>1, <1>2, <1>4, <1>7, <1>n, <2>1 DEF NetTypes
<1> SUFFICES ASSUME ~competed PROVE N!NoCompetingThread' /\ RxInv'
  BY <1>2, <1>3, <1>9 DEF NetInv, Unrivalled
<1>a. N!NoCompetingThread /\ RxInv /\ N!ReadIndex' = N!ReadIndex
  BY <1>1, <1>3 DEF Unrivalled
<1>c. PICK c \in 0 .. n - 1 : c = N!ReadIndex
  BY <1>a, <1>4 DEF RxInv
<1>6. PICK m \in 0 .. n - 1 : m = RxDone /\ h = Shift(c, m, n) /\ m < n - 1
  <2>1. RxDone \in 0 .. n - 1 /\ h = Shift(c, RxDone, n) /\ h # Shift(c, n - 1, n)
    BY <1>2, <1>a, <1>4, <1>c DEF RxInv
  <2> QED
    BY <1>4, <1>c, <2>1
<1>8. rxHead' = Shift(c, m + 1, n)
  <2>1. Shift(h, 1, n) = Shift(c, m + 1, n)
    BY <1>4, <1>c, <1>6 DEF Shift
  <2> QED
    BY <1>n, <2>1
<1>10. /\ N!InRxRing \in Nat /\ N!InRxRing' = N!InRxRing + 1 /\ RxDone' = m + 1 /\ RxDone' \in 0 .. n - 1
       /\ m = arrived - taken - Len(rxList) + N!Copied
  <2>1. N!InRxRing \in Nat
    BY <1>a DEF RxInv
  <2> QED
    BY <1>2, <1>3, <1>5, <1>6, <2>1 DEF N!InRxRing, RxDone
<1>11. ASSUME NEW j \in 0 .. n - 1
       PROVE  /\ rxRing'[j].done <=> Offset(c, j, n) < m + 1
              /\ rxRing'[j].done => rxRing'[j].frame.id = taken + Len(rxList) - N!Copied + Offset(c, j, n) + 1
  <2>1. PICK o \in 0 .. n - 1 : o = Offset(c, j, n) /\ Shift(c, o, n) = j
    <3>1. Offset(c, j, n) \in 0 .. n - 1 /\ Shift(c, Offset(c, j, n), n) = j
      BY <1>4, ShiftOfOffset
    <3> QED
      BY <3>1
  <2>2. CASE j = h
    <3>1. Offset(c, h, n) = m
      BY <1>4, <1>c, <1>6, OffsetOfShift
    <3> QED
      BY <1>3, <1>5, <1>7, <1>10, <2>2, <3>1
  <2>3. CASE j # h
    <3>1. /\ rxRing[j].done <=> Offset(c, j, n) < m
          /\ rxRing[j].done => rxRing[j].frame.id = taken + Len(rxList) - N!Copied + Offset(c, j, n) + 1
      BY <1>a, <1>c, <1>4, <1>6 DEF RxInv
    <3>2. o # m
      BY <1>6, <2>1, <2>3
    <3>3. o < m <=> o < m + 1
      BY <3>2
    <3> QED
      BY <1>7, <2>1, <2>3, <3>1, <3>3
  <2> QED
    BY <2>2, <2>3
<1>12. \A k \in 1 .. Len(rxList') : rxList'[k].id = taken' + k
  BY <1>a, <1>c, <1>2 DEF RxInv
<1>13. rxTail' = Shift(c, n - 1, n)
  BY <1>a, <1>c, <1>2, <1>4 DEF RxInv
<1>14. RxInv'
  BY <1>a, <1>c, <1>2, <1>3, <1>4, <1>8, <1>10, <1>11, <1>12, <1>13 DEF RxInv
<1> QED
  BY <1>3, <1>a, <1>14

\* Steps that leave the rings, the lists and the histories alone, and move the
\* transmit thread and the handler to places of the same kind at most.
LEMMA QuietKeeps ==
    ASSUME NetInv, ~cardHalted,
           UNCHANGED <<sent, wire, txList, txRing, txCurrent, txHead, txTail, taken, arrived, rxList, rxRing, rxHead,
                       rxTail>>,
           worker' \in [pc : WorkerPcs, frame : Nat], N!Held' = N!Held, TxUntold' = TxUntold,
           N!Held = 1 => worker'.frame = worker.frame,
           handler' \in [CPUs -> Handlers], rxCurrent' \in 0 .. RxDescriptors - 1, link' \in BOOLEAN,
           cause' \subseteq Causes \union {"overrun"},
           ~competed' => ~competed,
           ~competed' /\ N!NoCompetingThread =>
               N!NoCompetingThread' /\ N!ReadIndex' = N!ReadIndex /\ N!Copied' = N!Copied
    PROVE  NetInv'
<1>1. NetTypes /\ Unrivalled /\ TxInv
  BY DEF NetInv
<1>2. TxInv'
  BY <1>1, TxStays
<1>3. Unrivalled'
  <2> SUFFICES ASSUME ~competed' PROVE N!NoCompetingThread' /\ RxInv'
    BY DEF Unrivalled
  <2>1. N!NoCompetingThread /\ RxInv
    BY <1>1 DEF Unrivalled
  <2> QED
    BY <2>1, RxStays
<1> QED
  BY <1>1, <1>2, <1>3 DEF NetInv, NetTypes

\* The threads' waits, the signals, the steps of the handler that touch no ring,
\* and the card's reports.
LEMMA QuietSteps ==
    ASSUME NetInv, ~cardHalted,
           \/ \E size \in BufferSizes : N!NetReceiveFrame(size)
           \/ N!NetSendFrame \/ \E rx, tx \in BOOLEAN : N!NetChangeDeviceStatus(rx, tx)
           \/ N!ReceiveCheckStatus \/ N!ReceiveTest \/ N!ReceiveBlock \/ N!SendSignal
           \/ N!WaitForFrames \/ N!WaitForDescriptor \/ N!SignalTxQueueFull
           \/ N!FrameOverruns \/ N!CardReports \/ N!LinkChanges
    PROVE  NetInv'
<1>1. /\ worker \in [pc : WorkerPcs, frame : Nat] /\ cause \subseteq Causes \union {"overrun"} /\ link \in BOOLEAN
      /\ handler \in [CPUs -> Handlers] /\ rxCurrent \in 0 .. RxDescriptors - 1
  BY DEF NetInv, NetTypes
<1>2. UNCHANGED <<sent, wire, txList, txRing, txCurrent, txHead, txTail, taken, arrived, rxList, rxRing, rxCurrent,
                  rxHead, rxTail, handler, competed>>
  BY DEF N!NetReceiveFrame, N!NetSendFrame, N!NetChangeDeviceStatus, N!ReceiveCheckStatus, N!ReceiveTest,
         N!ReceiveBlock, N!SendSignal, N!WaitForFrames, N!WaitForDescriptor, N!SignalTxQueueFull,
         N!FrameOverruns, N!CardReports, N!LinkChanges, N!besidesWorker, N!callVars, N!rxQueue, N!txQueue, N!rxCard,
         N!txCard, N!cardVars, N!workerVars, N!handlerVars
<1>3. CASE \/ \E size \in BufferSizes : N!NetReceiveFrame(size)
           \/ N!NetSendFrame \/ \E rx, tx \in BOOLEAN : N!NetChangeDeviceStatus(rx, tx)
           \/ N!ReceiveCheckStatus \/ N!ReceiveTest \/ N!ReceiveBlock \/ N!FrameOverruns \/ N!CardReports \/ N!LinkChanges
  <2>1. UNCHANGED worker /\ cause' \subseteq Causes \union {"overrun"} /\ link' \in BOOLEAN
    BY <1>1, <1>3 DEF N!NetReceiveFrame, N!NetSendFrame, N!NetChangeDeviceStatus, N!ReceiveCheckStatus, N!ReceiveTest,
           N!ReceiveBlock, N!FrameOverruns, N!CardReports, N!LinkChanges, N!cardVars, N!workerVars, Causes
  <2> QED
    BY <1>1, <1>2, <2>1, NobodyMoved, QuietKeeps
<1>4. CASE N!WaitForFrames \/ N!WaitForDescriptor \/ N!SignalTxQueueFull \/ N!SendSignal
  <2>1. UNCHANGED <<cause, link>>
    BY <1>4 DEF N!WaitForFrames, N!WaitForDescriptor, N!SignalTxQueueFull, N!SendSignal, N!besidesWorker, N!cardVars
  <2>2. /\ worker' \in [pc : WorkerPcs, frame : Nat] /\ worker'.frame = worker.frame
        /\ \/ worker.pc = "test" /\ worker'.pc \in {"take", "link"}
           \/ worker.pc = "link" /\ worker'.pc = "blocked"
           \/ worker.pc = "blocked" /\ worker'.pc = "take"
           \/ worker.pc = "avail" /\ worker'.pc \in {"fill", "avail link"}
           \/ worker.pc = "avail link" /\ worker'.pc = "avail blocked"
           \/ worker.pc = "full" /\ worker'.pc \in {"clear", "tail"}
           \/ worker.pc = "clear" /\ worker'.pc = "tail"
           \/ worker'.pc = worker.pc
    BY <1>1, <1>4 DEF N!WaitForFrames, N!WaitForDescriptor, N!SignalTxQueueFull, N!SendSignal, N!Work, N!Wake, WorkerPcs
  <2>3. N!Held' = N!Held /\ TxUntold' = TxUntold
    BY <2>2 DEF N!Held, TxUntold
  <2>4. ~competed' /\ N!NoCompetingThread =>
               N!NoCompetingThread' /\ N!ReadIndex' = N!ReadIndex /\ N!Copied' = N!Copied
    BY <1>2, NobodyMoved
  <2> QED
    BY <1>1, <1>2, <2>1, <2>2, <2>3, <2>4, QuietKeeps
<1> QED
  BY <1>3, <1>4

\* The branch that a handler goes on to is not inside EthReceiveFrame.
LEMMA BranchesAreOutside ==
    ASSUME NEW causes PROVE N!Branch(causes) \in {"out", "rx", "tx", "link"}
BY DEF N!Branch

\* The steps of a handler that touch no ring.
LEMMA QuietHandlerSteps ==
    ASSUME NetInv, ~cardHalted, NEW c \in CPUs,
           \/ N!EthGetInterruptReason(c) \/ N!EthReceiveFrame(c) \/ N!ReceiveSignal(c) \/ N!StoreCurrentDescriptor(c)
           \/ N!NotifyTxDescriptorAvailable(c) \/ N!GetDeviceStatus(c) \/ N!NotifyLinkStatusChange(c)
    PROVE  NetInv'
<1>1. /\ worker \in [pc : WorkerPcs, frame : Nat] /\ cause \subseteq Causes \union {"overrun"} /\ link \in BOOLEAN
      /\ handler \in [CPUs -> Handlers] /\ rxCurrent \in 0 .. RxDescriptors - 1 /\ handler[c] \in Handlers
  BY DEF NetInv, NetTypes
<1>2. UNCHANGED <<sent, wire, txList, txRing, txCurrent, txHead, txTail, taken, arrived, rxList, rxRing, rxHead, rxTail,
                  link>>
  BY DEF N!EthGetInterruptReason, N!EthReceiveFrame, N!ReceiveSignal, N!StoreCurrentDescriptor,
         N!NotifyTxDescriptorAvailable, N!GetDeviceStatus, N!NotifyLinkStatusChange, N!callVars, N!rxQueue, N!txQueue,
         N!rxCard, N!txCard, N!cardVars, N!workerVars
<1>3. cause' \subseteq Causes \union {"overrun"}
  BY <1>1 DEF N!EthGetInterruptReason, N!EthReceiveFrame, N!ReceiveSignal, N!StoreCurrentDescriptor,
         N!NotifyTxDescriptorAvailable, N!GetDeviceStatus, N!NotifyLinkStatusChange, N!cardVars
<1>4. /\ worker' \in [pc : WorkerPcs, frame : Nat] /\ worker'.frame = worker.frame
      /\ N!Held' = N!Held /\ TxUntold' = TxUntold
  <2>1. worker' = worker \/ (worker' = [worker EXCEPT !.pc = "fill"] /\ worker.pc = "avail blocked")
    BY DEF N!EthGetInterruptReason, N!EthReceiveFrame, N!ReceiveSignal, N!StoreCurrentDescriptor,
           N!NotifyTxDescriptorAvailable, N!GetDeviceStatus, N!NotifyLinkStatusChange, N!Wake, N!workerVars
  <2>2. /\ worker' \in [pc : WorkerPcs, frame : Nat] /\ worker'.frame = worker.frame
        /\ worker'.pc = worker.pc \/ (worker'.pc = "fill" /\ worker.pc = "avail blocked")
    BY <1>1, <2>1 DEF WorkerPcs
  <2> QED
    BY <2>2 DEF N!Held, TxUntold
<1>5. ASSUME NEW h \in Handlers, handler' = [handler EXCEPT ![c] = h], rxCurrent' \in 0 .. RxDescriptors - 1,
             ~competed' => ~competed,
             h.pc \in {"signal", "next"} <=> handler[c].pc \in {"signal", "next"},
             ~competed' => \/ ~N!InReceive(c) /\ ~N!InReceive(c)' /\ rxCurrent' = rxCurrent
                           \/ N!InReceive(c) /\ N!InReceive(c)' /\ h.cur = handler[c].cur
                           \/ /\ ~N!InReceive(c) /\ N!InReceive(c)' /\ h.cur = rxCurrent
                              /\ \A d \in CPUs \ {c} : ~N!InReceive(d)
                           \/ N!InReceive(c) /\ ~N!InReceive(c)' /\ rxCurrent' = handler[c].cur
      PROVE  NetInv'
  <2>1. handler' \in [CPUs -> Handlers] /\ handler'[c] = h /\ \A d \in CPUs \ {c} : handler'[d] = handler[d]
    BY <1>1, <1>5
  <2>2. ~competed' /\ N!NoCompetingThread =>
               N!NoCompetingThread' /\ N!ReadIndex' = N!ReadIndex /\ N!Copied' = N!Copied
    BY <1>5, <2>1, HandlerMoves
  <2> QED
    BY <1>1, <1>2, <1>3, <1>4, <1>5, <2>1, <2>2, QuietKeeps
<1>6. ASSUME NEW rest \in SUBSET Causes
      PROVE  /\ [N!Out EXCEPT !.pc = N!Branch(rest), !.causes = rest] \in Handlers
             /\ [N!Out EXCEPT !.pc = N!Branch(rest), !.causes = rest].pc \in {"out", "rx", "tx", "link"}
  <2>1. PICK b \in {"out", "rx", "tx", "link"} : b = N!Branch(rest)
    BY BranchesAreOutside
  <2>2. 0 \in 0 .. RxDescriptors - 1
    BY CardHasDescriptors
  <2>3. PICK o \in Handlers : o = N!Out
    BY <2>2 DEF N!Out, Handlers, HandlerPcs
  <2>4. [o EXCEPT !.pc = b, !.causes = rest] \in Handlers /\ [o EXCEPT !.pc = b, !.causes = rest].pc = b
    BY DEF Handlers, HandlerPcs
  <2> QED
    BY <2>1, <2>3, <2>4
<1>7. CASE N!EthGetInterruptReason(c)
  <2> DEFINE known == cause \ {"overrun"}
             h == [N!Out EXCEPT !.pc = N!Branch(known), !.causes = known]
  <2>1. h \in Handlers /\ h.pc \in {"out", "rx", "tx", "link"}
    BY <1>1, <1>6
  <2>2. handler[c].pc = "out" /\ handler' = [handler EXCEPT ![c] = h] /\ UNCHANGED <<rxCurrent, competed>>
    BY <1>7 DEF N!EthGetInterruptReason
  <2> HIDE DEF h
  <2>3. handler'[c] = h
    BY <1>1, <2>2
  <2>4. ~N!InReceive(c) /\ ~N!InReceive(c)'
    BY <2>1, <2>2, <2>3 DEF N!InReceive
  <2> QED
    BY <1>1, <1>5, <2>1, <2>2, <2>4
<1>8. CASE N!NotifyTxDescriptorAvailable(c) \/ N!NotifyLinkStatusChange(c) \/ N!StoreCurrentDescriptor(c)
  <2>1. PICK x \in Causes : N!Solved(c, x) /\ UNCHANGED competed
    BY <1>8 DEF N!NotifyTxDescriptorAvailable, N!NotifyLinkStatusChange, N!StoreCurrentDescriptor, Causes
  <2> DEFINE rest == handler[c].causes \ {x}
             h == [N!Out EXCEPT !.pc = N!Branch(rest), !.causes = rest]
  <2>2. handler' = [handler EXCEPT ![c] = h]
    BY <2>1 DEF N!Solved
  <2>3. h \in Handlers /\ h.pc \in {"out", "rx", "tx", "link"}
    <3>1. rest \in SUBSET Causes
      BY <1>1 DEF Handlers
    <3> HIDE DEF rest
    <3> QED
      BY <3>1, <1>6
  <2> HIDE DEF h
  <2>4. handler'[c] = h
    BY <1>1, <2>2
  <2>5. ~N!InReceive(c)'
    BY <2>3, <2>4 DEF N!InReceive
  <2>6. \/ handler[c].pc \in {"tx", "notify"} /\ rxCurrent' = rxCurrent
        \/ handler[c].pc = "store" /\ rxCurrent' = handler[c].cur
    BY <1>8 DEF N!NotifyTxDescriptorAvailable, N!NotifyLinkStatusChange, N!StoreCurrentDescriptor
  <2>7. handler[c].cur \in 0 .. RxDescriptors - 1
    BY <1>1 DEF Handlers
  <2>8. \/ ~N!InReceive(c) /\ rxCurrent' = rxCurrent
        \/ N!InReceive(c) /\ rxCurrent' = handler[c].cur
    BY <2>6 DEF N!InReceive
  <2> QED
    BY <1>1, <1>5, <2>1, <2>2, <2>3, <2>5, <2>6, <2>7, <2>8
<1>9. CASE N!EthReceiveFrame(c)
  <2> DEFINE h == [handler[c] EXCEPT !.pc = "loop", !.cur = rxCurrent]
  <2>1. /\ handler[c].pc = "rx" /\ handler' = [handler EXCEPT ![c].pc = "loop", ![c].cur = rxCurrent]
        /\ rxCurrent' = rxCurrent /\ competed' = (competed \/ \E d \in CPUs \ {c} : N!InReceive(d))
    BY <1>9 DEF N!EthReceiveFrame
  <2>2. h \in Handlers /\ h.pc = "loop" /\ h.cur = rxCurrent
    BY <1>1 DEF Handlers, HandlerPcs
  <2>3. handler' = [handler EXCEPT ![c] = h]
    BY <1>1, <2>1
  <2> HIDE DEF h
  <2>4. handler'[c] = h
    BY <1>1, <2>3
  <2>5. ~N!InReceive(c) /\ N!InReceive(c)'
    BY <2>1, <2>2, <2>4 DEF N!InReceive
  <2> QED
    BY <1>1, <1>5, <2>1, <2>2, <2>3, <2>5
<1>10. CASE N!ReceiveSignal(c)
  <2> DEFINE h == [handler[c] EXCEPT !.pc = "next"]
  <2>1. /\ handler[c].pc = "signal" /\ handler' = [handler EXCEPT ![c].pc = "next"]
        /\ rxCurrent' = rxCurrent /\ competed' = competed
    BY <1>10 DEF N!ReceiveSignal, N!Handle
  <2>2. h \in Handlers /\ h.pc = "next" /\ h.cur = handler[c].cur
    BY <1>1 DEF Handlers, HandlerPcs
  <2>3. handler' = [handler EXCEPT ![c] = h]
    BY <1>1, <2>1
  <2> HIDE DEF h
  <2>4. handler'[c] = h
    BY <1>1, <2>3
  <2>5. N!InReceive(c) /\ N!InReceive(c)'
    BY <2>1, <2>2, <2>4 DEF N!InReceive
  <2> QED
    BY <1>1, <1>5, <2>1, <2>2, <2>3, <2>5
<1>11. CASE N!GetDeviceStatus(c)
  <2> DEFINE h == [handler[c] EXCEPT !.pc = "notify", !.up = link]
  <2>1. /\ handler[c].pc = "link" /\ handler' = [handler EXCEPT ![c].pc = "notify", ![c].up = link]
        /\ rxCurrent' = rxCurrent /\ competed' = competed
    BY <1>11 DEF N!GetDeviceStatus
  <2>2. h \in Handlers /\ h.pc = "notify"
    BY <1>1 DEF Handlers, HandlerPcs
  <2>3. handler' = [handler EXCEPT ![c] = h]
    BY <1>1, <2>1
  <2> HIDE DEF h
  <2>4. handler'[c] = h
    BY <1>1, <2>3
  <2>5. ~N!InReceive(c) /\ ~N!InReceive(c)'
    BY <2>1, <2>2, <2>4 DEF N!InReceive
  <2> QED
    BY <1>1, <1>5, <2>1, <2>2, <2>3, <2>5
<1> QED
  BY <1>7, <1>8, <1>9, <1>10, <1>11

\* A frame to send joins the list.
LEMMA InsertsKeep ==
    ASSUME NetInv, ~cardHalted, N!SendInsert PROVE NetInv'
<1>1. NetTypes /\ Unrivalled /\ TxInv
  BY DEF NetInv
<1>2. /\ UNCHANGED <<wire, txRing, txCurrent, txHead, txTail, worker, handler, taken, arrived, rxList, rxRing, rxCurrent,
                     rxHead, rxTail, cause, link, competed>>
      /\ txList' = Append(txList, sent + 1) /\ sent' = sent + 1
  BY DEF N!SendInsert, N!rxQueue, N!rxCard, N!txCard, N!cardVars, N!workerVars, N!handlerVars
<1>3. Unrivalled' /\ N!Held' = N!Held /\ TxUntold' = TxUntold
  BY <1>1, <1>2, UnrivalledStays, NobodyMoved
<1>4. sent \in Nat /\ Len(txList) \in Nat /\ Len(wire) \in Nat /\ N!Held \in {0, 1} /\ txList \in Seq(Nat)
  BY <1>1, NetTyped DEF NetTypes
<1>5. /\ Len(txList') = Len(txList) + 1 /\ txList' \in Seq(Nat) /\ sent' \in Nat
      /\ \A k \in 1 .. Len(txList) : txList'[k] = txList[k]
      /\ txList'[Len(txList) + 1] = sent + 1
  BY <1>2, <1>4
<1>6. N!InTxRing' = N!InTxRing /\ sent' - Len(txList') = sent - Len(txList)
  BY <1>2, <1>3, <1>4, <1>5 DEF N!InTxRing
<1>7. ASSUME NEW k \in 1 .. Len(txList') PROVE txList'[k] = sent' - Len(txList') + k
  <2>1. CASE k \in 1 .. Len(txList)
    BY <1>1, <1>5, <1>6, <2>1 DEF TxInv
  <2>2. CASE k = Len(txList) + 1
    BY <1>2, <1>4, <1>5, <2>2
  <2> QED
    BY <1>4, <1>5, <2>1, <2>2
<1>8. TxInv'
  BY <1>1, <1>2, <1>3, <1>6, <1>7 DEF TxInv
<1>9. NetTypes'
  BY <1>1, <1>2, <1>5 DEF NetTypes
<1> QED
  BY <1>3, <1>8, <1>9 DEF NetInv

\* The transmit thread takes the first frame of the list.
LEMMA TakeFrameKeeps ==
    ASSUME NetInv, ~cardHalted, N!TakeFrame PROVE NetInv'
<1>1. NetTypes /\ Unrivalled /\ TxInv
  BY DEF NetInv
<1>2. /\ UNCHANGED <<sent, wire, txRing, txCurrent, txHead, txTail, handler, taken, arrived, rxList, rxRing, rxCurrent,
                     rxHead, rxTail, cause, link, competed>>
      /\ worker.pc = "take"
      /\ \/ N!Work("test") /\ UNCHANGED txList
         \/ txList # <<>> /\ txList' = Tail(txList) /\ worker' = [pc |-> "avail", frame |-> Head(txList)]
  BY DEF N!TakeFrame, N!besidesWorker, N!callVars, N!rxQueue, N!rxCard, N!txCard, N!cardVars, N!handlerVars
<1>3. Unrivalled'
  BY <1>1, <1>2, UnrivalledStays
<1>4. CASE N!Work("test") /\ UNCHANGED txList
  <2>1. /\ worker' \in [pc : WorkerPcs, frame : Nat] /\ worker'.pc = "test"
    BY <1>1, <1>2, <1>4 DEF N!Work, NetTypes, WorkerPcs
  <2>2. N!Held' = N!Held /\ TxUntold' = TxUntold /\ N!Held = 0
    BY <1>2, <2>1 DEF N!Held, TxUntold
  <2>3. TxInv'
    BY <1>1, <1>2, <1>4, <2>2, TxStays
  <2> QED
    BY <1>1, <1>2, <1>3, <1>4, <2>1, <2>3 DEF NetInv, NetTypes
<1>5. CASE txList # <<>> /\ txList' = Tail(txList) /\ worker' = [pc |-> "avail", frame |-> Head(txList)]
  <2>1. sent \in Nat /\ Len(wire) \in Nat /\ txList \in Seq(Nat)
    BY <1>1, NetTyped DEF NetTypes
  <2>2. /\ txList' \in Seq(Nat) /\ Head(txList) = txList[1] /\ Head(txList) \in Nat
        /\ \A k \in 1 .. Len(txList') : k + 1 \in 1 .. Len(txList) /\ txList'[k] = txList[k + 1]
    BY <1>5, <2>1, Shorter
  <2>3. PICK l \in Nat : l = Len(txList) /\ Len(txList') = l - 1 /\ l >= 1
    BY <1>5, <2>1, Shorter
  <2>4. N!Held = 0 /\ N!Held' = 1 /\ TxUntold' = TxUntold
    BY <1>2, <1>5 DEF N!Held, TxUntold
  <2>5. N!InTxRing' = N!InTxRing
    <3>1. sent' - Len(wire') - 1 - (l - 1) = sent - Len(wire) - 0 - l
      BY <1>2, <2>1
    <3> QED
      BY <2>3, <2>4, <3>1 DEF N!InTxRing
  <2>6. worker'.frame = sent' - Len(txList')
    <3>1. txList[1] = sent - l + 1
      BY <1>1, <2>3 DEF TxInv
    <3> QED
      BY <1>2, <1>5, <2>1, <2>2, <2>3, <3>1
  <2>7. ASSUME NEW k \in 1 .. Len(txList') PROVE txList'[k] = sent' - Len(txList') + k
    <3>1. txList'[k] = txList[k + 1] /\ k + 1 \in 1 .. Len(txList)
      BY <2>2
    <3>2. txList[k + 1] = sent - l + (k + 1)
      BY <1>1, <2>3, <3>1 DEF TxInv
    <3> QED
      BY <1>2, <2>1, <2>3, <3>1, <3>2
  <2>8. TxInv'
    BY <1>1, <1>2, <2>4, <2>5, <2>6, <2>7 DEF TxInv
  <2>9. NetTypes'
    BY <1>1, <1>2, <1>5, <2>2 DEF NetTypes, WorkerPcs
  <2> QED
    BY <1>3, <2>8, <2>9 DEF NetInv
<1> QED
  BY <1>2, <1>4, <1>5

\* The transmit thread fills its next descriptor, which is done while the ring
\* is not full.
LEMMA FillKeeps ==
    ASSUME NetInv, ~cardHalted, N!EthSendFrame PROVE NetInv'
<1>1. NetTypes /\ Unrivalled /\ TxInv
  BY DEF NetInv
<1>2. /\ UNCHANGED <<sent, wire, txList, txHead, txTail, handler, taken, arrived, rxList, rxRing, rxCurrent, rxHead,
                     rxTail, cause, link, competed>>
      /\ worker.pc = "fill"
      /\ txRing' = [txRing EXCEPT ![txCurrent] = [done |-> FALSE, frame |-> worker.frame]]
      /\ \/ txRing[txCurrent].done /\ txCurrent' = N!TxNext(txCurrent) /\ N!Work("full")
         \/ cardHalted' /\ UNCHANGED <<txCurrent, worker>>
  BY DEF N!EthSendFrame, N!callVars, N!rxQueue, N!txQueue, N!rxCard, N!handlerVars
<1>3. Unrivalled'
  BY <1>1, <1>2, UnrivalledStays
<1>4. PICK n \in Nat \ {0}, h \in 0 .. TxDescriptors - 1, c \in 0 .. TxDescriptors - 1 :
        n = TxDescriptors /\ h = txHead /\ c = txCurrent
  BY <1>1, NetTyped
<1>5. worker \in [pc : WorkerPcs, frame : Nat] /\ txRing \in [0 .. n - 1 -> [done : BOOLEAN, frame : Nat]]
  BY <1>1, <1>4 DEF NetTypes
<1>6. /\ txRing' \in [0 .. n - 1 -> [done : BOOLEAN, frame : Nat]]
      /\ ~txRing'[c].done /\ txRing'[c].frame = worker.frame /\ \A j \in 0 .. n - 1 : j # c => txRing'[j] = txRing[j]
  BY <1>2, <1>4, <1>5
<1>7. CASE cardHalted' /\ UNCHANGED <<txCurrent, worker>>
  BY <1>1, <1>2, <1>4, <1>6, <1>7 DEF NetInv, NetTypes
<1>8. CASE txRing[txCurrent].done /\ txCurrent' = N!TxNext(txCurrent) /\ N!Work("full")
  <2>1. worker' \in [pc : WorkerPcs, frame : Nat] /\ worker'.pc = "full"
    BY <1>5, <1>8 DEF N!Work, WorkerPcs
  <2>2. N!Held = 1 /\ N!Held' = 0 /\ TxUntold = 0 /\ TxUntold' = 1
    BY <1>2, <2>1 DEF N!Held, TxUntold
  <2>3. PICK m \in 0 .. n : m = N!InTxRing /\ c = Shift(h, m, n)
    BY <1>1, <1>4, <2>2 DEF TxInv
  <2>4. m < n
    <3>1. PICK o \in 0 .. n - 1 : o = Offset(h, c, n)
      <4>1. h \in 0 .. n - 1 /\ c \in 0 .. n - 1
        BY <1>4
      <4>2. Offset(h, c, n) \in 0 .. n - 1
        BY <4>1, ShiftOfOffset
      <4> QED
        BY <4>2
    <3>2. ~(o < m)
      BY <1>1, <1>4, <1>8, <2>3, <3>1 DEF TxInv
    <3> QED
      BY <3>1, <3>2
  <2>5. Offset(h, c, n) = m
    BY <1>4, <2>3, <2>4, OffsetOfShift
  <2>6. txCurrent' = Shift(h, m + 1, n) /\ txCurrent' \in 0 .. n - 1
    <3>1. txCurrent' = Shift(c, 1, n)
      BY <1>4, <1>8, NextDescriptors
    <3>2. Shift(c, 1, n) = Shift(h, m + 1, n) /\ Shift(c, 1, n) \in 0 .. n - 1
      BY <1>4, <2>3, <2>4 DEF Shift
    <3> QED
      BY <3>1, <3>2
  <2>7. /\ sent \in Nat /\ Len(wire) \in Nat /\ Len(txList) \in Nat
        /\ m = sent - Len(wire) - 1 - Len(txList) /\ N!InTxRing' = sent - Len(wire) - 0 - Len(txList)
    BY <1>1, <1>2, <2>2, <2>3, NetTyped DEF N!InTxRing
  <2>8. N!InTxRing' = m + 1 /\ worker.frame = Len(wire) + m + 1
    <3>1. worker.frame = sent - Len(txList)
      BY <1>1, <2>2 DEF TxInv
    <3> QED
      BY <2>7, <3>1
  <2>9. ASSUME NEW j \in 0 .. n - 1
        PROVE  /\ ~txRing'[j].done <=> Offset(h, j, n) < m + 1
               /\ ~txRing'[j].done => txRing'[j].frame = Len(wire) + Offset(h, j, n) + 1
    <3>1. PICK o \in 0 .. n - 1 : o = Offset(h, j, n) /\ Shift(h, o, n) = j
      <4>1. h \in 0 .. n - 1
        BY <1>4
      <4>2. Offset(h, j, n) \in 0 .. n - 1 /\ Shift(h, Offset(h, j, n), n) = j
        BY <4>1, ShiftOfOffset
      <4> QED
        BY <4>2
    <3>2. CASE j = c
      BY <1>6, <2>5, <2>8, <3>2
    <3>3. CASE j # c
      <4>1. /\ ~txRing[j].done <=> o < m
            /\ ~txRing[j].done => txRing[j].frame = Len(wire) + o + 1
        BY <1>1, <1>4, <2>3, <3>1 DEF TxInv
      <4>2. o # m
        BY <2>3, <3>1, <3>3
      <4>3. o < m <=> o < m + 1
        BY <4>2
      <4> QED
        BY <1>6, <3>1, <3>3, <4>1, <4>3
    <3> QED
      BY <3>2, <3>3
  <2>10. txTail' = Shift(h, (m + 1) - 1, n)
    <3>1. txTail = Shift(h, m - 0, n)
      BY <1>1, <1>4, <2>2, <2>3 DEF TxInv
    <3>2. m - 0 = m /\ (m + 1) - 1 = m
      OBVIOUS
    <3> QED
      BY <1>2, <3>1, <3>2
  <2>11. m + 1 \in 1 .. n
    BY <2>4
  <2>12. TxInv'
    <3>1. \A k \in 1 .. Len(wire') : wire'[k] = k
      BY <1>1, <1>2 DEF TxInv
    <3>2. \A k \in 1 .. Len(txList') : txList'[k] = sent' - Len(txList') + k
      BY <1>1, <1>2 DEF TxInv
    <3> QED
      BY <1>2, <1>4, <2>2, <2>6, <2>8, <2>9, <2>10, <2>11, <3>1, <3>2 DEF TxInv
  <2>13. NetTypes'
    BY <1>1, <1>2, <1>4, <1>6, <2>1, <2>6 DEF NetTypes
  <2> QED
    BY <1>3, <2>12, <2>13 DEF NetInv
<1> QED
  BY <1>2, <1>7, <1>8

\* The tail tells the card of the descriptor.
LEMMA SetTailKeeps ==
    ASSUME NetInv, ~cardHalted, N!EthSetTxTail PROVE NetInv'
<1>1. NetTypes /\ Unrivalled /\ TxInv
  BY DEF NetInv
<1>2. /\ UNCHANGED <<sent, wire, txList, txRing, txCurrent, txHead, handler, taken, arrived, rxList, rxRing, rxCurrent,
                     rxHead, rxTail, cause, link, competed>>
      /\ worker.pc = "tail" /\ txTail' = txCurrent /\ worker' = [pc |-> "test", frame |-> 0]
  BY DEF N!EthSetTxTail, N!callVars, N!rxQueue, N!txQueue, N!rxCard, N!handlerVars
<1>3. Unrivalled'
  BY <1>1, <1>2, UnrivalledStays
<1>4. N!Held = 0 /\ N!Held' = 0 /\ TxUntold = 1 /\ TxUntold' = 0
  BY <1>2 DEF N!Held, TxUntold
<1>5. N!InTxRing' = N!InTxRing
  BY <1>2, <1>4 DEF N!InTxRing
<1>6. N!InTxRing \in 1 .. TxDescriptors /\ TxDescriptors \in Nat
  BY <1>1, <1>4, CardHasDescriptors DEF TxInv
<1>7. txTail' = Shift(txHead, N!InTxRing - 0, TxDescriptors)
  <2>1. N!InTxRing - 0 = N!InTxRing
    BY <1>6
  <2> QED
    BY <1>1, <1>2, <2>1 DEF TxInv
<1>8. N!InTxRing \in 0 .. TxDescriptors
  BY <1>6
<1>9. TxInv'
  BY <1>1, <1>2, <1>4, <1>5, <1>7, <1>8 DEF TxInv
<1>10. NetTypes'
  BY <1>1, <1>2 DEF NetTypes, WorkerPcs
<1> QED
  BY <1>3, <1>9, <1>10 DEF NetInv

\* The card transmits the frame at its head, which is not done: its tail is
\* never beyond the descriptors that were filled.
LEMMA TransmitKeeps ==
    ASSUME NetInv, ~cardHalted, N!CardTransmits PROVE NetInv'
<1>1. NetTypes /\ Unrivalled /\ TxInv
  BY DEF NetInv
<1>2. /\ UNCHANGED <<sent, txList, txCurrent, txTail, worker, handler, taken, arrived, rxList, rxRing, rxCurrent, rxHead,
                     rxTail, cause, link, competed>>
      /\ txHead # txTail /\ wire' = Append(wire, txRing[txHead].frame)
      /\ txRing' = [txRing EXCEPT ![txHead].done = TRUE] /\ txHead' = N!TxNext(txHead)
  BY DEF N!CardTransmits, N!callVars, N!rxQueue, N!txQueue, N!rxCard, N!workerVars, N!handlerVars
<1>3. Unrivalled' /\ N!Held' = N!Held /\ TxUntold' = TxUntold
  BY <1>1, <1>2, UnrivalledStays, NobodyMoved
<1>4. PICK n \in Nat \ {0}, h \in 0 .. TxDescriptors - 1 : n = TxDescriptors /\ h = txHead
  BY <1>1, NetTyped
<1>5. PICK d \in [done : BOOLEAN, frame : Nat] : d = txRing[h]
  BY <1>1, <1>4 DEF NetTypes
<1>6. PICK u \in {0, 1}, m \in 0 .. n : u = TxUntold /\ m = N!InTxRing /\ m >= u + 1
  <2>1. PICK u \in {0, 1} : u = TxUntold
    BY <1>1, NetTyped
  <2>2. PICK m \in u .. n : m = N!InTxRing /\ txTail = Shift(h, m - u, n)
    BY <1>1, <1>4, <2>1 DEF TxInv
  <2>3. m # u
    <3>1. ASSUME m = u PROVE FALSE
      <4>1. m - u = 0
        BY <2>1, <3>1
      <4>2. Shift(h, 0, n) = h
        BY <1>4 DEF Shift
      <4> QED
        BY <1>2, <1>4, <2>2, <4>1, <4>2
    <3> QED
      BY <3>1
  <2> QED
    BY <2>1, <2>2, <2>3
<1>7. txHead' = Shift(h, 1, n) /\ txHead' \in 0 .. n - 1
  <2>1. txHead' = Shift(h, 1, n)
    BY <1>2, <1>4, NextDescriptors
  <2> QED
    BY <1>4, <2>1 DEF Shift
<1>8. /\ txRing' \in [0 .. n - 1 -> [done : BOOLEAN, frame : Nat]]
      /\ txRing'[h].done /\ \A j \in 0 .. n - 1 : j # h => txRing'[j] = txRing[j]
  <2>1. txRing \in [0 .. n - 1 -> [done : BOOLEAN, frame : Nat]]
    BY <1>1, <1>4 DEF NetTypes
  <2>2. txRing' = [txRing EXCEPT ![h] = [d EXCEPT !.done = TRUE]]
    BY <1>2, <1>4, <1>5
  <2>3. [d EXCEPT !.done = TRUE] \in [done : BOOLEAN, frame : Nat] /\ [d EXCEPT !.done = TRUE].done = TRUE
    OBVIOUS
  <2> QED
    BY <1>4, <2>1, <2>2, <2>3
<1>9. /\ sent \in Nat /\ Len(wire) \in Nat /\ Len(txList) \in Nat /\ N!Held \in {0, 1}
      /\ wire \in Seq(Nat) /\ wire' = Append(wire, d.frame) /\ d.frame \in Nat
  BY <1>1, <1>2, <1>4, <1>5, NetTyped DEF NetTypes
<1>10. /\ wire' \in Seq(Nat) /\ Len(wire') = Len(wire) + 1 /\ wire'[Len(wire) + 1] = d.frame
       /\ \A k \in 1 .. Len(wire) : wire'[k] = wire[k]
  BY <1>9
<1>11. N!InTxRing' = m - 1
  <2>1. m = sent - Len(wire) - N!Held - Len(txList)
    BY <1>6 DEF N!InTxRing
  <2>2. N!InTxRing' = sent - (Len(wire) + 1) - N!Held - Len(txList)
    BY <1>2, <1>3, <1>10 DEF N!InTxRing
  <2> QED
    BY <1>9, <2>1, <2>2
<1>12. d.frame = Len(wire) + 1
  <2>1. Offset(h, h, n) = 0
    BY <1>4 DEF Offset
  <2>2. /\ ~d.done <=> Offset(h, h, n) < m
        /\ ~d.done => d.frame = Len(wire) + Offset(h, h, n) + 1
    BY <1>1, <1>4, <1>5, <1>6 DEF TxInv
  <2> QED
    BY <1>6, <1>9, <2>1, <2>2
<1>13. ASSUME NEW k \in 1 .. Len(wire') PROVE wire'[k] = k
  <2>1. CASE k \in 1 .. Len(wire)
    BY <1>1, <1>10, <2>1 DEF TxInv
  <2>2. CASE k = Len(wire) + 1
    BY <1>10, <1>12, <2>2
  <2> QED
    BY <1>9, <1>10, <2>1, <2>2
<1>14. ASSUME NEW j \in 0 .. n - 1
       PROVE  /\ ~txRing'[j].done <=> Offset(txHead', j, n) < m - 1
              /\ ~txRing'[j].done => txRing'[j].frame = Len(wire') + Offset(txHead', j, n) + 1
  <2>1. Offset(txHead', j, n) = IF j = h THEN n - 1 ELSE Offset(h, j, n) - 1
    BY <1>4, <1>7, OffsetMoves
  <2>2. CASE j = h
    BY <1>4, <1>6, <1>8, <2>1, <2>2
  <2>3. CASE j # h
    <3>1. PICK o \in 0 .. n - 1 : o = Offset(h, j, n)
      BY <1>4, ShiftOfOffset
    <3>2. Offset(txHead', j, n) = o - 1 /\ txRing'[j] = txRing[j]
      BY <1>8, <2>1, <2>3, <3>1
    <3>3. /\ ~txRing[j].done <=> o < m
          /\ ~txRing[j].done => txRing[j].frame = Len(wire) + o + 1
      BY <1>1, <1>4, <1>6, <3>1 DEF TxInv
    <3>4. (o < m <=> o - 1 < m - 1) /\ Len(wire') + (o - 1) + 1 = Len(wire) + o + 1
      BY <1>9, <1>10
    <3> QED
      BY <3>2, <3>3, <3>4
  <2> QED
    BY <2>2, <2>3
<1>15. txCurrent' = Shift(txHead', m - 1, n) /\ txTail' = Shift(txHead', m - 1 - u, n) /\ m - 1 \in u .. n
  <2>1. txCurrent = Shift(h, m, n) /\ txTail = Shift(h, m - u, n)
    BY <1>1, <1>4, <1>6 DEF TxInv
  <2>2. /\ Shift(Shift(h, 1, n), m - 1, n) = Shift(h, m, n)
        /\ Shift(Shift(h, 1, n), m - 1 - u, n) = Shift(h, m - u, n)
    BY <1>4, <1>6 DEF Shift
  <2> QED
    BY <1>2, <1>6, <1>7, <2>1, <2>2
<1>16. TxInv'
  <2>1. /\ N!Held' = 1 => worker'.frame = sent' - Len(txList')
        /\ \A k \in 1 .. Len(txList') : txList'[k] = sent' - Len(txList') + k
    BY <1>1, <1>2, <1>3 DEF TxInv
  <2> QED
    BY <1>3, <1>4, <1>6, <1>11, <1>13, <1>14, <1>15, <2>1 DEF TxInv
<1>17. NetTypes'
  BY <1>1, <1>2, <1>4, <1>7, <1>8, <1>10 DEF NetTypes
<1> QED
  BY <1>3, <1>16, <1>17 DEF NetInv

\* The inductive invariant of the card: both rings are full exactly between
\* where the driver and where the card has got to, and hold the frames there in
\* their order.
THEOREM CardInvariant == CardSteps => []NetInv
<1>1. NetInv /\ [N!NetworkNext]_(N!networkVars) => NetInv'
  <2> SUFFICES ASSUME NetInv, [N!NetworkNext]_(N!networkVars) PROVE NetInv'
    OBVIOUS
  <2>1. CASE N!NetworkNext
    BY <2>1, LookKeeps, ReceiveKeeps, GiveBackKeeps, ArrivalKeeps, QuietSteps, QuietHandlerSteps, InsertsKeep, TakeFrameKeeps, FillKeeps,
       SetTailKeeps, TransmitKeeps DEF N!NetworkNext, N!CallStep, N!WorkerStep, N!HandlerStep
  <2>2. CASE UNCHANGED N!networkVars
    <3>1. UNCHANGED <<sent, wire, txList, txRing, txCurrent, txHead, txTail, taken, arrived, rxList, rxRing, rxCurrent,
                      rxHead, rxTail, worker, handler, cause, link, competed, cardHalted>>
      BY <2>2 DEF N!networkVars, N!callVars, N!rxQueue, N!txQueue, N!rxCard, N!txCard, N!cardVars, N!workerVars,
             N!handlerVars
    <3>2. NetTypes'
      BY <3>1 DEF NetInv, NetTypes
    <3>3. ~cardHalted => Unrivalled' /\ TxInv'
      BY <3>1, UnrivalledStays, TxStays, NobodyMoved DEF NetInv
    <3> QED
      BY <3>1, <3>2, <3>3 DEF NetInv
  <2> QED
    BY <2>1, <2>2
<1> QED
  BY <1>1, NetStarts, PTL DEF CardSteps

\* EthReceiveFrame, NetPortTransmitFunction and the port driver's queues: no
\* frame is lost, duplicated or overtaken in either direction, for any CPUs, rings
\* of any size, any traffic and any changes of the link and the card's status, as
\* long as no ASSERT failed and, for received frames, no two CPUs were in
\* EthReceiveFrame.
THEOREM FramesStayInOrder == CardSteps => []FramesKeepTheirOrder
<1> QED
  BY CardInvariant, NetInvOrders, PTL

-----------------------------------------------------------------------------
(* Inter-processor events, the card and device interrupts beside each      *)
(* other.                                                                  *)

\* A behaviour of the composition is one of ipc.c, one of the network card and
\* one of the device interrupts: each leaves the variables of the others alone.
LEMMA InterruptsImplementsAll == InterruptsSpec => SmpSteps /\ CardSteps /\ I!IoInterruptsSpec
<1>1. InterruptsInit => SmpInit /\ N!NetworkInit /\ I!IoInterruptsInit
  BY DEF InterruptsInit
<1>2. UNCHANGED ioVars => UNCHANGED I!ioInterruptVars
  BY DEF ioVars, I!ioInterruptVars, I!routeVars, I!deviceVars
<1>3. UNCHANGED cardVars => UNCHANGED N!networkVars
  BY DEF cardVars, N!networkVars, N!callVars, N!portVars, N!rxQueue, N!txQueue, N!cardVars, N!rxCard, N!txCard,
         N!workerVars, N!handlerVars
<1>4. InterruptsNext => [Next]_vars /\ [N!NetworkNext]_(N!networkVars) /\ [I!IoInterruptsNext]_(I!ioInterruptVars)
  BY <1>2, <1>3 DEF InterruptsNext
<1>5. UNCHANGED <<object, vars, cardVars, ioVars>> =>
          UNCHANGED vars /\ UNCHANGED N!networkVars /\ UNCHANGED I!ioInterruptVars
  BY <1>2, <1>3
<1> QED
  BY <1>1, <1>4, <1>5, PTL DEF InterruptsSpec, SmpSteps, CardSteps, I!IoInterruptsSpec

\* What the composition's run checks of ipc.c, smp.c, the network card and iomu.c
\* holds for any CPUs, senders, rings, drivers and lines: events outlive their
\* use, a handler finds one, a wait means that every CPU ran the function, frames
\* keep their order, and devices reach their routines.
THEOREM InterruptsAreSafe ==
    InterruptsSpec =>
        /\ [](EventsOutliveTheirUse /\ HandlerFindsEvent /\ FramesKeepTheirOrder /\ InterruptsReachTheirRoutine)
        /\ WaitMeansHandled
<1> QED
  BY InterruptsImplementsAll, EventsAreNotFreedInUse, ListsAnswerRequests, WaitersFindItHandled, FramesStayInOrder,
     DevicesAreServed, PTL
=============================================================================
