--------------------------- MODULE SpinlockProofs ---------------------------
(***************************************************************************)
(* Proofs about Spinlock, for any set of CPUs and both lock flavours.      *)
(***************************************************************************)
EXTENDS Spinlock, TLAPS

\* A CPU is inside the lock code in at most the context it executes, with
\* interrupts off, and a handler remembers that they were off.
ContextInv ==
    \A c \in CPUs, x \in Contexts :
        /\ pc[c][x] # "out" => ctx[c] = x /\ ~intr[c]
        /\ ctx[c] = "isr" => ~intr[c]
        /\ x = "isr" /\ pc[c][x] # "out" => ~IntrState[c][x]

\* State says whether the lock is owned, and Holder by whom.
FreeInv ==
    State = "free" => \A c \in CPUs, x \in Contexts : pc[c][x] \notin Owning

OwnerInv ==
    /\ FreeInv
    /\ LockExclusion
    /\ IsOwnerIsExact

\* The inductive invariant.
SpinlockInv == SpinlockTypeOK /\ ContextInv /\ OwnerInv

\* LockInit establishes the inductive invariant.
LEMMA SpinlockInitInv == ASSUME SpinlockAssumption PROVE SpinlockInit => SpinlockInv
BY SpinlockAssumption
DEF SpinlockAssumption, SpinlockInit, SpinlockInv, SpinlockTypeOK, ContextInv, OwnerInv,
    FreeInv, LockExclusion, IsOwnerIsExact, Contexts, Labels, Owning

\* What a jump does to the program counters, and what remembering the
\* interrupt flag does to IntrState.
LEMMA GotoFacts ==
    ASSUME SpinlockTypeOK, NEW c \in CPUs, NEW x \in Contexts,
           NEW to \in Labels, Goto(c, x, to)
    PROVE  /\ pc' \in [CPUs -> [Contexts -> Labels]]
           /\ \A d \in CPUs, y \in Contexts :
                  pc'[d][y] = IF d = c /\ y = x THEN to ELSE pc[d][y]
BY DEF SpinlockTypeOK, Goto

\* The same for the interrupt state an acquire remembers.
LEMMA IntrStateFacts ==
    ASSUME SpinlockTypeOK, NEW c \in CPUs, NEW x \in Contexts,
           IntrState' = [IntrState EXCEPT ![c][x] = intr[c]]
    PROVE  /\ IntrState' \in [CPUs -> [Contexts -> BOOLEAN]]
           /\ \A d \in CPUs, y \in Contexts :
                  IntrState'[d][y] =
                      IF d = c /\ y = x THEN intr[c] ELSE IntrState[d][y]
BY DEF SpinlockTypeOK

\* Every instruction of the lock code, and every interrupt, keeps the invariant.
LEMMA SpinlockStep ==
    ASSUME SpinlockAssumption PROVE SpinlockInv /\ [SpinlockNext]_lockVars => SpinlockInv'
<1> SUFFICES ASSUME SpinlockInv, [SpinlockNext]_lockVars
             PROVE  SpinlockInv'
  OBVIOUS
<1>0. SpinlockTypeOK /\ ContextInv /\ OwnerInv
  BY DEF SpinlockInv
<1> USE SpinlockAssumption DEF SpinlockAssumption
<1>1. ASSUME NEW c \in CPUs, Interrupt(c) PROVE SpinlockInv'
  BY <1>0, <1>1 DEF Interrupt, SpinlockInv, SpinlockTypeOK, ContextInv,
     OwnerInv, FreeInv, LockExclusion, IsOwnerIsExact, Contexts
<1>2. ASSUME NEW c \in CPUs, InterruptReturn(c) PROVE SpinlockInv'
  BY <1>0, <1>2 DEF InterruptReturn, SpinlockInv, SpinlockTypeOK, ContextInv,
     OwnerInv, FreeInv, LockExclusion, IsOwnerIsExact, Contexts, At
<1>3. ASSUME NEW c \in CPUs, NEW x \in Contexts, Acquire(c, x)
      PROVE  SpinlockInv'
  <2>1. /\ pc' \in [CPUs -> [Contexts -> Labels]]
        /\ \A d \in CPUs, y \in Contexts :
               pc'[d][y] = IF d = c /\ y = x THEN "cas" ELSE pc[d][y]
    BY <1>0, <1>3, GotoFacts DEF Acquire, Labels
  <2>2. /\ IntrState' \in [CPUs -> [Contexts -> BOOLEAN]]
        /\ \A d \in CPUs, y \in Contexts :
               IntrState'[d][y] =
                   IF d = c /\ y = x THEN intr[c] ELSE IntrState[d][y]
    BY <1>0, <1>3, IntrStateFacts DEF Acquire
  <2>3. SpinlockTypeOK'
    BY <1>0, <1>3, <2>1, <2>2 DEF Acquire, SpinlockTypeOK
  <2>4. ContextInv'
    BY <1>0, <1>3, <2>1, <2>2 DEF Acquire, SpinlockTypeOK, ContextInv, Contexts, At
  <2>5. FreeInv'
    BY <1>0, <1>3, <2>1
    DEF Acquire, FreeInv, OwnerInv, LockExclusion, Owning, At
  <2>6. LockExclusion'
    BY <1>0, <1>3, <2>1
    DEF FreeInv, OwnerInv, LockExclusion, Owning
  <2>7. IsOwnerIsExact'
    BY <1>0, <1>3, <2>1
    DEF Acquire, OwnerInv, LockExclusion, IsOwnerIsExact, Owning, At, Contexts
  <2> QED
    BY <2>3, <2>4, <2>5, <2>6, <2>7 DEF SpinlockInv, OwnerInv
<1>4. ASSUME NEW c \in CPUs, NEW x \in Contexts, TryAcquire(c, x), State = "free"
      PROVE  SpinlockInv'
  <2>1. /\ pc' \in [CPUs -> [Contexts -> Labels]]
        /\ \A d \in CPUs, y \in Contexts :
               pc'[d][y] = IF d = c /\ y = x THEN "claim" ELSE pc[d][y]
    BY <1>0, <1>4, GotoFacts DEF TryAcquire, Labels
  <2>2. /\ IntrState' \in [CPUs -> [Contexts -> BOOLEAN]]
        /\ \A d \in CPUs, y \in Contexts :
               IntrState'[d][y] =
                   IF d = c /\ y = x THEN intr[c] ELSE IntrState[d][y]
    BY <1>0, <1>4, IntrStateFacts DEF TryAcquire
  <2>3. SpinlockTypeOK'
    BY <1>0, <1>4, <2>1, <2>2 DEF TryAcquire, SpinlockTypeOK
  <2>4. ContextInv'
    BY <1>0, <1>4, <2>1, <2>2 DEF TryAcquire, SpinlockTypeOK, ContextInv, Contexts, At
  <2>5. FreeInv'
    BY <1>0, <1>4, <2>1
    DEF TryAcquire, FreeInv, OwnerInv, LockExclusion, Owning, At
  <2>6. LockExclusion'
    BY <1>0, <1>4, <2>1
    DEF FreeInv, OwnerInv, LockExclusion, Owning
  <2>7. IsOwnerIsExact'
    BY <1>0, <1>4, <2>1
    DEF TryAcquire, OwnerInv, LockExclusion, IsOwnerIsExact, Owning, At, Contexts
  <2> QED
    BY <2>3, <2>4, <2>5, <2>6, <2>7 DEF SpinlockInv, OwnerInv
<1>5. ASSUME NEW c \in CPUs, NEW x \in Contexts, CompareExchange(c, x), State = "free"
      PROVE  SpinlockInv'
  <2>1. /\ pc' \in [CPUs -> [Contexts -> Labels]]
        /\ \A d \in CPUs, y \in Contexts :
               pc'[d][y] = IF d = c /\ y = x THEN "claim" ELSE pc[d][y]
    BY <1>0, <1>5, GotoFacts DEF CompareExchange, Labels
  <2>3. SpinlockTypeOK'
    BY <1>0, <1>5, <2>1 DEF CompareExchange, SpinlockTypeOK
  <2>4. ContextInv'
    BY <1>0, <1>5, <2>1 DEF CompareExchange, SpinlockTypeOK, ContextInv, Contexts, At
  <2>5. FreeInv'
    BY <1>0, <1>5, <2>1
    DEF CompareExchange, FreeInv, OwnerInv, LockExclusion, Owning, At
  <2>6. LockExclusion'
    BY <1>0, <1>5, <2>1
    DEF CompareExchange, FreeInv, OwnerInv, LockExclusion, Owning, At
  <2>7. IsOwnerIsExact'
    BY <1>0, <1>5, <2>1
    DEF CompareExchange, OwnerInv, LockExclusion, IsOwnerIsExact, Owning, At, Contexts
  <2> QED
    BY <2>3, <2>4, <2>5, <2>6, <2>7 DEF SpinlockInv, OwnerInv
<1>6. ASSUME NEW c \in CPUs, NEW x \in Contexts, CompareExchange(c, x), State = "taken"
      PROVE  SpinlockInv'
  <2>1. /\ pc' \in [CPUs -> [Contexts -> Labels]]
        /\ \A d \in CPUs, y \in Contexts :
               pc'[d][y] = IF d = c /\ y = x THEN "mwait" ELSE pc[d][y]
    BY <1>0, <1>6, GotoFacts DEF CompareExchange, Labels
  <2>3. SpinlockTypeOK'
    BY <1>0, <1>6, <2>1 DEF CompareExchange, SpinlockTypeOK
  <2>4. ContextInv'
    BY <1>0, <1>6, <2>1 DEF CompareExchange, SpinlockTypeOK, ContextInv, Contexts, At
  <2>5. FreeInv'
    BY <1>0, <1>6, <2>1
    DEF CompareExchange, FreeInv, OwnerInv, LockExclusion, Owning, At
  <2>6. LockExclusion'
    BY <1>0, <1>6, <2>1
    DEF CompareExchange, FreeInv, OwnerInv, LockExclusion, Owning, At
  <2>7. IsOwnerIsExact'
    BY <1>0, <1>6, <2>1
    DEF CompareExchange, OwnerInv, LockExclusion, IsOwnerIsExact, Owning, At, Contexts
  <2> QED
    BY <2>3, <2>4, <2>5, <2>6, <2>7 DEF SpinlockInv, OwnerInv
<1>7. ASSUME NEW c \in CPUs, NEW x \in Contexts, Mwait(c, x)
      PROVE  SpinlockInv'
  <2>1. /\ pc' \in [CPUs -> [Contexts -> Labels]]
        /\ \A d \in CPUs, y \in Contexts :
               pc'[d][y] = IF d = c /\ y = x THEN "asleep" ELSE pc[d][y]
    BY <1>0, <1>7, GotoFacts DEF Mwait, Labels
  <2>3. SpinlockTypeOK'
    BY <1>0, <1>7, <2>1 DEF Mwait, SpinlockTypeOK
  <2>4. ContextInv'
    BY <1>0, <1>7, <2>1 DEF Mwait, SpinlockTypeOK, ContextInv, Contexts, At
  <2>5. FreeInv'
    BY <1>0, <1>7, <2>1
    DEF Mwait, FreeInv, OwnerInv, LockExclusion, Owning, At
  <2>6. LockExclusion'
    BY <1>0, <1>7, <2>1
    DEF Mwait, FreeInv, OwnerInv, LockExclusion, Owning, At
  <2>7. IsOwnerIsExact'
    BY <1>0, <1>7, <2>1
    DEF Mwait, OwnerInv, LockExclusion, IsOwnerIsExact, Owning, At, Contexts
  <2> QED
    BY <2>3, <2>4, <2>5, <2>6, <2>7 DEF SpinlockInv, OwnerInv
<1>8. ASSUME NEW c \in CPUs, NEW x \in Contexts, MonitorWake(c, x)
      PROVE  SpinlockInv'
  <2>1. /\ pc' \in [CPUs -> [Contexts -> Labels]]
        /\ \A d \in CPUs, y \in Contexts :
               pc'[d][y] = IF d = c /\ y = x THEN "cas" ELSE pc[d][y]
    BY <1>0, <1>8, GotoFacts DEF MonitorWake, Labels
  <2>3. SpinlockTypeOK'
    BY <1>0, <1>8, <2>1 DEF MonitorWake, SpinlockTypeOK
  <2>4. ContextInv'
    BY <1>0, <1>8, <2>1 DEF MonitorWake, SpinlockTypeOK, ContextInv, Contexts, At
  <2>5. FreeInv'
    BY <1>0, <1>8, <2>1
    DEF MonitorWake, FreeInv, OwnerInv, LockExclusion, Owning, At
  <2>6. LockExclusion'
    BY <1>0, <1>8, <2>1
    DEF MonitorWake, FreeInv, OwnerInv, LockExclusion, Owning, At
  <2>7. IsOwnerIsExact'
    BY <1>0, <1>8, <2>1
    DEF MonitorWake, OwnerInv, LockExclusion, IsOwnerIsExact, Owning, At, Contexts
  <2> QED
    BY <2>3, <2>4, <2>5, <2>6, <2>7 DEF SpinlockInv, OwnerInv
<1>9. ASSUME NEW c \in CPUs, NEW x \in Contexts, Claim(c, x)
      PROVE  SpinlockInv'
  <2>1. /\ pc' \in [CPUs -> [Contexts -> Labels]]
        /\ \A d \in CPUs, y \in Contexts :
               pc'[d][y] = IF d = c /\ y = x THEN "held" ELSE pc[d][y]
    BY <1>0, <1>9, GotoFacts DEF Claim, Labels
  <2>3. SpinlockTypeOK'
    BY <1>0, <1>9, <2>1 DEF Claim, SpinlockTypeOK
  <2>4. ContextInv'
    BY <1>0, <1>9, <2>1 DEF Claim, SpinlockTypeOK, ContextInv, Contexts, At
  <2>5. FreeInv'
    BY <1>0, <1>9, <2>1
    DEF Claim, FreeInv, OwnerInv, LockExclusion, Owning, At
  <2>6. LockExclusion'
    BY <1>0, <1>9, <2>1
    DEF Claim, FreeInv, OwnerInv, LockExclusion, Owning, At
  <2>7. IsOwnerIsExact'
    BY <1>0, <1>9, <2>1
    DEF Claim, OwnerInv, LockExclusion, IsOwnerIsExact, Owning, At, Contexts
  <2> QED
    BY <2>3, <2>4, <2>5, <2>6, <2>7 DEF SpinlockInv, OwnerInv
<1>10. ASSUME NEW c \in CPUs, NEW x \in Contexts, Unclaim(c, x)
      PROVE  SpinlockInv'
  <2>1. /\ pc' \in [CPUs -> [Contexts -> Labels]]
        /\ \A d \in CPUs, y \in Contexts :
               pc'[d][y] = IF d = c /\ y = x THEN "free" ELSE pc[d][y]
    BY <1>0, <1>10, GotoFacts DEF Unclaim, Labels
  <2>3. SpinlockTypeOK'
    BY <1>0, <1>10, <2>1 DEF Unclaim, SpinlockTypeOK
  <2>4. ContextInv'
    BY <1>0, <1>10, <2>1 DEF Unclaim, SpinlockTypeOK, ContextInv, Contexts, At
  <2>5. FreeInv'
    BY <1>0, <1>10, <2>1
    DEF Unclaim, FreeInv, OwnerInv, LockExclusion, Owning, At
  <2>6. LockExclusion'
    BY <1>0, <1>10, <2>1
    DEF Unclaim, FreeInv, OwnerInv, LockExclusion, Owning, At
  <2>7. IsOwnerIsExact'
    BY <1>0, <1>10, <2>1
    DEF Unclaim, OwnerInv, LockExclusion, IsOwnerIsExact, Owning, At, Contexts
  <2> QED
    BY <2>3, <2>4, <2>5, <2>6, <2>7 DEF SpinlockInv, OwnerInv
<1>11. ASSUME NEW c \in CPUs, NEW x \in Contexts, Free(c, x)
      PROVE  SpinlockInv'
  <2>1. /\ pc' \in [CPUs -> [Contexts -> Labels]]
        /\ \A d \in CPUs, y \in Contexts :
               pc'[d][y] = IF d = c /\ y = x THEN "restore" ELSE pc[d][y]
    BY <1>0, <1>11, GotoFacts DEF Free, Labels
  <2>3. SpinlockTypeOK'
    BY <1>0, <1>11, <2>1 DEF Free, SpinlockTypeOK
  <2>4. ContextInv'
    BY <1>0, <1>11, <2>1 DEF Free, SpinlockTypeOK, ContextInv, Contexts, At
  <2>5. FreeInv'
    BY <1>0, <1>11, <2>1
    DEF Free, FreeInv, OwnerInv, LockExclusion, Owning, At
  <2>6. LockExclusion'
    BY <1>0, <1>11, <2>1
    DEF Free, FreeInv, OwnerInv, LockExclusion, Owning, At
  <2>7. IsOwnerIsExact'
    BY <1>0, <1>11, <2>1
    DEF Free, OwnerInv, LockExclusion, IsOwnerIsExact, Owning, At, Contexts
  <2> QED
    BY <2>3, <2>4, <2>5, <2>6, <2>7 DEF SpinlockInv, OwnerInv
<1>12. ASSUME NEW c \in CPUs, NEW x \in Contexts, Restore(c, x)
      PROVE  SpinlockInv'
  <2>1. /\ pc' \in [CPUs -> [Contexts -> Labels]]
        /\ \A d \in CPUs, y \in Contexts :
               pc'[d][y] = IF d = c /\ y = x THEN "out" ELSE pc[d][y]
    BY <1>0, <1>12, GotoFacts DEF Restore, Labels
  <2>3. SpinlockTypeOK'
    <3>1. intr' \in [CPUs -> BOOLEAN]
      <4>1. IntrState[c][x] \in BOOLEAN
        BY <1>0 DEF SpinlockTypeOK
      <4> QED
        BY <1>0, <1>12, <4>1 DEF Restore, SpinlockTypeOK
    <3> QED
      BY <1>0, <1>12, <2>1, <3>1 DEF Restore, SpinlockTypeOK
  <2>4. ContextInv'
    BY <1>0, <1>12, <2>1 DEF Restore, SpinlockTypeOK, ContextInv, Contexts, At
  <2>5. FreeInv'
    BY <1>0, <1>12, <2>1
    DEF Restore, FreeInv, OwnerInv, LockExclusion, Owning, At
  <2>6. LockExclusion'
    BY <1>0, <1>12, <2>1
    DEF Restore, FreeInv, OwnerInv, LockExclusion, Owning, At
  <2>7. IsOwnerIsExact'
    BY <1>0, <1>12, <2>1
    DEF Restore, OwnerInv, LockExclusion, IsOwnerIsExact, Owning, At, Contexts
  <2> QED
    BY <2>3, <2>4, <2>5, <2>6, <2>7 DEF SpinlockInv, OwnerInv
<1>13. ASSUME NEW c \in CPUs, NEW x \in Contexts,
             TryAcquire(c, x), State = "taken"
       PROVE  UNCHANGED lockVars
  BY <1>13 DEF TryAcquire, lockVars
<1>14. CASE UNCHANGED lockVars
  BY <1>0, <1>14
  DEF lockVars, SpinlockInv, SpinlockTypeOK, ContextInv, OwnerInv, FreeInv,
      LockExclusion, IsOwnerIsExact
<1> QED
  BY <1>0, <1>1, <1>2, <1>3, <1>4, <1>5, <1>6, <1>7, <1>8, <1>9,
     <1>10, <1>11, <1>12, <1>13, <1>14
  DEF SpinlockNext, Progress, SpinlockTypeOK

\* The lock words and the program counters stay consistent at every step of
\* spinlock.c and monlock.c.
THEOREM SpinlockInvariant ==
    ASSUME SpinlockAssumption PROVE SpinlockSpec => []SpinlockInv
BY SpinlockInitInv, SpinlockStep, PTL DEF SpinlockSpec

\* SpinlockTypeOK holds for every set of CPUs.
THEOREM SpinlockTypeCorrect ==
    ASSUME SpinlockAssumption PROVE SpinlockSpec => []SpinlockTypeOK
BY SpinlockInvariant, PTL DEF SpinlockInv

\* At most one context of one CPU owns the lock.
THEOREM SpinlockExclusion ==
    ASSUME SpinlockAssumption PROVE SpinlockSpec => []LockExclusion
BY SpinlockInvariant, PTL DEF SpinlockInv, OwnerInv

\* SpinlockIsOwner answers correctly on every CPU at every moment.
THEOREM SpinlockOwnerExact ==
    ASSUME SpinlockAssumption PROVE SpinlockSpec => []IsOwnerIsExact
BY SpinlockInvariant, PTL DEF SpinlockInv, OwnerInv

\* The lock is safe to use from interrupt handlers.  The assert that opens
\* LockAcquire cannot fail: interrupts are off on the Holder, so nothing else on
\* that CPU can ask for the lock.  LockRelease's assert that interrupts are off
\* holds too, and a handler's release never enables them.
THEOREM SpinlockInterruptSafe ==
    ASSUME SpinlockAssumption PROVE SpinlockSpec => []InterruptSafe
<1>1. SpinlockInv => NoSelfDeadlock
  BY DEF SpinlockInv, ContextInv, NoSelfDeadlock, Owning, Contexts
<1>2. SpinlockInv => IntrOffInside
  BY DEF SpinlockInv, ContextInv, IntrOffInside, Contexts
<1> QED
  BY <1>1, <1>2, SpinlockInvariant, PTL DEF InterruptSafe

-----------------------------------------------------------------------------
(* Spinlock implements AbstractLock.                                       *)

\* What OwnerIn returns when at most one context owns the lock.
LEMMA OwnerOf ==
    ASSUME NEW p,
           \A c, d \in CPUs : \A x, y \in Contexts :
               p[c][x] \in Owning /\ p[d][y] \in Owning => c = d /\ x = y
    PROVE  /\ \A c \in CPUs, x \in Contexts :
                  p[c][x] \in Owning => OwnerIn(p) = c
           /\ (\A c \in CPUs, x \in Contexts : p[c][x] \notin Owning)
                  => OwnerIn(p) = NoCpu
<1>1. ASSUME NEW c \in CPUs, NEW x \in Contexts, p[c][x] \in Owning
      PROVE  OwnerIn(p) = c
  <2> DEFINE P(d) == \E y \in Contexts : p[d][y] \in Owning
  <2>1. P(c)
    BY <1>1
  <2>2. \A d \in CPUs : P(d) => d = c
    BY <1>1
  <2>3. (CHOOSE d \in CPUs : P(d)) = c
    <3> HIDE DEF P
    <3> QED BY <2>1, <2>2
  <2> QED
    BY <2>1, <2>3 DEF OwnerIn
<1> QED
  BY <1>1 DEF OwnerIn

\* A step that moves no context into or out of Owning keeps the owner.
LEMMA SameOwner ==
    ASSUME LockExclusion, LockExclusion',
           \A c \in CPUs, x \in Contexts :
               pc'[c][x] \in Owning <=> pc[c][x] \in Owning
    PROVE  OwnerIn(pc') = OwnerIn(pc)
<1>1. CASE \E c \in CPUs : \E x \in Contexts : pc[c][x] \in Owning
  <2> PICK c \in CPUs, x \in Contexts : pc[c][x] \in Owning
    BY <1>1
  <2>1. OwnerIn(pc) = c
    BY OwnerOf DEF LockExclusion
  <2>2. OwnerIn(pc') = c
    BY OwnerOf DEF LockExclusion
  <2> QED
    BY <2>1, <2>2
<1>2. CASE \A c \in CPUs : \A x \in Contexts : pc[c][x] \notin Owning
  BY <1>2 DEF OwnerIn
<1> QED
  BY <1>1, <1>2

\* Every step is a grant, a give-back or a stutter of AbstractLock.
LEMMA SpinlockStepRefines ==
    ASSUME SpinlockInv, SpinlockInv', [SpinlockNext]_lockVars
    PROVE  [Abstract!LockNext]_(OwnerIn(pc))
<1>0. LockExclusion /\ LockExclusion'
  BY DEF SpinlockInv, OwnerInv
<1> USE DEF Owning, Contexts, SpinlockInv, SpinlockTypeOK, At, Goto
<1>1. ASSUME NEW c \in CPUs, NEW x \in Contexts,
             pc[c][x] \notin Owning, pc'[c][x] \in Owning, State = "free"
      PROVE  Abstract!LockNext
  <2>1. OwnerIn(pc) = NoCpu
    BY <1>0, <1>1, OwnerOf DEF LockExclusion, OwnerInv, FreeInv
  <2>2. OwnerIn(pc') = c
    BY <1>0, <1>1, OwnerOf DEF LockExclusion
  <2> QED
    BY <2>1, <2>2 DEF Abstract!LockNext, Abstract!Grant
<1>2. ASSUME NEW c \in CPUs, NEW x \in Contexts,
             pc[c][x] \in Owning, pc' = [pc EXCEPT ![c][x] = "restore"]
      PROVE  Abstract!LockNext
  <2>1. OwnerIn(pc) = c
    BY <1>0, <1>2, OwnerOf DEF LockExclusion
  <2>2. \A d \in CPUs, y \in Contexts : pc'[d][y] \notin Owning
    BY <1>0, <1>2 DEF LockExclusion
  <2>3. OwnerIn(pc') = NoCpu
    BY <1>0, <2>2, OwnerOf DEF LockExclusion
  <2> QED
    BY <2>1, <2>3 DEF Abstract!LockNext, Abstract!GiveBack
<1>3. ASSUME \A d \in CPUs, y \in Contexts :
                 pc'[d][y] \in Owning <=> pc[d][y] \in Owning
      PROVE  UNCHANGED OwnerIn(pc)
  BY <1>0, <1>3, SameOwner
<1>4. ASSUME NEW c \in CPUs, Interrupt(c) \/ InterruptReturn(c)
      PROVE  UNCHANGED OwnerIn(pc)
  BY <1>3, <1>4 DEF Interrupt, InterruptReturn
<1>5. ASSUME NEW c \in CPUs, NEW x \in Contexts,
             \/ Acquire(c, x) \/ Mwait(c, x) \/ MonitorWake(c, x)
             \/ Claim(c, x) \/ Unclaim(c, x) \/ Restore(c, x)
      PROVE  UNCHANGED OwnerIn(pc)
  <2>1. \A d \in CPUs, y \in Contexts :
            pc'[d][y] \in Owning <=> pc[d][y] \in Owning
    BY <1>5 DEF Acquire, Mwait, MonitorWake, Claim, Unclaim, Restore
  <2> QED
    BY <1>3, <2>1
<1>6. ASSUME NEW c \in CPUs, NEW x \in Contexts,
             TryAcquire(c, x) \/ CompareExchange(c, x)
      PROVE  Abstract!LockNext \/ UNCHANGED OwnerIn(pc)
  <2>1. CASE State = "free"
    <3>1. pc[c][x] \notin Owning /\ pc'[c][x] \in Owning
      BY <1>6, <2>1 DEF TryAcquire, CompareExchange
    <3> QED
      BY <1>1, <2>1, <3>1
  <2>2. CASE State # "free"
    <3>1. \A d \in CPUs, y \in Contexts :
              pc'[d][y] \in Owning <=> pc[d][y] \in Owning
      BY <1>6, <2>2 DEF TryAcquire, CompareExchange
    <3> QED
      BY <1>3, <3>1
  <2> QED
    BY <2>1, <2>2
<1>7. ASSUME NEW c \in CPUs, NEW x \in Contexts, Free(c, x)
      PROVE  Abstract!LockNext
  BY <1>2, <1>7 DEF Free
<1>8. CASE UNCHANGED lockVars
  BY <1>3, <1>8 DEF lockVars
<1> QED
  BY <1>4, <1>5, <1>6, <1>7, <1>8 DEF SpinlockNext, Progress

\* The refinement: seen from outside, spinlock.c and monlock.c are the lock of
\* AbstractLock, for every set of CPUs.
THEOREM SpinlockImplementsLock ==
    ASSUME SpinlockAssumption PROVE SpinlockSpec => ImplementsLock
<1>1. SpinlockInit => Abstract!LockInit
  BY DEF SpinlockInit, Abstract!LockInit, OwnerIn, Owning
<1>2. SpinlockInv /\ SpinlockInv' /\ [SpinlockNext]_lockVars
        => [Abstract!LockNext]_(OwnerIn(pc))
  BY SpinlockStepRefines
<1> QED
  BY <1>1, <1>2, SpinlockInvariant, PTL
  DEF SpinlockSpec, ImplementsLock, Abstract!LockSpec
=============================================================================
