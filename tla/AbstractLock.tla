---------------------------- MODULE AbstractLock ----------------------------
(***************************************************************************)
(* What a LOCK promises its users: at every moment it belongs to at most   *)
(* one CPU, it is granted only while it is free, and only its owner gives  *)
(* it back.  The modules above the lock layer (Scheduler, ExEvent, Mutex)  *)
(* use locks through this promise; Spinlock is shown to implement it.      *)
(***************************************************************************)
CONSTANTS CPUs,   \* the processors
          NoCpu   \* "nobody"

VARIABLE owner    \* the CPU the lock belongs to, or NoCpu

LockInit == owner = NoCpu

Grant(c) == owner = NoCpu /\ owner' = c

GiveBack(c) == owner = c /\ owner' = NoCpu

LockNext == \E c \in CPUs : Grant(c) \/ GiveBack(c)

LockSpec == LockInit /\ [][LockNext]_owner
=============================================================================
