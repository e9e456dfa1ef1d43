---------------------------- MODULE StorageProofs ---------------------------
(***************************************************************************)
(* Proofs about Storage, for any number of threads, CPUs and volumes, any  *)
(* partitions and any requests.                                            *)
(***************************************************************************)
EXTENDS Storage, TLAPS

\* Where a request is: on its way down, in AtaReadWriteSectors, waiting for
\* the transfer there, or on its way up.
Down == {"fs", "vol", "disk", "ata"}
InTransfer == {"prepare", "try", "link", "blocked", "ready"}
Waits == {"try", "link", "blocked"}
Up == {"leave fs", "leave vol", "leave disk", "leave ata"}
Ata == <<"ata", 0>>

\* The values the variables can take; an IRP is completed on the way up.
IrpStatus == {"pending", "refused", "error", "success"}
Irps == [pc : Down \union InTransfer \union Up, v : Volumes, offset : Nat, length : Nat,
         async : BOOLEAN, aligned : BOOLEAN, completed : 0 .. 1, status : IrpStatus]
Types ==
    /\ DeviceLock \in [Devices -> Threads \union {Nobody}]
    /\ th \in [Threads -> Irps \union {Out}]
    /\ \A t \in Threads : th[t].pc \in Down \union InTransfer => th[t].completed = 0
    /\ CurrentTransfer \in [State : {"Free", "InProgress", "Finished"}, Prdt : BOOLEAN, sectors : SUBSET Nat]
    /\ isr \in [CPUs -> {"out", "signal", "clear"}]
    /\ Signaled \in BOOLEAN /\ busy \in BOOLEAN /\ irq \in BOOLEAN
    /\ waiting \in Threads \union {Nobody}

\* A request in the ATA driver holds the lock of its device, so there is one.
LockInv == \A t \in Threads : th[t].pc \in InTransfer \union {"leave ata"} => DeviceLock[Ata] = t

\* A transfer that was started is in one of five stages: the device is busy,
\* its interrupt is on the way, a handler is about to signal, TransferReady is
\* signaled, or the request is back from its wait.
Started == \E t \in Threads : th[t].pc \in Waits
TransferInv ==
    /\ (\A t \in Threads : th[t].pc \notin InTransfer) => CurrentTransfer.State = "Free"
    /\ \A t \in Threads : th[t].pc = "prepare" => CurrentTransfer.State = "InProgress"
    /\ busy \/ irq => Started /\ CurrentTransfer.State = "InProgress" /\ CurrentTransfer.Prdt
    /\ ~(busy /\ irq)
    /\ \A c \in CPUs : isr[c] = "signal" =>
          /\ Started /\ CurrentTransfer.State = "Finished" /\ CurrentTransfer.Prdt /\ ~Signaled
          /\ \A d \in CPUs : isr[d] = "signal" => d = c
    /\ Signaled => Started /\ CurrentTransfer.State = "Finished" /\ CurrentTransfer.Prdt
    /\ \A t \in Threads : th[t].pc = "ready" => CurrentTransfer.State = "Finished" /\ CurrentTransfer.Prdt
    /\ waiting # Nobody => th[waiting].pc = "blocked"

\* The inductive invariant.
StorageInv == Types /\ LockInv /\ TransferInv /\ ~halted

-----------------------------------------------------------------------------
\* A thread in a call has an IRP.
LEMMA RequestIsIrp ==
    ASSUME StorageInv, NEW t \in Threads, th[t].pc # "out"
    PROVE  th[t] \in Irps
BY DEF StorageInv, Types, Out

\* The devices of a stack are four, and ATA is the last.
LEMMA StackOfDevices ==
    ASSUME StorageInv, NEW t \in Threads, th[t].pc # "out"
    PROVE  LET s == Stack(th[t].v)
           IN  /\ s[1] \in Devices /\ s[2] \in Devices /\ s[3] \in Devices /\ s[4] \in Devices
               /\ s[1] # Ata /\ s[2] # Ata /\ s[3] # Ata /\ s[4] = Ata
<1>1. th[t].v \in Volumes
  BY RequestIsIrp DEF Irps
<1>2. \A v \in Volumes : /\ Stack(v)[1] = <<"fs", v>> /\ Stack(v)[2] = <<"vol", v>>
                         /\ Stack(v)[3] = <<"disk", 0>> /\ Stack(v)[4] = Ata
  BY DEF Stack, Ata
<1>3. \A v \in Volumes : \A i \in 1 .. 4 : Stack(v)[i] \in Devices
  BY DEF Devices
<1>4. \A v \in Volumes : Stack(v)[1] # Ata /\ Stack(v)[2] # Ata /\ Stack(v)[3] # Ata
  BY <1>2 DEF Ata
<1> QED
  BY <1>1, <1>2, <1>3, <1>4, 1 \in 1 .. 4, 2 \in 1 .. 4, 3 \in 1 .. 4, 4 \in 1 .. 4

\* IoCompleteIrp, and the way back up.
LEMMA CompletedIrp ==
    ASSUME NEW r \in Irps, r.completed = 0, NEW l \in Up, NEW status \in IrpStatus
    PROVE  /\ [Completed(r, status) EXCEPT !.pc = l] \in Irps
           /\ [Completed(r, status) EXCEPT !.pc = l].pc = l
<1> DEFINE a == [r EXCEPT !.completed = 1]
           b == [a EXCEPT !.status = status]
<1>1. a \in Irps
  BY DEF Irps
<1>2. b \in Irps
  <2> HIDE DEF a
  <2> QED
    BY <1>1 DEF Irps
<1>3. Completed(r, status) = b
  BY DEF Completed, Irps
<1> HIDE DEF b
<1> QED
  BY <1>2, <1>3 DEF Irps

\* Only one request is in the ATA driver.
LEMMA OneTransfer ==
    ASSUME StorageInv, NEW t \in Threads, NEW u \in Threads,
           th[t].pc \in InTransfer \union {"leave ata"}, th[u].pc \in InTransfer \union {"leave ata"}
    PROVE  t = u
BY DEF StorageInv, LockInv

\* A step of a request outside the ATA driver, which takes or gives back the
\* lock of another device.
LEMMA StepAbove ==
    ASSUME StorageInv, NEW t \in Threads, NEW r \in Irps \union {Out},
           th' = [th EXCEPT ![t] = r], UNCHANGED <<CurrentTransfer, Signaled, waiting, busy, irq, isr, halted>>,
           th[t].pc \notin InTransfer \union {"leave ata"}, r.pc \notin InTransfer \union {"leave ata"},
           r.pc \in Down => r.completed = 0,
           DeviceLock' \in [Devices -> Threads \union {Nobody}], DeviceLock'[Ata] = DeviceLock[Ata]
    PROVE  StorageInv'
<1>1. th'[t] = r /\ \A u \in Threads : u # t => th'[u] = th[u]
  BY DEF StorageInv, Types
<1>2. \A u \in Threads : \A l \in InTransfer \union {"leave ata"} : th'[u].pc = l <=> th[u].pc = l
  BY <1>1
<1>3. Types'
  BY <1>1 DEF StorageInv, Types
<1>4. LockInv'
  BY <1>2 DEF StorageInv, LockInv
<1>5. Started' <=> Started
  BY <1>2 DEF Started, Waits, InTransfer
<1>6. waiting # Nobody => th'[waiting].pc = "blocked"
  BY <1>2 DEF StorageInv, Types, TransferInv, InTransfer
<1>7. TransferInv'
  BY <1>2, <1>5, <1>6 DEF StorageInv, TransferInv, InTransfer
<1> QED
  BY <1>3, <1>4, <1>7 DEF StorageInv

\* MutexAcquire of a device above ATA.
LEMMA LockedAbove ==
    ASSUME StorageInv, NEW t \in Threads, NEW d \in Devices, d # Ata, Ata \in Devices, NEW r \in Irps,
           th[t].pc \in Down, DeviceLock' = [DeviceLock EXCEPT ![d] = t], th' = [th EXCEPT ![t] = r],
           UNCHANGED <<CurrentTransfer, Signaled, waiting, busy, irq, isr, halted>>,
           r.pc \notin InTransfer \union {"leave ata"}, r.pc \in Down => r.completed = 0
    PROVE  StorageInv'
<1>1. DeviceLock' \in [Devices -> Threads \union {Nobody}] /\ DeviceLock'[Ata] = DeviceLock[Ata]
  BY DEF StorageInv, Types
<1>2. th[t].pc \notin InTransfer \union {"leave ata"}
  BY DEF Down, InTransfer
<1> QED
  BY <1>1, <1>2, StepAbove

\* A request is made, and IoCallDriver takes it to the file system, the
\* volume and the disk.
LEMMA CallsAbove ==
    ASSUME StorageAssumption, StorageInv, NEW t \in Threads,
           \/ \E r \in Requests : Request(t, r)
           \/ CallFilesystem(t) \/ CallVolume(t) \/ CallDisk(t)
    PROVE  StorageInv'
<1>1. ASSUME NEW q \in Requests, Request(t, q) PROVE StorageInv'
  <2> DEFINE r == [pc |-> "fs", v |-> q.v, offset |-> q.offset, length |-> q.length,
                   async |-> q.async, aligned |-> q.aligned, completed |-> 0, status |-> "pending"]
  <2>1. r \in Irps /\ r.pc = "fs" /\ r.completed = 0
    BY DEF StorageAssumption, Irps, Down, IrpStatus
  <2>2. /\ th' = [th EXCEPT ![t] = r] /\ th[t].pc = "out"
        /\ UNCHANGED <<DeviceLock, CurrentTransfer, Signaled, waiting, busy, irq, isr, halted>>
    BY <1>1 DEF Request, transferVars
  <2> HIDE DEF r
  <2> QED
    BY <2>1, <2>2, StepAbove DEF InTransfer, StorageInv, Types
<1>3. CASE CallFilesystem(t)
  <2> DEFINE r == IF th[t].aligned THEN [th[t] EXCEPT !.pc = "vol"]
                  ELSE [th[t] EXCEPT !.pc = "leave fs", !.status = "refused"]
  <2>1. /\ th[t].pc = "fs" /\ th' = [th EXCEPT ![t] = r]
        /\ DeviceLock' = [DeviceLock EXCEPT ![Stack(th[t].v)[1]] = t]
        /\ UNCHANGED <<CurrentTransfer, Signaled, waiting, busy, irq, isr, halted>>
    BY <1>3 DEF CallFilesystem, Enter, transferVars
  <2>2. th[t] \in Irps /\ th[t].completed = 0
    BY <2>1, RequestIsIrp DEF StorageInv, Types, Down
  <2>3. r \in Irps /\ r.pc \in {"vol", "leave fs"} /\ r.completed = 0
    <3>1. CASE th[t].aligned
      BY <2>2, <3>1 DEF Irps, Down
    <3>2. CASE ~th[t].aligned
      BY <2>2, <3>2 DEF Irps, Up, IrpStatus
    <3> QED
      BY <3>1, <3>2
  <2> HIDE DEF r
  <2>4. /\ th[t].pc \in Down /\ r.pc \notin InTransfer \union {"leave ata"}
        /\ r.pc \in Down => r.completed = 0
    BY <2>1, <2>3 DEF Down, InTransfer
  <2>5. r \in Irps
    BY <2>3
  <2>6. Stack(th[t].v)[1] \in Devices /\ Stack(th[t].v)[1] # Ata /\ Ata \in Devices
    <3>1. th[t].pc # "out"
      BY <2>1
    <3>2. /\ Stack(th[t].v)[1] \in Devices /\ Stack(th[t].v)[1] # Ata
          /\ Stack(th[t].v)[4] \in Devices /\ Stack(th[t].v)[4] = Ata
      BY <3>1, StackOfDevices
    <3> QED
      BY <3>2
  <2> QED
    BY <2>1, <2>4, <2>5, <2>6, LockedAbove
<1>4. CASE CallVolume(t)
  <2> DEFINE ok == VolCheckIOParameters(th[t].v, th[t].offset, th[t].length)
             r == IF ok THEN [th[t] EXCEPT !.pc = "disk", !.offset = th[t].offset + OffsetInDisk[th[t].v]]
                  ELSE [Completed(th[t], "error") EXCEPT !.pc = "leave vol"]
  <2>1. /\ th[t].pc = "vol" /\ th' = [th EXCEPT ![t] = r]
        /\ DeviceLock' = [DeviceLock EXCEPT ![Stack(th[t].v)[2]] = t]
        /\ UNCHANGED <<CurrentTransfer, Signaled, waiting, busy, irq, isr, halted>>
    BY <1>4 DEF CallVolume, Enter, transferVars
  <2>2. th[t] \in Irps /\ th[t].completed = 0
    BY <2>1, RequestIsIrp DEF StorageInv, Types, Down
  <2>3. r \in Irps /\ r.pc \in {"disk", "leave vol"} /\ (r.pc = "disk" => r.completed = 0)
    <3> HIDE DEF ok
    <3>1. CASE ok
      <4>1. th[t].offset + OffsetInDisk[th[t].v] \in Nat
        BY <2>2 DEF Irps, StorageAssumption
      <4> QED
        BY <2>2, <3>1, <4>1 DEF Irps, Down
    <3>2. CASE ~ok
      BY <2>2, <3>2, CompletedIrp DEF Up, IrpStatus
    <3> QED
      BY <3>1, <3>2
  <2> HIDE DEF r
  <2>4. /\ th[t].pc \in Down /\ r.pc \notin InTransfer \union {"leave ata"}
        /\ r.pc \in Down => r.completed = 0
    BY <2>1, <2>3 DEF Down, InTransfer
  <2>5. r \in Irps
    BY <2>3
  <2>6. Stack(th[t].v)[2] \in Devices /\ Stack(th[t].v)[2] # Ata /\ Ata \in Devices
    <3>1. th[t].pc # "out"
      BY <2>1
    <3>2. /\ Stack(th[t].v)[2] \in Devices /\ Stack(th[t].v)[2] # Ata
          /\ Stack(th[t].v)[4] \in Devices /\ Stack(th[t].v)[4] = Ata
      BY <3>1, StackOfDevices
    <3> QED
      BY <3>2
  <2> QED
    BY <2>1, <2>4, <2>5, <2>6, LockedAbove
<1>5. CASE CallDisk(t)
  <2> DEFINE r == [th[t] EXCEPT !.pc = "ata"]
  <2>1. /\ th[t].pc = "disk" /\ th' = [th EXCEPT ![t] = r]
        /\ DeviceLock' = [DeviceLock EXCEPT ![Stack(th[t].v)[3]] = t]
        /\ UNCHANGED <<CurrentTransfer, Signaled, waiting, busy, irq, isr, halted>>
    BY <1>5 DEF CallDisk, Goto, Enter, transferVars
  <2>2. th[t] \in Irps /\ th[t].completed = 0
    BY <2>1, RequestIsIrp DEF StorageInv, Types, Down
  <2>3. r \in Irps /\ r.pc = "ata" /\ r.completed = 0
    BY <2>2 DEF Irps, Down
  <2> HIDE DEF r
  <2>4. /\ th[t].pc \in Down /\ r.pc \notin InTransfer \union {"leave ata"}
        /\ r.pc \in Down => r.completed = 0
    BY <2>1, <2>3 DEF Down, InTransfer
  <2>5. r \in Irps
    BY <2>3
  <2>6. Stack(th[t].v)[3] \in Devices /\ Stack(th[t].v)[3] # Ata /\ Ata \in Devices
    <3>1. th[t].pc # "out"
      BY <2>1
    <3>2. /\ Stack(th[t].v)[3] \in Devices /\ Stack(th[t].v)[3] # Ata
          /\ Stack(th[t].v)[4] \in Devices /\ Stack(th[t].v)[4] = Ata
      BY <3>1, StackOfDevices
    <3> QED
      BY <3>2
  <2> QED
    BY <2>1, <2>4, <2>5, <2>6, LockedAbove
<1> QED
  BY <1>1, <1>3, <1>4, <1>5

\* AtaDispatchReadWrite: the lock of the device is taken, State is Free then.
LEMMA AtaEntered ==
    ASSUME StorageAssumption, StorageInv, NEW t \in Threads, CallAta(t)
    PROVE  StorageInv'
<1> DEFINE ok == th[t].offset < TotalSectors /\ TotalSectors - th[t].offset >= th[t].length
<1>1. th[t].pc = "ata" /\ Enter(t, 4) /\ UNCHANGED <<Signaled, waiting, busy, irq, isr>>
  BY DEF CallAta
<1>2. th[t] \in Irps /\ th[t].completed = 0 /\ th[t].v \in Volumes
  <2>1. th[t] \in Irps /\ th[t].completed = 0
    BY <1>1, RequestIsIrp DEF StorageInv, Types, Down
  <2> QED
    BY <2>1 DEF Irps
<1>3. Stack(th[t].v)[4] = Ata /\ Ata \in Devices
  <2>1. Stack(th[t].v)[4] = Ata /\ Stack(th[t].v)[4] \in Devices
    BY <1>1, StackOfDevices
  <2> QED
    BY <2>1
<1>4. /\ DeviceLock[Ata] = Nobody /\ DeviceLock' = [DeviceLock EXCEPT ![Ata] = t] /\ DeviceLock'[Ata] = t
      /\ DeviceLock' \in [Devices -> Threads \union {Nobody}]
  BY <1>1, <1>3 DEF Enter, StorageInv, Types
<1>5. \A u \in Threads : th[u].pc \notin InTransfer \union {"leave ata"}
  <2>1. \A u \in Threads : th[u].pc \in InTransfer \union {"leave ata"} => DeviceLock[Ata] = u
    BY DEF StorageInv, LockInv
  <2> QED
    BY <1>4, <2>1 DEF StorageAssumption
<1>6. CurrentTransfer.State = "Free" /\ ~Started /\ ~busy /\ ~irq /\ ~Signaled
  <2>1. ~Started
    BY <1>5 DEF Started, Waits, InTransfer
  <2> QED
    BY <1>5, <2>1 DEF StorageInv, TransferInv
<1>7. \A c \in CPUs : isr[c] # "signal"
  BY <1>6 DEF StorageInv, TransferInv
<1>8. waiting = Nobody
  BY <1>5 DEF StorageInv, TransferInv, Types, InTransfer
<1>9. CASE ok
  <2> DEFINE r == [th[t] EXCEPT !.pc = "prepare"]
             ct == [CurrentTransfer EXCEPT !.State = "InProgress"]
  <2>1. halted' = (halted \/ CurrentTransfer.State # "Free") /\ CurrentTransfer' = ct /\ th' = [th EXCEPT ![t] = r]
    BY <1>9 DEF CallAta, Goto
  <2>2. r \in Irps /\ r.pc = "prepare" /\ r.completed = 0
    BY <1>2 DEF Irps, InTransfer
  <2>3. /\ ct \in [State : {"Free", "InProgress", "Finished"}, Prdt : BOOLEAN, sectors : SUBSET Nat]
        /\ ct.State = "InProgress"
    BY DEF StorageInv, Types
  <2>4. ~halted'
    BY <1>6, <2>1 DEF StorageInv
  <2> HIDE DEF r, ct
  <2>5. th'[t] = r /\ \A u \in Threads : u # t => th'[u] = th[u]
    BY <2>1 DEF StorageInv, Types
  <2>6. Types'
    BY <1>1, <1>4, <2>1, <2>2, <2>3, <2>5 DEF StorageInv, Types
  <2>7. LockInv'
    BY <1>4, <1>5, <2>5 DEF LockInv
  <2>8. TransferInv'
    BY <1>1, <1>5, <1>6, <1>7, <1>8, <2>1, <2>2, <2>3, <2>5 DEF TransferInv, InTransfer
  <2> QED
    BY <2>4, <2>6, <2>7, <2>8 DEF StorageInv
<1>10. CASE ~ok
  <2> DEFINE r == [Completed(th[t], "error") EXCEPT !.pc = "leave ata"]
  <2>1. UNCHANGED <<CurrentTransfer, halted>> /\ th' = [th EXCEPT ![t] = r]
    BY <1>10 DEF CallAta
  <2>2. r \in Irps /\ r.pc = "leave ata"
    BY <1>2, CompletedIrp DEF Up, IrpStatus
  <2> HIDE DEF r
  <2>5. th'[t] = r /\ \A u \in Threads : u # t => th'[u] = th[u]
    BY <2>1 DEF StorageInv, Types
  <2>6. Types'
    BY <1>1, <1>4, <2>1, <2>2, <2>5 DEF StorageInv, Types, Down, InTransfer
  <2>7. LockInv'
    BY <1>4, <1>5, <2>5 DEF LockInv
  <2>8. TransferInv'
    BY <1>1, <1>5, <1>6, <1>7, <1>8, <2>1, <2>2, <2>5 DEF TransferInv, InTransfer
  <2> QED
    BY <2>1, <2>6, <2>7, <2>8 DEF StorageInv
<1> QED
  BY <1>9, <1>10

\* MutexRelease on the way up; the one of the ATA device lets the next in.
LEMMA LocksAreReleased ==
    ASSUME StorageInv, NEW t \in Threads, Leave(t)
    PROVE  StorageInv'
<1>1. PICK i \in 1 .. 4 :
         /\ th[t].pc = Leaving[i]
         /\ DeviceLock' = [DeviceLock EXCEPT ![Stack(th[t].v)[i]] = Nobody]
         /\ th' = [th EXCEPT ![t] = IF i = 1 THEN Out ELSE [th[t] EXCEPT !.pc = Leaving[i - 1]]]
         /\ UNCHANGED <<transferVars, irq, isr, halted, missed>>
  BY DEF Leave
<1>2. /\ Leaving[1] = "leave fs" /\ Leaving[2] = "leave vol" /\ Leaving[3] = "leave disk" /\ Leaving[4] = "leave ata"
      /\ i = 1 \/ i = 2 \/ i = 3 \/ i = 4
      /\ i # 1 => i - 1 = 1 \/ i - 1 = 2 \/ i - 1 = 3
  BY DEF Leaving
<1>3. th[t].pc \in Up /\ th[t].pc # "out"
  BY <1>1, <1>2 DEF Up
<1>4. th[t] \in Irps
  BY <1>3, RequestIsIrp
<1> DEFINE r == IF i = 1 THEN Out ELSE [th[t] EXCEPT !.pc = Leaving[i - 1]]
<1>5. /\ r \in Irps \union {Out} /\ r.pc \notin Down \union InTransfer \union {"leave ata"}
  <2>1. CASE i = 1
    BY <2>1 DEF Out, Down, InTransfer
  <2>2. CASE i # 1
    <3>1. Leaving[i - 1] \in {"leave fs", "leave vol", "leave disk"}
      BY <1>2, <2>2
    <3> QED
      BY <1>4, <2>2, <3>1 DEF Irps, Up, Down, InTransfer
  <2> QED
    BY <2>1, <2>2
<1>6. th' = [th EXCEPT ![t] = r] /\ UNCHANGED <<CurrentTransfer, Signaled, waiting, busy, irq, isr, halted>>
  BY <1>1 DEF transferVars
<1> HIDE DEF r
<1>7. th'[t] = r /\ \A u \in Threads : u # t => th'[u] = th[u]
  BY <1>6 DEF StorageInv, Types
<1>8. LET s == Stack(th[t].v)
      IN  /\ s[1] \in Devices /\ s[2] \in Devices /\ s[3] \in Devices /\ s[4] \in Devices
          /\ s[1] # Ata /\ s[2] # Ata /\ s[3] # Ata /\ s[4] = Ata
  BY <1>3, StackOfDevices
<1>9. DeviceLock' \in [Devices -> Threads \union {Nobody}]
  BY <1>1, <1>2, <1>8 DEF StorageInv, Types
<1>10. CASE i = 4
  <2>1. th[t].pc = "leave ata"
    BY <1>1, <1>2, <1>10
  <2>2. \A u \in Threads : u # t => th[u].pc \notin InTransfer \union {"leave ata"}
    BY <2>1, OneTransfer
  <2>3. \A u \in Threads : th[u].pc \notin InTransfer
    BY <2>1, <2>2 DEF InTransfer
  <2>4. CurrentTransfer.State = "Free" /\ ~Started /\ ~busy /\ ~irq /\ ~Signaled
    <3>1. ~Started
      BY <2>3 DEF Started, Waits, InTransfer
    <3> QED
      BY <2>3, <3>1 DEF StorageInv, TransferInv
  <2>5. \A c \in CPUs : isr[c] # "signal"
    BY <2>4 DEF StorageInv, TransferInv
  <2>6. waiting = Nobody
    BY <2>3 DEF StorageInv, TransferInv, Types, InTransfer
  <2>7. \A u \in Threads : th'[u].pc \notin InTransfer \union {"leave ata"}
    BY <1>5, <1>7, <2>2
  <2>8. Types'
    BY <1>5, <1>6, <1>7, <1>9 DEF StorageInv, Types
  <2>9. LockInv'
    BY <2>7 DEF LockInv
  <2>10. TransferInv'
    BY <1>6, <2>4, <2>5, <2>6, <2>7 DEF TransferInv, InTransfer
  <2> QED
    BY <1>6, <2>8, <2>9, <2>10 DEF StorageInv
<1>11. CASE i # 4
  <2>1. DeviceLock'[Ata] = DeviceLock[Ata]
    BY <1>1, <1>2, <1>8, <1>11 DEF StorageInv, Types
  <2>2. th[t].pc \notin InTransfer \union {"leave ata"}
    BY <1>1, <1>2, <1>11 DEF InTransfer
  <2> QED
    BY <1>5, <1>6, <1>9, <2>1, <2>2, StepAbove
<1> QED
  BY <1>10, <1>11

\* The end of AtaDispatchReadWrite, for a transfer that failed, was done by the
\* CPU, or was waited for: TransferReady finds it finished.
LEMMA TransferEnds ==
    ASSUME StorageInv, NEW t \in Threads, TransferFails(t) \/ SynchronousTransfer(t) \/ TransferReady(t)
    PROVE  StorageInv'
<1>1. PICK status \in IrpStatus :
         /\ th[t].pc \in {"prepare", "ready"} /\ FinishTransfer(t, status)
         /\ UNCHANGED <<DeviceLock, Signaled, waiting, busy, irq, isr>>
  BY DEF TransferFails, SynchronousTransfer, TransferReady, IrpStatus
<1>2. ~halted'
  <2>1. CASE TransferReady(t)
    <3>1. CurrentTransfer.State = "Finished" /\ CurrentTransfer.Prdt /\ ~halted
      BY <2>1 DEF TransferReady, StorageInv, TransferInv
    <3> QED
      BY <2>1, <3>1 DEF TransferReady
  <2>2. CASE TransferFails(t) \/ SynchronousTransfer(t)
    BY <2>2 DEF TransferFails, SynchronousTransfer, StorageInv
  <2> QED
    BY <2>1, <2>2
<1>3. th[t] \in Irps /\ th[t].completed = 0 /\ th[t].pc \in InTransfer
  <2>1. th[t].pc \in InTransfer /\ th[t].pc # "out"
    BY <1>1 DEF InTransfer
  <2> QED
    BY <2>1, RequestIsIrp DEF StorageInv, Types
<1> DEFINE r == [Completed(th[t], status) EXCEPT !.pc = "leave ata"]
<1>4. r \in Irps /\ r.pc = "leave ata"
  BY <1>3, CompletedIrp DEF Up
<1>5. th' = [th EXCEPT ![t] = r] /\ CurrentTransfer' = NoTransfer
  BY <1>1 DEF FinishTransfer
<1> HIDE DEF r
<1>6. th'[t] = r /\ \A u \in Threads : u # t => th'[u] = th[u]
  BY <1>5 DEF StorageInv, Types
<1>7. \A u \in Threads : u # t => th[u].pc \notin InTransfer \union {"leave ata"}
  BY <1>3, OneTransfer
<1>8. ~Started
  BY <1>1, <1>7 DEF Started, Waits, InTransfer
<1>9. ~busy /\ ~irq /\ ~Signaled /\ \A c \in CPUs : isr[c] # "signal"
  BY <1>8 DEF StorageInv, TransferInv
<1>10. waiting = Nobody
  <2>1. \A u \in Threads : th[u].pc # "blocked"
    BY <1>1, <1>7 DEF InTransfer
  <2> QED
    BY <2>1 DEF StorageInv, TransferInv, Types
<1>11. \A u \in Threads : th'[u].pc \notin InTransfer
  BY <1>4, <1>6, <1>7 DEF InTransfer
<1>12. CurrentTransfer'.State = "Free" /\ CurrentTransfer' \in
          [State : {"Free", "InProgress", "Finished"}, Prdt : BOOLEAN, sectors : SUBSET Nat]
  BY <1>5 DEF NoTransfer
<1>13. Types'
  <2>1. \A u \in Threads : th'[u].pc \in Down \union InTransfer => th'[u].completed = 0
    BY <1>4, <1>6 DEF StorageInv, Types, Down, InTransfer
  <2> QED
    BY <1>1, <1>4, <1>5, <1>12, <2>1 DEF StorageInv, Types
<1>14. LockInv'
  BY <1>1, <1>3, <1>6, <1>7 DEF StorageInv, LockInv
<1>15. TransferInv'
  BY <1>1, <1>9, <1>10, <1>11, <1>12 DEF TransferInv, InTransfer
<1> QED
  BY <1>2, <1>13, <1>14, <1>15 DEF StorageInv

\* The waiting request goes on: the DMA is started, TransferReady is tested
\* and waited for.
LEMMA RequestWaits ==
    ASSUME StorageInv, NEW t \in Threads, StartDma(t) \/ WaitTry(t) \/ WaitLink(t)
    PROVE  StorageInv'
<1>1. PICK l \in {"try", "link", "blocked", "ready"} :
         /\ th' = [th EXCEPT ![t] = [th[t] EXCEPT !.pc = l]] /\ th[t].pc \in {"prepare", "try", "link"}
         /\ UNCHANGED <<DeviceLock, irq, isr, halted>>
         /\ th[t].pc = "prepare" => l = "try"
         /\ th[t].pc = "try" => l \in {"link", "ready"}
         /\ th[t].pc = "link" => l = "blocked"
  BY DEF StartDma, WaitTry, WaitLink, Goto
<1>2. th[t] \in Irps /\ th[t].completed = 0 /\ th[t].pc \in InTransfer
  <2>1. th[t].pc \in InTransfer /\ th[t].pc # "out"
    BY <1>1 DEF InTransfer
  <2> QED
    BY <2>1, RequestIsIrp DEF StorageInv, Types
<1>3. /\ th'[t] \in Irps /\ th'[t].pc = l /\ th'[t].completed = 0
      /\ \A u \in Threads : u # t => th'[u] = th[u]
      /\ th' \in [Threads -> Irps \union {Out}]
  <2> DEFINE r == [th[t] EXCEPT !.pc = l]
  <2>1. r \in Irps /\ r.pc = l /\ r.completed = 0
    BY <1>2 DEF Irps, InTransfer
  <2>2. th' = [th EXCEPT ![t] = r]
    BY <1>1
  <2> HIDE DEF r
  <2> QED
    BY <2>1, <2>2 DEF StorageInv, Types
<1>4. \A u \in Threads : u # t => th[u].pc \notin InTransfer \union {"leave ata"}
  BY <1>2, OneTransfer
<1>5. LockInv'
  BY <1>1, <1>2, <1>3, <1>4 DEF StorageInv, LockInv
<1>6. \A u \in Threads : u # t => th'[u].pc \notin InTransfer \union {"leave ata"}
  BY <1>3, <1>4
<1>7. Started <=> th[t].pc \in Waits
  BY <1>4 DEF Started, Waits, InTransfer
<1>8. Started' <=> l \in Waits
  BY <1>3, <1>6 DEF Started, Waits, InTransfer
<1>9. \A u \in Threads : th'[u].pc \in Down \union InTransfer => th'[u].completed = 0
  BY <1>3 DEF StorageInv, Types
<1>10. waiting = Nobody
  <2>1. \A u \in Threads : th[u].pc # "blocked"
    BY <1>1, <1>4 DEF InTransfer
  <2> QED
    BY <2>1 DEF StorageInv, TransferInv, Types
<1>11. CASE StartDma(t)
  <2> DEFINE ct == [CurrentTransfer EXCEPT !.Prdt = TRUE, !.sectors = Span(th[t].offset, th[t].length)]
  <2>1. /\ th[t].pc = "prepare" /\ busy' = TRUE /\ CurrentTransfer' = ct /\ UNCHANGED <<Signaled, waiting>>
    BY <1>11 DEF StartDma
  <2>2. Span(th[t].offset, th[t].length) \in SUBSET Nat
    BY <1>2 DEF Span, Irps
  <2>3. ct \in [State : {"Free", "InProgress", "Finished"}, Prdt : BOOLEAN, sectors : SUBSET Nat]
        /\ ct.State = CurrentTransfer.State /\ ct.Prdt = TRUE
    <3> HIDE DEF Span
    <3> QED
      BY <2>2 DEF StorageInv, Types
  <2> HIDE DEF ct
  <2>4. Types'
    BY <1>1, <1>3, <1>9, <2>1, <2>3 DEF StorageInv, Types
  <2>5. l = "try" /\ ~Started /\ Started'
    BY <1>1, <1>7, <1>8, <2>1 DEF Waits
  <2>6. ~irq /\ ~Signaled /\ (\A c \in CPUs : isr[c] # "signal") /\ CurrentTransfer.State = "InProgress"
    BY <2>1, <2>5 DEF StorageInv, TransferInv
  <2>7. TransferInv'
    BY <1>1, <1>3, <1>6, <1>10, <2>1, <2>3, <2>5, <2>6 DEF TransferInv, InTransfer
  <2> QED
    BY <1>1, <1>5, <2>4, <2>7 DEF StorageInv
<1>12. CASE WaitTry(t)
  <2>1. /\ th[t].pc = "try" /\ Signaled' = FALSE /\ UNCHANGED <<CurrentTransfer, waiting, busy>>
        /\ th' = [th EXCEPT ![t] = [th[t] EXCEPT !.pc = IF Signaled THEN "ready" ELSE "link"]]
    BY <1>12 DEF WaitTry, Goto
  <2>2. Signaled => th'[t].pc = "ready"
    BY <1>2, <2>1 DEF StorageInv, Types, Irps
  <2>3. ~Signaled => th'[t].pc = "link"
    BY <1>2, <2>1 DEF StorageInv, Types, Irps
  <2>4. Types'
    BY <1>1, <1>3, <1>9, <2>1 DEF StorageInv, Types
  <2>5. CASE Signaled
    <3>1. l = "ready" /\ CurrentTransfer.State = "Finished" /\ CurrentTransfer.Prdt
      BY <1>3, <2>2, <2>5 DEF StorageInv, TransferInv
    <3>2. ~busy /\ ~irq /\ \A c \in CPUs : isr[c] # "signal"
      BY <2>5, <3>1 DEF StorageInv, TransferInv
    <3>3. TransferInv'
      BY <1>1, <1>3, <1>6, <1>10, <2>1, <3>1, <3>2 DEF TransferInv, InTransfer
    <3> QED
      BY <1>1, <1>5, <2>4, <3>3 DEF StorageInv
  <2>6. CASE ~Signaled
    <3>1. l = "link" /\ Started /\ Started'
      BY <1>3, <1>7, <1>8, <2>1, <2>3, <2>6 DEF Waits
    <3>2. TransferInv'
      BY <1>1, <1>3, <1>6, <1>10, <2>1, <3>1 DEF StorageInv, TransferInv, InTransfer
    <3> QED
      BY <1>1, <1>5, <2>4, <3>2 DEF StorageInv
  <2> QED
    BY <2>5, <2>6
<1>13. CASE WaitLink(t)
  <2>1. th[t].pc = "link" /\ waiting' = t /\ UNCHANGED <<CurrentTransfer, Signaled, busy>>
    BY <1>13 DEF WaitLink
  <2>2. l = "blocked" /\ Started /\ Started'
    BY <1>1, <1>7, <1>8, <2>1 DEF Waits
  <2>3. Types'
    BY <1>1, <1>3, <1>9, <2>1 DEF StorageInv, Types
  <2>4. TransferInv'
    BY <1>1, <1>3, <1>6, <2>1, <2>2 DEF StorageInv, TransferInv, InTransfer
  <2> QED
    BY <1>1, <1>5, <2>3, <2>4 DEF StorageInv
<1> QED
  BY <1>11, <1>12, <1>13

\* The device and the handler: the interrupt finds the transfer in progress,
\* and the signal reaches the request that waits for it.
LEMMA TransferIsFinished ==
    ASSUME StorageAssumption, StorageInv,
           \/ DeviceDone
           \/ \E c \in CPUs : Interrupt(c) \/ InterruptNotHandled(c) \/ SignalReady(c) \/ ClearInterrupt(c)
    PROVE  StorageInv'
<1>1. CASE DeviceDone
  <2>1. /\ busy /\ busy' = FALSE /\ irq' = TRUE
        /\ UNCHANGED <<DeviceLock, th, CurrentTransfer, Signaled, waiting, isr, halted>>
    BY <1>1 DEF DeviceDone
  <2>2. Types' /\ LockInv'
    BY <2>1 DEF StorageInv, Types, LockInv
  <2>3. Started' <=> Started
    BY <2>1 DEF Started
  <2>4. TransferInv'
    BY <2>1, <2>3 DEF StorageInv, TransferInv
  <2> QED
    BY <2>1, <2>2, <2>4 DEF StorageInv
<1>2. ASSUME NEW c \in CPUs, Interrupt(c) PROVE StorageInv'
  <2> DEFINE ct == [CurrentTransfer EXCEPT !.State = "Finished"]
  <2>1. /\ irq /\ irq' = FALSE /\ isr' = [isr EXCEPT ![c] = "signal"] /\ CurrentTransfer' = ct
        /\ halted' = (halted \/ CurrentTransfer.State # "InProgress")
        /\ UNCHANGED <<DeviceLock, th, Signaled, waiting, busy>>
    BY <1>2 DEF Interrupt
  <2>2. Started /\ CurrentTransfer.State = "InProgress" /\ CurrentTransfer.Prdt /\ ~busy
    BY <2>1 DEF StorageInv, TransferInv
  <2>3. ~halted'
    BY <2>1, <2>2 DEF StorageInv
  <2>4. ct \in [State : {"Free", "InProgress", "Finished"}, Prdt : BOOLEAN, sectors : SUBSET Nat]
        /\ ct.State = "Finished" /\ ct.Prdt = CurrentTransfer.Prdt
    BY DEF StorageInv, Types
  <2> HIDE DEF ct
  <2>5. Types' /\ LockInv'
    BY <2>1, <2>4 DEF StorageInv, Types, LockInv
  <2>6. Started' <=> Started
    BY <2>1 DEF Started
  <2>7. /\ isr'[c] = "signal" /\ \A d \in CPUs : d # c => isr'[d] # "signal"
        /\ ~Signaled
    BY <2>1, <2>2 DEF StorageInv, Types, TransferInv
  <2>8. \A u \in Threads : th[u].pc # "prepare"
    <3>1. PICK w \in Threads : th[w].pc \in Waits
      BY <2>2 DEF Started
    <3> QED
      BY <3>1, OneTransfer DEF Waits, InTransfer
  <2>9. TransferInv'
    BY <2>1, <2>2, <2>4, <2>6, <2>7, <2>8 DEF StorageInv, TransferInv, Started, Waits, InTransfer
  <2> QED
    BY <2>3, <2>5, <2>9 DEF StorageInv
<1>3. ASSUME NEW c \in CPUs, InterruptNotHandled(c) PROVE StorageInv'
  <2>1. irq' = FALSE /\ UNCHANGED <<DeviceLock, th, CurrentTransfer, Signaled, waiting, busy, isr, halted>>
    BY <1>3 DEF InterruptNotHandled, transferVars
  <2>2. Types' /\ LockInv'
    BY <2>1 DEF StorageInv, Types, LockInv
  <2>3. Started' <=> Started
    BY <2>1 DEF Started
  <2>4. TransferInv'
    BY <2>1, <2>3 DEF StorageInv, TransferInv
  <2> QED
    BY <2>1, <2>2, <2>4 DEF StorageInv
<1>4. ASSUME NEW c \in CPUs, ClearInterrupt(c) PROVE StorageInv'
  <2>1. /\ isr' = [isr EXCEPT ![c] = "out"]
        /\ UNCHANGED <<DeviceLock, th, CurrentTransfer, Signaled, waiting, busy, irq, halted>>
    BY <1>4 DEF ClearInterrupt
  <2>2. Types' /\ LockInv'
    BY <2>1 DEF StorageInv, Types, LockInv
  <2>3. Started' <=> Started
    BY <2>1 DEF Started
  <2>4. \A d \in CPUs : isr'[d] = "signal" => isr[d] = "signal"
    BY <2>1 DEF StorageInv, Types
  <2>5. TransferInv'
    BY <2>1, <2>3, <2>4 DEF StorageInv, TransferInv
  <2> QED
    BY <2>1, <2>2, <2>5 DEF StorageInv
<1>5. ASSUME NEW c \in CPUs, SignalReady(c) PROVE StorageInv'
  <2>1. /\ isr[c] = "signal" /\ Signaled' = TRUE /\ waiting' = Nobody /\ isr' = [isr EXCEPT ![c] = "clear"]
        /\ th' = [t \in Threads |-> IF t = waiting THEN [th[t] EXCEPT !.pc = "try"] ELSE th[t]]
        /\ UNCHANGED <<DeviceLock, CurrentTransfer, busy, irq, halted>>
    BY <1>5 DEF SignalReady
  <2>2. Started /\ CurrentTransfer.State = "Finished" /\ CurrentTransfer.Prdt /\ ~busy /\ ~irq
    BY <2>1 DEF StorageInv, TransferInv
  <2>3. \A d \in CPUs : isr'[d] # "signal"
    BY <2>1 DEF StorageInv, Types, TransferInv
  <2>4. ASSUME NEW t \in Threads
        PROVE  /\ th'[t] \in Irps \union {Out}
               /\ th'[t] = th[t] \/ (th[t].pc = "blocked" /\ th'[t].pc = "try" /\ th'[t].completed = 0)
    <3>1. CASE t = waiting
      <4>1. th[t].pc = "blocked" /\ th[t].completed = 0
        BY <3>1 DEF StorageInv, TransferInv, Types, InTransfer, StorageAssumption
      <4>2. th[t] \in Irps
        BY <4>1, RequestIsIrp
      <4>3. th'[t] = [th[t] EXCEPT !.pc = "try"]
        BY <2>1, <3>1
      <4> QED
        BY <4>1, <4>2, <4>3 DEF Irps, InTransfer
    <3>2. CASE t # waiting
      BY <2>1, <3>2 DEF StorageInv, Types
    <3> QED
      BY <3>1, <3>2
  <2>5. Types'
    <3>1. th' \in [Threads -> Irps \union {Out}]
      BY <2>1, <2>4
    <3>2. \A t \in Threads : th'[t].pc \in Down \union InTransfer => th'[t].completed = 0
      BY <2>4 DEF StorageInv, Types
    <3> QED
      BY <2>1, <3>1, <3>2 DEF StorageInv, Types
  <2>6. LockInv'
    BY <2>1, <2>4 DEF StorageInv, LockInv, InTransfer
  <2>7. Started'
    BY <2>2, <2>4 DEF Started, Waits
  <2>8. \A t \in Threads : th'[t].pc # "prepare"
    <3>1. PICK w \in Threads : th[w].pc \in Waits
      BY <2>2 DEF Started
    <3>2. \A u \in Threads : th[u].pc # "prepare"
      BY <3>1, OneTransfer DEF Waits, InTransfer
    <3> QED
      BY <2>4, <3>2
  <2>9. TransferInv'
    BY <2>1, <2>2, <2>3, <2>7, <2>8 DEF TransferInv, Started, Waits, InTransfer
  <2> QED
    BY <2>1, <2>5, <2>6, <2>9 DEF StorageInv
<1> QED
  BY <1>1, <1>2, <1>3, <1>4, <1>5

-----------------------------------------------------------------------------
\* Requests, transfers and interrupts keep to the stages of TransferInv.
THEOREM StorageInvariant ==
    ASSUME StorageAssumption
    PROVE  StorageInit /\ [][StorageNext]_vars => []StorageInv
<1>1. StorageInit => StorageInv
  <2> SUFFICES ASSUME StorageInit PROVE StorageInv
    OBVIOUS
  <2>1. \A t \in Threads : th[t] = Out /\ th[t].pc = "out"
    BY DEF StorageInit, Out
  <2>2. Types
    BY <2>1 DEF StorageInit, Types, NoTransfer, Down, InTransfer
  <2>3. LockInv
    BY <2>1 DEF LockInv, InTransfer
  <2>4. TransferInv
    BY <2>1 DEF StorageInit, TransferInv, NoTransfer
  <2> QED
    BY <2>2, <2>3, <2>4 DEF StorageInit, StorageInv
<1>2. StorageInv /\ [StorageNext]_vars => StorageInv'
  <2> SUFFICES ASSUME StorageInv, [StorageNext]_vars PROVE StorageInv'
    OBVIOUS
  <2>1. CASE UNCHANGED vars
    BY <2>1 DEF vars, transferVars, StorageInv, Types, LockInv, TransferInv, Started
  <2>2. ASSUME NEW t \in Threads, Acquire(t) \/ \E r \in Requests : Request(t, r) PROVE StorageInv'
    BY <2>2, CallsAbove, AtaEntered DEF Acquire
  <2>3. ASSUME NEW t \in Threads, ThreadStep(t) PROVE StorageInv'
    BY <2>3, LocksAreReleased, TransferEnds, RequestWaits DEF ThreadStep
  <2>4. ASSUME NEW c \in CPUs, TakeInterrupt(c) \/ FinishInterrupt(c) PROVE StorageInv'
    BY <2>4, TransferIsFinished DEF TakeInterrupt, FinishInterrupt
  <2>5. CASE DeviceDone
    BY <2>5, TransferIsFinished
  <2> QED
    BY <2>1, <2>2, <2>3, <2>4, <2>5 DEF StorageNext
<1> QED
  BY <1>1, <1>2, PTL

\* The asserts of ata.c on CurrentTransfer and of IoCompleteIrp hold for any
\* requests: one transfer at a time, finished by its own interrupt even when
\* an earlier handler is late, and no IRP is completed twice.
THEOREM TransferAssertsHold ==
    ASSUME StorageAssumption
    PROVE  StorageInit /\ [][StorageNext]_vars => []TransferAsserts
<1>1. StorageInv => TransferAsserts
  <2> SUFFICES ASSUME StorageInv, NEW t \in Threads, th[t].pc # "out" PROVE th[t].completed <= 1
    BY DEF TransferAsserts, StorageInv
  <2>1. th[t] \in Irps
    BY RequestIsIrp
  <2> QED
    BY <2>1 DEF Irps
<1> QED
  BY <1>1, StorageInvariant, PTL
=============================================================================
