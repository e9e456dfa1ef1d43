---------------------------- MODULE MemoryProofs ----------------------------
(***************************************************************************)
(* Proofs about Memory, for any number of threads, processes, files and    *)
(* pages, any memory map and a reservation list of any length; about Heap, *)
(* for any sizes, alignments and lists of any length; and about MCMemory,  *)
(* which puts them beside each other.                                      *)
(***************************************************************************)
EXTENDS MCMemory, WellFoundedInduction, FiniteSetTheorems, SequenceTheorems, TLAPS

-----------------------------------------------------------------------------
(* Searches.                                                               *)

\* A set of natural numbers has a least element.
LEMMA LeastNatural ==
    ASSUME NEW S, S \subseteq Nat, S # {} PROVE Min(S) \in S /\ \A y \in S : Min(S) <= y
<1> DEFINE Less == {p \in Nat \X Nat : p[1] < p[2]}
<1>1. OpToRel(<, Nat) = Less
  BY Zenon DEF OpToRel
<1>2. IsWellFoundedOn(Less, Nat)
  BY <1>1, NatLessThanWellFounded, Zenon
<1>3. \A a, b \in Nat : a < b => <<a, b>> \in Less
  OBVIOUS
<1> HIDE DEF Less
<1>4. PICK x \in S : \A y \in S : ~(<<y, x>> \in Less)
  BY <1>2, WFMin
<1>5. ASSUME NEW y \in S PROVE x <= y
  <2>1. x \in Nat /\ y \in Nat
    OBVIOUS
  <2>2. ~(y < x)
    BY <1>3, <1>4, <2>1, Zenon
  <2> QED
    BY <2>1, <2>2
<1> QED
  BY <1>5 DEF Min

-----------------------------------------------------------------------------
(* The inductive invariant of the reservations.                            *)

\* Ranges of pages that have one in common.
Meet(a, m, b, n) == a < b + n /\ b < a + m

Used(s) == ReservationList[s].State = "Used"
First(s) == ReservationList[s].StartVa
Room(s) == ReservationList[s].Size

\* Generated addresses have passed these pages, or will not reach them.
Passed(va, n) ==
    va + n <= NPages + 1 /\ (va + n <= FreeVirtualAddressPointer \/ va > GeneratedPages)

Bitmaps == (UNION {[0 .. n - 1 -> BOOLEAN] : n \in Nat}) \union {<<>>}

Reservations ==
    [State : {"Used", "Free", "Last"}, StartVa : Nat, Size : Nat, PageRights : Rights \union {{}},
     BackingFile : Files \union {NoFile}, Buffer : Nat, CommitBitmap : Bitmaps]

AllocPcs == {"reserve", "frames", "map", "read"}
FaultPcs == {"faultFrame", "faultMap"}
Positive == Nat \ {0}

\* A thread in VmmAllocRegionEx, VmmFreeRegionEx or VmmSolvePageFault.
AllocOps == [pc : AllocPcs, type : AllocTypes, va : Positive, n : Positive, rights : Rights,
             eager : BOOLEAN, file : Files \union {NoFile}, frame : Frames \union {NoFrame}]
FreeOps == [pc : {"free", "unmap"}, va : Positive, n : Positive, type : {"release", "decommit"},
            keep : {{}} \union {{p} : p \in Processes}]
FaultOps == [pc : FaultPcs, va : Positive, n : {1}, frame : Frames \union {NoFrame},
             file : Files \union {NoFile}]

OpInv ==
    /\ op \in [Threads -> {Idle} \union AllocOps \union FreeOps \union FaultOps]
    /\ \A t \in Threads :
           /\ op[t].pc # "out" => Passed(op[t].va, op[t].n)
           /\ op[t].pc \in AllocPcs /\ op[t].type = "stack" => op[t].n > GuardSize
           /\ op[t].pc \in AllocPcs /\ op[t].file # NoFile => op[t].type = "both"
           /\ op[t].pc = "reserve" /\ op[t].type = "reserve" => ~op[t].eager
           /\ op[t].pc = "read" => op[t].file # NoFile

\* The entries of the list: used ones come before the last mark, their bitmaps
\* have a bit for each page, and they share no page.
ListInv ==
    /\ ReservationList \in [Slots -> Reservations] /\ FreeVirtualAddressPointer \in Positive
    /\ FreeBitmapAddress \in Nat
    /\ \A s \in Slots : Used(s) =>
           /\ First(s) \in Positive /\ Room(s) \in Positive /\ Passed(First(s), Room(s))
           /\ ReservationList[s].CommitBitmap \in [0 .. Room(s) - 1 -> BOOLEAN]
    /\ \A s, i \in Slots : Used(s) /\ ReservationList[i].State = "Last" => s < i
    /\ \A s, i \in Slots : Used(s) /\ Used(i) /\ s # i => ~Meet(First(s), Room(s), First(i), Room(i))

\* The pages of a call that will reserve them are not reserved.
ClaimInv ==
    \A t \in Threads : op[t].pc = "reserve" /\ op[t].type # "commit" =>
        \A s \in Slots : Used(s) => ~Meet(op[t].va, op[t].n, First(s), Room(s))

\* The reservation was released, its pages are still to be unmapped: another
\* call may reserve them meanwhile.
Overtaken(t) == op[t].pc = "unmap" /\ op[t].type = "release"

\* Two calls are about the same pages only if both are faults, or one of them
\* has given the pages back.
ApartInv ==
    \A t, u \in Threads :
        /\ t # u /\ op[t].pc # "out" /\ op[u].pc # "out"
        /\ Meet(op[t].va, op[t].n, op[u].va, op[u].n)
        => Overtaken(t) \/ Overtaken(u) \/ {op[t].pc, op[u].pc} \subseteq FaultPcs

\* From the reservation to the unmapping a call has a reservation around its
\* pages: committed ones, until they are freed; just these, if they are released.
Committed(s, va, n) ==
    Overrun \/ \A p \in Span(va, n) : ReservationList[s].CommitBitmap[p - First(s)]
Releases(t) == IF op[t].pc \in AllocPcs THEN op[t].file # NoFile
               ELSE op[t].pc = "free" /\ op[t].type = "release"
Home(t, s) ==
    /\ Used(s) /\ CheckBounds(op[t].va, op[t].n, ReservationList[s])
    /\ op[t].pc \in AllocPcs \union FaultPcs => Committed(s, op[t].va, op[t].n)
    /\ Releases(t) => op[t].va = First(s) /\ op[t].n = Room(s)
HomeInv ==
    \A t \in Threads : op[t].pc \notin {"out", "reserve"} /\ ~Overtaken(t) => \E s \in Slots : Home(t, s)

\* The page is committed in the reservation; a step takes that from no page.
Covers(s, p) == Used(s) /\ CheckBounds(p, 1, ReservationList[s]) /\ Committed(s, p, 1)
CommitsStay == \A s \in Slots, p \in Pages : Covers(s, p) => Covers(s, p)'

\* MappedPagesAreCommitted, without the walk of the list.
MappedInv ==
    \A p \in Pages : pte[p] # NoFrame =>
        \/ \E s \in Slots : Covers(s, p)
        \/ \E t \in Threads : op[t].pc = "unmap" /\ p \in Span(op[t].va, op[t].n)

SpaceInv == OpInv /\ ListInv /\ ClaimInv /\ ApartInv /\ HomeInv

-----------------------------------------------------------------------------
(* The inductive invariant of the frames.                                  *)

Holding == {"map", "faultMap"}
WorkerPcs == {"wait", "clear", "zero", "unmap"}

FrameTypes ==
    /\ AllocationBitmap \in [Frames -> BOOLEAN]
    /\ pte \in [Pages -> Frames \union {NoFrame}]
    /\ PagesToZeroList \in Seq(Frames) /\ NewPagesEvent \in BOOLEAN
    /\ worker \in [pc : WorkerPcs, frame : Frames \union {NoFrame}]
    /\ worker.pc = "zero" => worker.frame \in Frames
    /\ tables \in [Processes -> Frames \union {NoFrame}]
    /\ \A p \in Processes : tables[p] # NoFrame => Span(tables[p], TableFrames) \subseteq Frames
    /\ images \in [Processes -> SUBSET Frames]
    /\ \A t \in Threads : op[t].pc \in Holding =>
           op[t].frame \in Nat /\ Span(op[t].frame, op[t].n) \subseteq Frames

\* FramesHaveOnePlace, of all frames and without counting.
OnePlace ==
    \A f \in Frames : Places(f) # {} => AllocationBitmap[f] /\ \E x : Places(f) = {x}

\* What a step may do with a frame: nothing, pass it on, take it when it is
\* free, release it, write over the only page that has it, or leave it behind
\* with the address space of a process.
Moved(f) ==
    \/ Places(f)' = Places(f) /\ AllocationBitmap'[f] = AllocationBitmap[f]
    \/ Places(f) # {} /\ AllocationBitmap'[f] = AllocationBitmap[f] /\ \E x : Places(f)' = {x}
    \/ AllocationBitmap'[f] = TRUE /\ \E x : Places(f)' = {x}
    \/ AllocationBitmap'[f] = FALSE /\ Places(f)' = {}
    \/ /\ f \in Remapped \union Abandoned
       /\ AllocationBitmap'[f] = AllocationBitmap[f] /\ Places(f)' \subseteq Places(f)

\* Ranges that have no page in common do not meet, and the other way round.
LEMMA SpansMeet ==
    ASSUME NEW a \in Nat, NEW m \in Positive, NEW b \in Nat, NEW n \in Positive
    PROVE  Meet(a, m, b, n) <=> Span(a, m) \intersect Span(b, n) # {}
<1>1. ASSUME Meet(a, m, b, n) PROVE Span(a, m) \intersect Span(b, n) # {}
  <2>1. CASE a <= b
    <3>1. b \in Span(a, m) /\ b \in Span(b, n)
      BY <1>1, <2>1 DEF Meet, Span, Positive
    <3> QED
      BY <3>1
  <2>2. CASE b < a
    <3>1. a \in Span(a, m) /\ a \in Span(b, n)
      BY <1>1, <2>2 DEF Meet, Span, Positive
    <3> QED
      BY <3>1
  <2> QED
    BY <2>1, <2>2
<1>2. ASSUME NEW p \in Span(a, m) \intersect Span(b, n) PROVE Meet(a, m, b, n)
  BY <1>2 DEF Meet, Span, Positive
<1> QED
  BY <1>1, <1>2

\* What the record of a thread holds, by where the thread is.
LEMMA OpClass ==
    ASSUME OpInv, NEW t \in Threads
    PROVE  /\ op[t].pc \in {"out", "free", "unmap"} \union AllocPcs \union FaultPcs
           /\ op[t].pc \in AllocPcs => op[t] \in AllocOps
           /\ op[t].pc \in {"free", "unmap"} => op[t] \in FreeOps
           /\ op[t].pc \in FaultPcs => op[t] \in FaultOps
           /\ op[t].pc # "out" => op[t].va \in Positive /\ op[t].n \in Positive
BY DEF OpInv, Idle, AllocOps, FreeOps, FaultOps, AllocPcs, FaultPcs, Positive

\* _VmFindReservation finds a used entry around the range, and the only one.
LEMMA FoundReservation ==
    ASSUME MemoryAssumption, ListInv, NEW va \in Positive, NEW n \in Positive
    PROVE  LET s == FindReservation(va, n)
           IN  /\ s # 0 => s \in Slots /\ Used(s) /\ CheckBounds(va, n, ReservationList[s])
               /\ \A i \in Slots : Used(i) /\ CheckBounds(va, n, ReservationList[i]) => s = i
<1> DEFINE found == {s \in BeforeLast : ReservationList[s].State = "Used"
                                        /\ CheckBounds(va, n, ReservationList[s])}
           s == FindReservation(va, n)
<1>1. s = IF found = {} THEN 0 ELSE Min(found)
  BY DEF FindReservation
<1>2. found \subseteq Slots /\ Slots \subseteq Nat /\ 0 \notin Slots
  BY DEF Slots, BeforeLast, MemoryAssumption
<1>3. \A i \in Slots : Used(i) => i \in BeforeLast
  BY DEF ListInv, BeforeLast, Slots, MemoryAssumption
<1>4. \A i \in Slots : i \in found <=> Used(i) /\ CheckBounds(va, n, ReservationList[i])
  BY <1>3 DEF Used
<1> HIDE DEF found, s
<1>5. found # {} => s \in found
  BY <1>1, <1>2, LeastNatural
<1>6. s # 0 => s \in found
  BY <1>1, <1>5
<1>7. \A i \in found : s = i
  <2> SUFFICES ASSUME NEW i \in found, s # i PROVE FALSE
    OBVIOUS
  <2>1. s \in found /\ s \in Slots /\ i \in Slots /\ Used(s) /\ Used(i)
    BY <1>2, <1>4, <1>5
  <2>2. First(s) \in Nat /\ First(i) \in Nat /\ Room(s) \in Nat /\ Room(i) \in Nat
    BY <2>1 DEF ListInv, Positive
  <2>3. Meet(First(s), Room(s), First(i), Room(i))
    BY <1>4, <2>1, <2>2 DEF Meet, CheckBounds, First, Room, Positive
  <2> QED
    BY <2>1, <2>3 DEF ListInv
<1> QED
  BY <1>2, <1>4, <1>6, <1>7 DEF s

\* _VmFindFirstFreeReservation: every entry before the first free one is used.
LEMMA FoundFree ==
    ASSUME MemoryAssumption, FindFirstFree # 0
    PROVE  /\ FindFirstFree \in Slots /\ ~Used(FindFirstFree)
           /\ \A i \in Slots : i < FindFirstFree => Used(i)
<1> DEFINE open == {s \in Slots : ReservationList[s].State # "Used"}
<1>1. FindFirstFree = Min(open) /\ open # {}
  BY DEF FindFirstFree
<1>2. open \subseteq Nat /\ Slots \subseteq Nat
  BY DEF Slots, MemoryAssumption
<1>3. \A i \in Slots : i \in open <=> ~Used(i)
  BY DEF Used
<1>4. open \subseteq Slots
  OBVIOUS
<1> HIDE DEF open
<1>5. Min(open) \in open /\ \A i \in open : Min(open) <= i
  BY <1>1, <1>2, LeastNatural
<1>6. ASSUME NEW i \in Slots, i < Min(open) PROVE i \notin open
  <2>1. i \in Nat /\ Min(open) \in Nat
    BY <1>2, <1>5, Zenon
  <2>2. ~(Min(open) <= i)
    BY <1>6, <2>1
  <2> QED
    BY <1>5, <2>2, Zenon
<1> QED
  BY <1>1, <1>3, <1>4, <1>5, <1>6

-----------------------------------------------------------------------------
(* Steps that leave the reservations alone.                                *)

\* A step that changes neither the calls nor the reservations.
LEMMA NothingMoves ==
    ASSUME SpaceInv, UNCHANGED <<op, ReservationList, FreeBitmapAddress, FreeVirtualAddressPointer>> PROVE SpaceInv'
BY DEF SpaceInv, OpInv, ListInv, ClaimInv, ApartInv, HomeInv, Home, Releases, Overtaken, Committed, Overrun,
       Used, First, Room, Passed

\* A call is over.
LEMMA CallEnds ==
    ASSUME SpaceInv, NEW t \in Threads, Return(t),
           UNCHANGED <<ReservationList, FreeBitmapAddress, FreeVirtualAddressPointer>>
    PROVE  SpaceInv'
<1> USE DEF SpaceInv
<1>1. /\ op' \in [Threads -> {Idle} \union AllocOps \union FreeOps \union FaultOps]
      /\ op'[t].pc = "out" /\ \A u \in Threads \ {t} : op'[u] = op[u]
  <2>1. Idle.pc = "out"
    BY DEF Idle
  <2> QED
    BY <2>1 DEF OpInv, Return
<1>2. OpInv'
  BY <1>1 DEF OpInv, Passed, AllocPcs
<1>3. ListInv'
  BY DEF ListInv, Used, First, Room, Passed
<1>4. ClaimInv'
  BY <1>1 DEF ClaimInv, Used, First, Room
<1>5. ApartInv'
  BY <1>1 DEF ApartInv, Overtaken
<1>6. HomeInv'
  BY <1>1 DEF HomeInv, Home, Releases, Overtaken, Committed, Overrun, Used, First, Room
<1> QED
  BY <1>2, <1>3, <1>4, <1>5, <1>6

\* A call goes on with the same pages, which it may release in the end.
LEMMA CallGoesOn ==
    ASSUME SpaceInv, NEW t \in Threads,
           UNCHANGED <<ReservationList, FreeBitmapAddress, FreeVirtualAddressPointer>>,
           op' \in [Threads -> {Idle} \union AllocOps \union FreeOps \union FaultOps],
           \A u \in Threads \ {t} : op'[u] = op[u],
           op'[t].va = op[t].va, op'[t].n = op[t].n,
           \/ /\ {op[t].pc, op'[t].pc} \subseteq AllocPcs \ {"reserve"}
              /\ op'[t].file = op[t].file /\ op'[t].type = op[t].type
              /\ op'[t].pc = "read" => op[t].file # NoFile
           \/ {op[t].pc, op'[t].pc} \subseteq FaultPcs
           \/ op[t].pc = "read" /\ op'[t].pc = "free"
    PROVE  SpaceInv'
<1> USE DEF SpaceInv
<1>1. op[t].pc \notin {"out", "reserve", "unmap"} /\ op'[t].pc \notin {"out", "reserve", "unmap"}
  BY DEF AllocPcs, FaultPcs
<1>2. OpInv'
  BY <1>1 DEF OpInv, Passed, AllocPcs, FaultPcs
<1>3. ListInv'
  BY DEF ListInv, Used, First, Room, Passed
<1>4. ClaimInv'
  BY <1>1 DEF ClaimInv, Used, First, Room
<1>5. ApartInv'
  <2> SUFFICES ASSUME NEW u \in Threads, NEW v \in Threads,
                      u # v, op'[u].pc # "out", op'[v].pc # "out",
                      Meet(op'[u].va, op'[u].n, op'[v].va, op'[v].n),
                      ~Overtaken(u)', ~Overtaken(v)'
               PROVE  {op'[u].pc, op'[v].pc} \subseteq FaultPcs
    BY DEF ApartInv
  <2>1. ~Overtaken(u) /\ ~Overtaken(v)
    BY <1>1 DEF Overtaken
  <2>2. {op[u].pc, op[v].pc} \subseteq FaultPcs
    BY <1>1, <2>1 DEF ApartInv
  <2> QED
    BY <2>2 DEF AllocPcs, FaultPcs
<1>6. HomeInv'
  <2> SUFFICES ASSUME NEW u \in Threads, op'[u].pc \notin {"out", "reserve"}, ~Overtaken(u)'
               PROVE  \E s \in Slots : Home(u, s)'
    BY DEF HomeInv
  <2>1. op[u].pc \notin {"out", "reserve"} /\ ~Overtaken(u)
    BY <1>1 DEF Overtaken
  <2>2. PICK s \in Slots : Home(u, s)
    BY <2>1 DEF HomeInv
  <2>3. CASE u = t
    <3>1. Releases(t)' => Releases(t)
      BY <1>1 DEF Releases, OpInv, AllocPcs, FaultPcs
    <3>2. op'[t].pc \in AllocPcs \union FaultPcs => op[t].pc \in AllocPcs \union FaultPcs
      BY DEF AllocPcs, FaultPcs
    <3> QED
      BY <2>2, <2>3, <3>1, <3>2 DEF Home, Committed, Overrun, Used, First, Room
  <2>4. CASE u # t
    BY <2>2, <2>4 DEF Home, Releases, Committed, Overrun, Used, First, Room
  <2> QED
    BY <2>3, <2>4
<1> QED
  BY <1>2, <1>3, <1>4, <1>5, <1>6

\* A call begins with pages that nobody has, or that another call has given back.
LEMMA CallBegins ==
    ASSUME MemoryAssumption, SpaceInv, NEW t \in Threads, op[t].pc = "out",
           UNCHANGED <<ReservationList, FreeBitmapAddress>>, FreeVirtualAddressPointer' \in Positive,
           FreeVirtualAddressPointer <= FreeVirtualAddressPointer',
           op' \in [Threads -> {Idle} \union AllocOps \union FreeOps \union FaultOps],
           \A u \in Threads \ {t} : op'[u] = op[u],
           op'[t].pc \in {"reserve", "free", "faultFrame"}, Passed(op[t].va, op[t].n)',
           op'[t].pc = "reserve" => /\ op'[t].type = "stack" => op'[t].n > GuardSize
                                    /\ op'[t].type = "reserve" => ~op'[t].eager
                                    /\ op'[t].file # NoFile => op'[t].type = "both",
           op'[t].pc = "reserve" /\ op'[t].type # "commit" =>
               \A s \in Slots : Used(s) => ~Meet(op'[t].va, op'[t].n, First(s), Room(s)),
           \A u \in Threads \ {t} : op[u].pc # "out" /\ Meet(op'[t].va, op'[t].n, op[u].va, op[u].n)
               => Overtaken(u) \/ {op'[t].pc, op[u].pc} \subseteq FaultPcs,
           op'[t].pc # "reserve" => \E s \in Slots : Home(t, s)'
    PROVE  SpaceInv'
<1> USE DEF SpaceInv
<1>1. \A va, n \in Nat : Passed(va, n) => Passed(va, n)'
  BY DEF Passed, ListInv, Positive
<1>2. \A u \in Threads : op[u].pc # "out" => op[u].va \in Nat /\ op[u].n \in Nat
  BY OpClass DEF Positive
<1>3. OpInv'
  <2>1. \A u \in Threads : op'[u].pc # "out" => Passed(op[u].va, op[u].n)'
    <3> SUFFICES ASSUME NEW u \in Threads \ {t}, op'[u].pc # "out" PROVE Passed(op[u].va, op[u].n)'
      OBVIOUS
    <3>1. op'[u] = op[u] /\ op[u].pc # "out" /\ Passed(op[u].va, op[u].n)
      BY DEF OpInv
    <3> QED
      BY <1>2, <3>1 DEF Passed, ListInv, Positive
  <2> QED
    BY <2>1 DEF OpInv, AllocPcs
<1>4. ListInv'
  <2>1. \A s \in Slots : Used(s) => Passed(First(s), Room(s))' /\ First(s)' = First(s) /\ Room(s)' = Room(s)
    BY <1>1 DEF ListInv, First, Room, Positive
  <2> QED
    BY <2>1 DEF ListInv, Used, First, Room
<1>5. ClaimInv'
  BY DEF ClaimInv, Used, First, Room
<1>6. ApartInv'
  <2> SUFFICES ASSUME NEW u \in Threads, NEW v \in Threads,
                      u # v, op'[u].pc # "out", op'[v].pc # "out",
                      Meet(op'[u].va, op'[u].n, op'[v].va, op'[v].n),
                      ~Overtaken(u)', ~Overtaken(v)'
               PROVE  {op'[u].pc, op'[v].pc} \subseteq FaultPcs
    BY DEF ApartInv
  <2>1. CASE u # t /\ v # t
    BY <2>1 DEF ApartInv, Overtaken
  <2>2. CASE u = t
    BY <2>2 DEF Overtaken
  <2>3. CASE v = t
    <3>1. Meet(op'[t].va, op'[t].n, op[u].va, op[u].n)
      BY <2>3 DEF Meet
    <3> QED
      BY <2>3, <3>1 DEF Overtaken
  <2> QED
    BY <2>1, <2>2, <2>3
<1>7. HomeInv'
  <2> SUFFICES ASSUME NEW u \in Threads \ {t}, op'[u].pc \notin {"out", "reserve"}, ~Overtaken(u)'
               PROVE  \E s \in Slots : Home(u, s)'
    BY DEF HomeInv
  <2>1. PICK s \in Slots : Home(u, s)
    BY DEF HomeInv, Overtaken
  <2> QED
    BY <2>1 DEF Home, Releases, Committed, Overrun, Used, First, Room
<1> QED
  BY <1>3, <1>4, <1>5, <1>6, <1>7

\* AllocGenerated: nobody has been given the pages the pointer passes now.
LEMMA GeneratedPagesAreNew ==
    ASSUME MemoryAssumption, SpaceInv, NEW t \in Threads,
           NEW type \in AllocTypes, NEW n \in 1 .. MaxSize, NEW rights \in Rights,
           NEW eager \in BOOLEAN, NEW file \in Files \union {NoFile},
           file # NoFile => type = "both", type = "stack" => n > GuardSize, type = "reserve" => ~eager,
           AllocGenerated(t, type, n, rights, eager, file)
    PROVE  SpaceInv'
<1> DEFINE va == FreeVirtualAddressPointer
           o == [pc |-> "reserve", type |-> type, va |-> va, n |-> n, rights |-> rights,
                 eager |-> eager, file |-> file, frame |-> NoFrame]
<1>1. /\ op[t].pc = "out" /\ type # "commit" /\ op' = [op EXCEPT ![t] = o]
      /\ va + n <= GeneratedPages + 1 /\ FreeVirtualAddressPointer' = va + n
      /\ UNCHANGED <<ReservationList, FreeBitmapAddress>>
  BY DEF AllocGenerated
<1>2. n \in Positive /\ va \in Positive /\ GeneratedPages \in Nat /\ NPages \in Nat /\ GeneratedPages <= NPages
  BY DEF SpaceInv, ListInv, Positive, MemoryAssumption
<1>3. o \in AllocOps /\ o.pc = "reserve" /\ o.type = type /\ o.va = va /\ o.n = n /\ o.file = file
      /\ o.eager = eager
  BY <1>2 DEF AllocOps, AllocPcs
<1> HIDE DEF o
<1>4. /\ op' \in [Threads -> {Idle} \union AllocOps \union FreeOps \union FaultOps]
      /\ op'[t] = o /\ \A u \in Threads \ {t} : op'[u] = op[u]
  BY <1>1, <1>3 DEF SpaceInv, OpInv
<1>5. \A b, m \in Nat : Passed(b, m) => ~Meet(va, n, b, m)
  BY <1>1, <1>2 DEF Passed, Meet, Positive
<1>6. \A s \in Slots : Used(s) => ~Meet(va, n, First(s), Room(s))
  BY <1>5 DEF SpaceInv, ListInv, Positive
<1>7. \A u \in Threads \ {t} : op[u].pc # "out" => ~Meet(va, n, op[u].va, op[u].n)
  BY <1>5, OpClass DEF SpaceInv, OpInv, Positive
<1>8. Passed(op[t].va, op[t].n)' /\ va + n \in Positive /\ va <= va + n
  BY <1>1, <1>2, <1>3, <1>4 DEF Passed, Positive
<1> QED
  BY <1>1, <1>3, <1>4, <1>6, <1>7, <1>8, CallBegins DEF FaultPcs

\* AllocAt: pages to commit are in no other call, pages to reserve are not
\* reserved, and a call in a reservation keeps it.
LEMMA PagesAskedForAreFree ==
    ASSUME MemoryAssumption, SpaceInv, NEW t \in Threads,
           NEW type \in AllocTypes, NEW va \in Pages, NEW n \in 1 .. MaxSize, NEW rights \in Rights,
           NEW eager \in BOOLEAN, type = "reserve" => ~eager, AllocAt(t, type, va, n, rights, eager)
    PROVE  SpaceInv'
<1> DEFINE o == [pc |-> "reserve", type |-> type, va |-> va, n |-> n, rights |-> rights,
                 eager |-> eager, file |-> NoFile, frame |-> NoFrame]
<1>1. /\ op[t].pc = "out" /\ type # "stack" /\ op' = [op EXCEPT ![t] = o]
      /\ va + n <= FreeVirtualAddressPointer \/ va > GeneratedPages
      /\ UNCHANGED <<ReservationList, FreeBitmapAddress, FreeVirtualAddressPointer>>
  BY DEF AllocAt, spaceVars
<1>2. n \in Positive /\ va \in Positive
  BY DEF Positive, MemoryAssumption, Pages
<1>3. o \in AllocOps /\ o.pc = "reserve" /\ o.type = type /\ o.va = va /\ o.n = n /\ o.file = NoFile
      /\ o.eager = eager
  BY <1>2 DEF AllocOps, AllocPcs
<1> HIDE DEF o
<1>4. /\ op' \in [Threads -> {Idle} \union AllocOps \union FreeOps \union FaultOps]
      /\ op'[t] = o /\ \A u \in Threads \ {t} : op'[u] = op[u]
  BY <1>1, <1>3 DEF SpaceInv, OpInv
<1>5. \A u \in Threads : op[u].pc # "out" =>
          /\ op[u].va \in Nat /\ op[u].n \in Positive
          /\ Meet(va, n, op[u].va, op[u].n) => Span(op[u].va, op[u].n) \intersect Span(va, n) # {}
  <2> SUFFICES ASSUME NEW u \in Threads, op[u].pc # "out"
               PROVE  /\ op[u].va \in Nat /\ op[u].n \in Positive
                      /\ Meet(va, n, op[u].va, op[u].n) =>
                             Span(op[u].va, op[u].n) \intersect Span(va, n) # {}
    OBVIOUS
  <2>1. op[u].va \in Nat /\ op[u].n \in Positive /\ va \in Nat
    BY <1>2, OpClass DEF SpaceInv, Positive
  <2>2. Meet(va, n, op[u].va, op[u].n) => Span(va, n) \intersect Span(op[u].va, op[u].n) # {}
    BY <1>2, <2>1, SpansMeet
  <2> QED
    BY <2>1, <2>2
<1>6. \A s \in Slots : Used(s) /\ type # "commit" => ~Meet(va, n, First(s), Room(s))
  <2> SUFFICES ASSUME NEW s \in Slots, Used(s), type # "commit", Meet(va, n, First(s), Room(s))
               PROVE  FALSE
    OBVIOUS
  <2>1. First(s) \in Nat /\ Room(s) \in Positive
    BY DEF SpaceInv, ListInv, Positive
  <2>2. Span(va, n) \intersect Span(First(s), Room(s)) # {}
    BY <1>2, <2>1, SpansMeet DEF Positive
  <2>3. Unreserved(t, va, n)
    BY DEF AllocAt
  <2> QED
    BY <2>2, <2>3 DEF Unreserved, Used, First, Room
<1>7. ASSUME NEW u \in Threads \ {t}, op[u].pc # "out", Meet(va, n, op[u].va, op[u].n)
      PROVE  Overtaken(u)
  <2>1. Span(op[u].va, op[u].n) \intersect Span(va, n) # {}
    BY <1>5, <1>7
  <2>2. type # "commit" /\ Unreserved(t, va, n)
    BY <1>7, <2>1 DEF AllocAt, Quiet
  <2>3. op[u].pc \notin AllocPcs
    BY <2>1, <2>2 DEF Unreserved, AllocPcs
  <2> SUFFICES ASSUME ~Overtaken(u) PROVE FALSE
    OBVIOUS
  <2>4. PICK s \in Slots : Home(u, s)
    BY <1>7, <2>3 DEF SpaceInv, HomeInv, AllocPcs
  <2>5. Used(s) /\ First(s) \in Nat /\ Room(s) \in Nat
    BY <2>4 DEF Home, SpaceInv, ListInv, Positive
  <2>6. Meet(va, n, First(s), Room(s))
    BY <1>2, <1>5, <1>7, <2>4, <2>5 DEF Meet, Home, CheckBounds, First, Room, Positive
  <2> QED
    BY <1>6, <2>2, <2>5, <2>6
<1>8. Passed(op[t].va, op[t].n)'
  <2>1. va + n - 1 \in Span(va, n) /\ NPages \in Nat
    BY <1>2 DEF Span, Positive, MemoryAssumption
  <2>2. va + n - 1 <= NPages
    BY <1>2, <2>1 DEF AllocAt, Pages, Positive
  <2>3. va + n <= NPages + 1
    BY <1>2, <2>1, <2>2 DEF Positive
  <2> QED
    BY <1>1, <1>3, <1>4, <2>3 DEF Passed
<1>9. FreeVirtualAddressPointer \in Positive /\ FreeVirtualAddressPointer <= FreeVirtualAddressPointer
  BY DEF SpaceInv, ListInv, Positive
<1> QED
  BY <1>1, <1>3, <1>4, <1>6, <1>7, <1>8, <1>9, CallBegins DEF FaultPcs

\* FreeBegin: the pages are in a reservation and in no other call.
LEMMA PagesToFreeAreQuiet ==
    ASSUME MemoryAssumption, SpaceInv, NEW t \in Threads, NEW s \in Slots,
           NEW type \in {"release", "decommit"}, NEW va \in Pages, NEW n \in 1 .. MaxSize,
           NEW keep \in {{}} \union {{p} : p \in Processes}, FreeBegin(t, s, type, va, n, keep)
    PROVE  SpaceInv'
<1> DEFINE o == [pc |-> "free", va |-> va, n |-> n, type |-> type, keep |-> keep]
<1>1. /\ op[t].pc = "out" /\ op' = [op EXCEPT ![t] = o] /\ Quiet(t, va, n)
      /\ Used(s) /\ CheckBounds(va, n, ReservationList[s])
      /\ type = "release" => va = First(s) /\ n = Room(s)
      /\ UNCHANGED <<ReservationList, FreeBitmapAddress, FreeVirtualAddressPointer>>
  BY DEF FreeBegin, spaceVars, Used, First, Room
<1>2. n \in Positive /\ va \in Positive
  BY DEF Positive, MemoryAssumption, Pages
<1>3. o \in FreeOps /\ o.pc = "free" /\ o.type = type /\ o.va = va /\ o.n = n
  BY <1>2 DEF FreeOps
<1> HIDE DEF o
<1>4. /\ op' \in [Threads -> {Idle} \union AllocOps \union FreeOps \union FaultOps]
      /\ op'[t] = o /\ \A u \in Threads \ {t} : op'[u] = op[u]
  BY <1>1, <1>3 DEF SpaceInv, OpInv
<1>5. \A u \in Threads \ {t} : op[u].pc # "out" => ~Meet(va, n, op[u].va, op[u].n)
  <2> SUFFICES ASSUME NEW u \in Threads \ {t}, op[u].pc # "out" PROVE ~Meet(va, n, op[u].va, op[u].n)
    OBVIOUS
  <2>1. op[u].va \in Nat /\ op[u].n \in Positive /\ va \in Nat
    BY <1>2, OpClass DEF SpaceInv, Positive
  <2>2. Meet(va, n, op[u].va, op[u].n) => Span(va, n) \intersect Span(op[u].va, op[u].n) # {}
    BY <1>2, <2>1, SpansMeet
  <2> QED
    BY <1>1, <2>2 DEF Quiet
<1>6. Passed(op[t].va, op[t].n)'
  <2>1. Passed(First(s), Room(s)) /\ First(s) \in Nat /\ Room(s) \in Nat
    BY <1>1 DEF SpaceInv, ListInv, Positive
  <2>2. FreeVirtualAddressPointer \in Nat /\ GeneratedPages \in Nat /\ NPages \in Nat
    BY DEF SpaceInv, ListInv, Positive, MemoryAssumption
  <2> QED
    BY <1>1, <1>2, <1>3, <1>4, <2>1, <2>2 DEF Passed, CheckBounds, First, Room, Positive
<1>7. Home(t, s)'
  BY <1>1, <1>3, <1>4 DEF Home, Used, First, Room, Releases, AllocPcs, FaultPcs
<1>8. FreeVirtualAddressPointer \in Positive /\ FreeVirtualAddressPointer <= FreeVirtualAddressPointer
  BY DEF SpaceInv, ListInv, Positive
<1> QED
  BY <1>1, <1>3, <1>4, <1>5, <1>6, <1>7, <1>8, CallBegins

\* FaultCheck: the page is committed in a reservation, and in no call but faults.
LEMMA FaultsAreInReservations ==
    ASSUME MemoryAssumption, SpaceInv, NEW t \in Threads, NEW va \in Pages, NEW rights \in Rights,
           FaultCheck(t, va, rights)
    PROVE  SpaceInv'
<1>1. va \in Positive /\ 1 \in Positive
  BY DEF Positive, MemoryAssumption, Pages
<1>2. PICK s \in Slots : /\ s = FindReservation(va, 1) /\ Used(s)
                         /\ CheckBounds(va, 1, ReservationList[s])
  <2>1. FindReservation(va, 1) # 0
    BY DEF FaultCheck, CanAddressBeAccessed
  <2> QED
    BY <1>1, <2>1, FoundReservation DEF SpaceInv
<1> DEFINE o == [pc |-> "faultFrame", va |-> va, n |-> 1, frame |-> NoFrame,
                 file |-> ReservationList[s].BackingFile]
<1>3. /\ op[t].pc = "out" /\ op' = [op EXCEPT ![t] = o]
      /\ IsVaCommited(ReservationList[s], va)
      /\ \A u \in Threads \ {t} : op[u].pc \notin {"out", "faultFrame", "faultMap"} =>
             va \notin Span(op[u].va, op[u].n)
      /\ UNCHANGED <<ReservationList, FreeBitmapAddress, FreeVirtualAddressPointer>>
  BY <1>2 DEF FaultCheck, spaceVars, CanAddressBeAccessed
<1>4. o \in FaultOps /\ o.pc = "faultFrame" /\ o.va = va /\ o.n = 1
  BY <1>1, <1>2 DEF FaultOps, FaultPcs, SpaceInv, ListInv, Reservations
<1> HIDE DEF o
<1>5. /\ op' \in [Threads -> {Idle} \union AllocOps \union FreeOps \union FaultOps]
      /\ op'[t] = o /\ \A u \in Threads \ {t} : op'[u] = op[u]
  BY <1>3, <1>4 DEF SpaceInv, OpInv
<1>6. ASSUME NEW u \in Threads \ {t}, op[u].pc # "out", Meet(va, 1, op[u].va, op[u].n)
      PROVE  op[u].pc \in FaultPcs
  <2>1. op[u].va \in Nat /\ op[u].n \in Nat
    BY <1>6, OpClass DEF SpaceInv, Positive
  <2>2. va \in Span(op[u].va, op[u].n)
    BY <1>1, <1>6, <2>1 DEF Meet, Span, Positive
  <2> QED
    BY <1>3, <1>6, <2>2 DEF FaultPcs
<1>7. Passed(op[t].va, op[t].n)'
  <2>1. Passed(First(s), Room(s)) /\ First(s) \in Nat /\ Room(s) \in Nat
    BY <1>2 DEF SpaceInv, ListInv, Positive
  <2>2. FreeVirtualAddressPointer \in Nat /\ GeneratedPages \in Nat /\ NPages \in Nat
    BY DEF SpaceInv, ListInv, Positive, MemoryAssumption
  <2> QED
    BY <1>3, <1>1, <1>2, <1>4, <1>5, <2>1, <2>2 DEF Passed, CheckBounds, First, Room, Positive
<1>8. Home(t, s)'
  <2>1. Committed(s, va, 1)
    <3>1. \A p \in Span(va, 1) : p = va
      BY <1>1 DEF Span, Positive
    <3> QED
      BY <1>3, <3>1 DEF Committed, Overrun, IsVaCommited, First
  <2> QED
    BY <1>3, <1>2, <1>4, <1>5, <2>1 DEF Home, Used, First, Room, Releases, AllocPcs, FaultPcs, Committed, Overrun
<1>9. FreeVirtualAddressPointer \in Positive /\ FreeVirtualAddressPointer <= FreeVirtualAddressPointer
  BY DEF SpaceInv, ListInv, Positive
<1> QED
  BY <1>3, <1>2, <1>4, <1>5, <1>6, <1>7, <1>8, <1>9, CallBegins DEF FaultPcs

-----------------------------------------------------------------------------
(* Steps under the ReservationLock.                                        *)

\* _VmChangeVaReservationState and _VmInitializeReservation take the first free
\* entry and leave the used ones as they are; the last mark stays behind them.
\* When it leaves the list it may change commit bits, and is not in the list again.
LEMMA ReserveTakesFreeSlot ==
    ASSUME MemoryAssumption, ListInv, FindFirstFree # 0,
           NEW va \in Positive, NEW n \in Positive, NEW rights \in Rights,
           NEW file \in Files \union {NoFile}
    PROVE  LET s == FindFirstFree
               list == Reserve(ReservationList, va, n, rights, file)
           IN  /\ s \in Slots /\ ~Used(s) /\ list \in [Slots -> Reservations]
               /\ list[s] = NewReservation(va, n, rights, file)
               /\ \A i \in Slots \ {s} : list[i].State = "Used" <=> Used(i)
               /\ \A i \in Slots \ {s} : Used(i) =>
                      /\ list[i].StartVa = First(i) /\ list[i].Size = Room(i)
                      /\ list[i].CommitBitmap \in [0 .. Room(i) - 1 -> BOOLEAN]
               /\ \/ \A i \in Slots : list[i].State # "Last"
                  \/ \A i \in Slots \ {s} : Used(i) => list[i] = ReservationList[i]
               /\ Overrun => \A i \in Slots : list[i].State # "Last"
               /\ \A i, j \in Slots : list[i].State = "Used" /\ list[j].State = "Last" => i < j
<1> DEFINE s == FindFirstFree
           new == NewReservation(va, n, rights, file)
           took == TakeSlot(ReservationList, s)
           list == Reserve(ReservationList, va, n, rights, file)
<1>1. s \in Slots /\ ~Used(s) /\ \A i \in Slots : i < s => Used(i)
  BY FoundFree
<1>2. new \in Reservations /\ new.State = "Used"
  <2>1. BitmapInit(n, FALSE) \in [0 .. n - 1 -> BOOLEAN]
    BY DEF BitmapInit
  <2>2. BitmapInit(n, FALSE) \in Bitmaps
    BY <2>1 DEF Bitmaps, Positive
  <2> QED
    BY <2>2 DEF NewReservation, Reservations, Positive, ListInv
<1>3. list = [took EXCEPT ![s] = new]
  BY DEF Reserve
<1>4. Slots \subseteq Nat /\ ReservationList \in [Slots -> Reservations]
  BY DEF Slots, MemoryAssumption, ListInv
<1> DEFINE stamped(i) == [ReservationList[i] EXCEPT !.CommitBitmap = StampedWithLast(ReservationList[i].CommitBitmap)]
<1>5. \A i \in Slots : /\ ReservationList[i].State \in {"Used", "Free", "Last"}
                       /\ [ReservationList[i] EXCEPT !.State = "Last"] \in Reservations
                       /\ [ReservationList[i] EXCEPT !.State = "Last"].State = "Last"
  BY <1>4 DEF Reservations
<1>6. ASSUME NEW i \in Slots, Used(i)
      PROVE  /\ stamped(i) \in Reservations /\ stamped(i).State = "Used"
             /\ stamped(i).StartVa = First(i) /\ stamped(i).Size = Room(i)
             /\ stamped(i).CommitBitmap \in [0 .. Room(i) - 1 -> BOOLEAN]
  <2> DEFINE b == ReservationList[i].CommitBitmap
             c == StampedWithLast(b)
  <2>1. b \in [0 .. Room(i) - 1 -> BOOLEAN] /\ Room(i) \in Nat /\ ReservationList[i] \in Reservations
    BY <1>4, <1>6 DEF ListInv, Positive
  <2>2. c \in [0 .. Room(i) - 1 -> BOOLEAN]
    BY <2>1 DEF StampedWithLast
  <2> HIDE DEF b, c
  <2>3. c \in Bitmaps
    BY <2>1, <2>2 DEF Bitmaps
  <2>4. stamped(i) = [ReservationList[i] EXCEPT !.CommitBitmap = c]
    BY DEF c, b
  <2> HIDE DEF stamped
  <2> QED
    BY <1>6, <2>1, <2>2, <2>3, <2>4 DEF Reservations, Used, First, Room
<1> DEFINE moves(i) == i = s + 1 /\ ReservationList[s].State = "Last"
           leaves(i) == s = NSlots /\ ReservationList[s].State = "Last" /\ Used(i)
                        /\ ReservationList[i].Buffer = 0
<1>7. /\ took \in [Slots -> Reservations]
      /\ \A i \in Slots : took[i] = IF moves(i) THEN [ReservationList[i] EXCEPT !.State = "Last"]
                                    ELSE IF leaves(i) THEN stamped(i) ELSE ReservationList[i]
  <2>1. took = [i \in Slots |-> IF moves(i) THEN [ReservationList[i] EXCEPT !.State = "Last"]
                                ELSE IF leaves(i) THEN stamped(i) ELSE ReservationList[i]]
    BY DEF TakeSlot, Used
  <2> HIDE DEF took, moves, stamped
  <2> QED
    BY <1>4, <1>5, <1>6, <2>1
<1> HIDE DEF s, new, took, list, stamped
<1>8. /\ list \in [Slots -> Reservations] /\ list[s] = new
      /\ \A i \in Slots \ {s} : list[i] = took[i]
  BY <1>1, <1>2, <1>3, <1>7
<1>9. \A i, j \in Slots : Used(i) /\ ReservationList[j].State = "Last" => i < j
  BY DEF ListInv
<1>10. ReservationList[s].State = "Last" => \A i \in Slots : Used(i) <=> i < s
  BY <1>1, <1>4, <1>9
<1>12. ASSUME NEW i \in Slots \ {s}
       PROVE  /\ list[i].State = "Used" <=> Used(i)
              /\ list[i].State = IF moves(i) THEN "Last" ELSE ReservationList[i].State
              /\ Used(i) => /\ list[i].StartVa = First(i) /\ list[i].Size = Room(i)
                            /\ list[i].CommitBitmap \in [0 .. Room(i) - 1 -> BOOLEAN]
              /\ Used(i) /\ list[i] # ReservationList[i] => leaves(i)
  <2>1. CASE moves(i)
    <3>1. s \in Nat /\ ~(s + 1 < s)
      BY <1>1, <1>4
    <3>2. ~Used(i)
      BY <1>10, <2>1, <3>1
    <3>3. list[i].State = "Last"
      BY <1>5, <1>7, <1>8, <2>1
    <3> QED
      BY <2>1, <3>2, <3>3
  <2>2. CASE ~moves(i) /\ leaves(i)
    <3>1. list[i] = stamped(i) /\ Used(i)
      BY <1>7, <1>8, <2>2
    <3> QED
      BY <1>6, <2>2, <3>1 DEF Used
  <2>3. CASE ~moves(i) /\ ~leaves(i)
    <3>1. list[i] = ReservationList[i]
      BY <1>7, <1>8, <2>3
    <3> QED
      BY <2>3, <3>1 DEF Used, ListInv, First, Room
  <2> QED
    BY <2>1, <2>2, <2>3
<1>13. \/ \A i \in Slots : list[i].State # "Last"
       \/ \A i \in Slots \ {s} : Used(i) => list[i] = ReservationList[i]
  <2> SUFFICES ASSUME NEW j \in Slots \ {s}, leaves(j), NEW i \in Slots PROVE list[i].State # "Last"
    BY <1>12
  <2>1. CASE i = s
    BY <1>2, <1>8, <2>1
  <2>2. CASE i # s
    <3>1. i < s /\ ~moves(i)
      BY <1>1, <2>2 DEF Slots, MemoryAssumption
    <3> QED
      BY <1>1, <1>12, <2>2, <3>1 DEF Used
  <2> QED
    BY <2>1, <2>2
<1>14. Overrun => \A i \in Slots : list[i].State # "Last"
  <2> SUFFICES ASSUME Overrun, NEW i \in Slots PROVE list[i].State # "Last"
    OBVIOUS
  <2>1. ReservationList[s].State # "Last" /\ ReservationList[i].State # "Last"
    BY <1>1 DEF Overrun
  <2>2. CASE i = s
    BY <1>2, <1>8, <2>2
  <2>3. CASE i # s
    BY <1>12, <2>1, <2>3
  <2> QED
    BY <2>2, <2>3
<1>11. ASSUME NEW i \in Slots, NEW j \in Slots, list[i].State = "Used", list[j].State = "Last"
       PROVE  i < j
  <2>1. j # s
    BY <1>2, <1>8, <1>11
  <2>2. i = s \/ Used(i)
    BY <1>11, <1>12
  <2>3. CASE j = s + 1 /\ ReservationList[s].State = "Last"
    BY <1>1, <1>4, <1>10, <2>2, <2>3
  <2>4. CASE ~(j = s + 1 /\ ReservationList[s].State = "Last")
    <3>1. ReservationList[j].State = "Last" /\ ~Used(j)
      BY <1>11, <1>12, <2>1, <2>4 DEF Used
    <3>2. s < j
      BY <1>1, <1>4, <2>1, <3>1
    <3> QED
      BY <1>9, <2>2, <3>1, <3>2
  <2> QED
    BY <2>3, <2>4
<1> QED
  BY <1>1, <1>8, <1>11, <1>12, <1>13, <1>14 DEF s, list, new

\* The pages of the call become a reservation, committed if it goes on with them.
LEMMA PagesGetReserved ==
    ASSUME MemoryAssumption, SpaceInv, NEW t \in Threads, NEW s \in Slots, ~Used(s),
           op[t].pc = "reserve", op[t].type # "commit",
           UNCHANGED FreeVirtualAddressPointer, FreeBitmapAddress' \in Nat,
           ReservationList' \in [Slots -> Reservations],
           Used(s)', First(s)' = op[t].va, Room(s)' = op[t].n,
           ReservationList'[s].CommitBitmap \in [0 .. op[t].n - 1 -> BOOLEAN],
           \A i \in Slots \ {s} : ReservationList'[i].State = "Used" <=> Used(i),
           \A i \in Slots \ {s} : Used(i) =>
               /\ First(i)' = First(i) /\ Room(i)' = Room(i)
               /\ ReservationList'[i].CommitBitmap \in [0 .. Room(i) - 1 -> BOOLEAN],
           Overrun' \/ \A i \in Slots \ {s} : Used(i) => ReservationList'[i] = ReservationList[i],
           Overrun => Overrun',
           \A i, j \in Slots : ReservationList'[i].State = "Used" /\ ReservationList'[j].State = "Last"
                               => i < j,
           op' \in [Threads -> {Idle} \union AllocOps \union FreeOps \union FaultOps],
           \A u \in Threads \ {t} : op'[u] = op[u],
           \/ op'[t].pc = "out"
           \/ /\ op'[t].pc = "frames" /\ op'[t].type = op[t].type /\ op'[t].file = op[t].file
              /\ op'[t].va = op[t].va /\ op'[t].n = op[t].n /\ op[t].type = "both"
              /\ \A i \in 0 .. op[t].n - 1 : ReservationList'[s].CommitBitmap[i]
           \/ /\ op'[t].pc = "reserve" /\ op'[t].type = "commit" /\ op'[t].file = NoFile
              /\ op'[t].va \in Positive /\ op'[t].n \in Positive
              /\ op'[t].va >= op[t].va /\ op'[t].va + op'[t].n = op[t].va + op[t].n
    PROVE  SpaceInv' /\ CommitsStay
<1> USE DEF SpaceInv
<1>1. op[t].va \in Positive /\ op[t].n \in Positive /\ Passed(op[t].va, op[t].n)
  BY OpClass DEF OpInv
<1>2. FreeVirtualAddressPointer \in Nat /\ GeneratedPages \in Nat /\ NPages \in Nat
  BY DEF ListInv, Positive, MemoryAssumption
<1>3. \A i \in Slots : Used(i)' <=> i = s \/ Used(i)
  BY DEF Used
<1>4. \A i \in Slots : Used(i) => First(i)' = First(i) /\ Room(i)' = Room(i) /\ i # s
  BY DEF First, Room
<1>5. \A i \in Slots : Used(i) => ~Meet(op[t].va, op[t].n, First(i), Room(i))
  BY DEF ClaimInv
<1>6. OpInv'
  <2>1. op'[t].pc # "out" => Passed(op[t].va, op[t].n)'
    BY <1>1, <1>2 DEF Passed, Positive
  <2> QED
    BY <2>1 DEF OpInv, AllocPcs, Passed
<1>7. ListInv'
  <2>1. \A i \in Slots : Used(i)' => /\ First(i)' \in Positive /\ Room(i)' \in Positive
                                     /\ Passed(First(i), Room(i))'
                                     /\ (ReservationList[i].CommitBitmap \in [0 .. Room(i) - 1 -> BOOLEAN])'
    <3> SUFFICES ASSUME NEW i \in Slots, Used(i)'
                 PROVE  /\ First(i)' \in Positive /\ Room(i)' \in Positive
                        /\ Passed(First(i), Room(i))'
                        /\ (ReservationList[i].CommitBitmap \in [0 .. Room(i) - 1 -> BOOLEAN])'
      OBVIOUS
    <3>1. CASE i = s
      BY <1>1, <3>1 DEF Passed
    <3>2. CASE i # s
      <4>1. Used(i) /\ First(i)' = First(i) /\ Room(i)' = Room(i)
        BY <1>3, <1>4, <3>2
      <4> QED
        BY <3>2, <4>1 DEF ListInv, Passed
    <3> QED
      BY <3>1, <3>2
  <2>2. ASSUME NEW i \in Slots, NEW j \in Slots, Used(i)', Used(j)', i # j
        PROVE  ~Meet(First(i), Room(i), First(j), Room(j))'
    <3>1. CASE i # s /\ j # s
      BY <1>3, <1>4, <2>2, <3>1 DEF ListInv, Meet
    <3>2. CASE i = s
      BY <1>3, <1>4, <1>5, <2>2, <3>2 DEF Meet
    <3>3. CASE j = s
      BY <1>3, <1>4, <1>5, <2>2, <3>3 DEF Meet
    <3> QED
      BY <3>1, <3>2, <3>3
  <2> QED
    BY <2>1, <2>2 DEF ListInv, Used
<1>8. ApartInv'
  <2> SUFFICES ASSUME NEW u \in Threads, NEW v \in Threads,
                      u # v, op'[u].pc # "out", op'[v].pc # "out",
                      Meet(op'[u].va, op'[u].n, op'[v].va, op'[v].n),
                      ~Overtaken(u)', ~Overtaken(v)'
               PROVE  {op'[u].pc, op'[v].pc} \subseteq FaultPcs
    BY DEF ApartInv
  <2>1. ASSUME NEW w \in Threads \ {t}, op[w].pc # "out", op'[t].pc # "out",
               Meet(op'[t].va, op'[t].n, op[w].va, op[w].n)
        PROVE  Meet(op[t].va, op[t].n, op[w].va, op[w].n)
    <3>1. op[w].va \in Nat /\ op[w].n \in Nat
      BY <2>1, OpClass DEF Positive
    <3>2. /\ op'[t].va \in Int /\ op'[t].n \in Int /\ op[t].va \in Int /\ op[t].n \in Int
          /\ op[t].va <= op'[t].va /\ op'[t].va + op'[t].n <= op[t].va + op[t].n
      BY <1>1, <2>1 DEF Positive
    <3> HIDE DEF SpaceInv
    <3> QED
      BY <2>1, <3>1, <3>2 DEF Meet
  <2>2. ASSUME NEW w \in Threads \ {t}, op[w].pc # "out", op'[t].pc # "out",
               Meet(op'[t].va, op'[t].n, op[w].va, op[w].n)
        PROVE  Overtaken(w)
    BY <2>1, <2>2 DEF ApartInv, Overtaken, FaultPcs
  <2>3. CASE u # t /\ v # t
    BY <2>3 DEF ApartInv, Overtaken
  <2>4. CASE u = t
    BY <2>2, <2>4 DEF Overtaken
  <2>5. CASE v = t
    BY <2>2, <2>5 DEF Overtaken, Meet
  <2> QED
    BY <2>3, <2>4, <2>5
<1>9. ClaimInv'
  <2> SUFFICES ASSUME NEW u \in Threads, op'[u].pc = "reserve", op'[u].type # "commit",
                      NEW i \in Slots, Used(i)', Meet(op'[u].va, op'[u].n, First(i)', Room(i)')
               PROVE  FALSE
    BY DEF ClaimInv
  <2>1. u # t /\ op'[u] = op[u]
    OBVIOUS
  <2>2. CASE i = s
    <3>1. Meet(op[u].va, op[u].n, op[t].va, op[t].n)
      BY <2>1, <2>2
    <3> QED
      BY <2>1, <3>1 DEF ApartInv, Overtaken, FaultPcs
  <2>3. CASE i # s
    BY <1>3, <1>4, <2>1, <2>3 DEF ClaimInv
  <2> QED
    BY <2>2, <2>3
<1>10. HomeInv'
  <2> SUFFICES ASSUME NEW u \in Threads, op'[u].pc \notin {"out", "reserve"}, ~Overtaken(u)'
               PROVE  \E i \in Slots : Home(u, i)'
    BY DEF HomeInv
  <2>1. CASE u = t
    <3>1. Committed(s, op[t].va, op[t].n)'
      <4> SUFFICES ASSUME NEW p \in Span(op[t].va, op[t].n)
                   PROVE  ReservationList'[s].CommitBitmap[p - First(s)']
        BY <2>1 DEF Committed
      <4>1. p - First(s)' \in 0 .. op[t].n - 1
        BY <1>1 DEF Span, Positive
      <4> QED
        BY <2>1, <4>1
    <3>2. CheckBounds(op[t].va, op[t].n, ReservationList[s])'
      BY <1>1, <2>1 DEF CheckBounds, First, Room, Positive
    <3> QED
      BY <2>1, <3>1, <3>2 DEF Home
  <2>2. CASE u # t
    <3>1. PICK i \in Slots : Home(u, i)
      BY <2>2 DEF HomeInv, Overtaken
    <3>2. i # s /\ Used(i)' /\ First(i)' = First(i) /\ Room(i)' = Room(i) /\ op'[u] = op[u]
      BY <1>3, <1>4, <2>2, <3>1 DEF Home
    <3>3. CheckBounds(op[u].va, op[u].n, ReservationList[i])'
      BY <3>1, <3>2 DEF Home, CheckBounds, First, Room
    <3>4. Committed(i, op[u].va, op[u].n) => Committed(i, op[u].va, op[u].n)'
      <4>1. CASE Overrun'
        BY <4>1 DEF Committed
      <4>2. CASE ~Overrun'
        BY <3>1, <3>2, <4>2 DEF Committed, Home
      <4> QED
        BY <4>1, <4>2
    <3> QED
      BY <3>1, <3>2, <3>3, <3>4 DEF Home, Releases
  <2> QED
    BY <2>1, <2>2
<1>11. CommitsStay
  <2> SUFFICES ASSUME NEW i \in Slots, NEW p \in Pages, Covers(i, p) PROVE Covers(i, p)'
    BY DEF CommitsStay
  <2>1. Used(i)' /\ First(i)' = First(i) /\ Room(i)' = Room(i) /\ i # s /\ Used(i)
    BY <1>3, <1>4 DEF Covers
  <2>2. CheckBounds(p, 1, ReservationList[i])'
    BY <2>1 DEF Covers, CheckBounds, First, Room
  <2>3. Committed(i, p, 1)'
    <3>1. CASE Overrun'
      BY <3>1 DEF Committed
    <3>2. CASE ~Overrun'
      BY <2>1, <3>2 DEF Committed, Covers
    <3> QED
      BY <3>1, <3>2
  <2> QED
    BY <2>1, <2>2, <2>3 DEF Covers
<1> QED
  BY <1>6, <1>7, <1>8, <1>9, <1>10, <1>11

\* What a change of the commit bits of a reservation leaves: its range, and
\* the bits of the other pages.
LEMMA ChangedCommit ==
    ASSUME MemoryAssumption, ListInv, NEW s \in Slots, Used(s), NEW va \in Positive,
           NEW n \in Positive, NEW Set \in BOOLEAN
    PROVE  LET r == ChangeCommit(ReservationList[s], va, n, Set)
           IN  /\ r \in Reservations /\ r.State = "Used" /\ r.StartVa = First(s) /\ r.Size = Room(s)
               /\ r.CommitBitmap \in [0 .. Room(s) - 1 -> BOOLEAN]
               /\ \A p \in Span(First(s), Room(s)) :
                      /\ p \in Span(va, n) => r.CommitBitmap[p - First(s)] = Set
                      /\ p \notin Span(va, n) =>
                             r.CommitBitmap[p - First(s)] = ReservationList[s].CommitBitmap[p - First(s)]
<1> DEFINE old == ReservationList[s].CommitBitmap
           new == BitmapSetBitsValue(old, va - First(s), n, Set)
<1>1. /\ ReservationList[s] \in Reservations /\ First(s) \in Nat /\ Room(s) \in Nat
      /\ old \in [0 .. Room(s) - 1 -> BOOLEAN]
  BY DEF ListInv, Positive
<1>2. new = [i \in 0 .. Room(s) - 1 |-> IF i \in (va - First(s)) .. (va - First(s) + n - 1) THEN Set
                                        ELSE old[i]]
  BY <1>1 DEF BitmapSetBitsValue
<1>3. ChangeCommit(ReservationList[s], va, n, Set) = [ReservationList[s] EXCEPT !.CommitBitmap = new]
  BY DEF ChangeCommit, First
<1> HIDE DEF old, new
<1>4. new \in [0 .. Room(s) - 1 -> BOOLEAN]
  BY <1>1, <1>2
<1>5. new \in Bitmaps
  BY <1>1, <1>4 DEF Bitmaps
<1>6. \A p \in Span(First(s), Room(s)) :
          new[p - First(s)] = IF p \in Span(va, n) THEN Set ELSE old[p - First(s)]
  <2> SUFFICES ASSUME NEW p \in Span(First(s), Room(s))
               PROVE  new[p - First(s)] = IF p \in Span(va, n) THEN Set ELSE old[p - First(s)]
    OBVIOUS
  <2>1. /\ p \in Int /\ p - First(s) \in 0 .. Room(s) - 1 /\ va \in Int /\ n \in Int
        /\ p \in Span(va, n) <=> p - First(s) \in (va - First(s)) .. (va - First(s) + n - 1)
    BY <1>1 DEF Span, Positive
  <2> QED
    BY <1>2, <2>1
<1>7. LET r == [ReservationList[s] EXCEPT !.CommitBitmap = new]
      IN  /\ r \in Reservations /\ r.State = "Used" /\ r.StartVa = First(s) /\ r.Size = Room(s)
          /\ r.CommitBitmap = new
  BY <1>1, <1>5 DEF Reservations, Used, First, Room
<1> QED
  BY <1>3, <1>4, <1>6, <1>7 DEF old

\* The commit bits of one reservation change: everything stays in its place.
LEMMA CommitKeepsPlaces ==
    ASSUME MemoryAssumption, ListInv, NEW s \in Slots, Used(s), NEW r \in Reservations,
           r.State = "Used", r.StartVa = First(s), r.Size = Room(s),
           r.CommitBitmap \in [0 .. Room(s) - 1 -> BOOLEAN],
           UNCHANGED FreeVirtualAddressPointer, FreeBitmapAddress' \in Nat,
           ReservationList' = [ReservationList EXCEPT ![s] = r]
    PROVE  /\ Overrun => Overrun'
           /\ ListInv' /\ \A i \in Slots : /\ Used(i)' <=> Used(i)
                                           /\ First(i)' = First(i) /\ Room(i)' = Room(i)
                                           /\ i # s => ReservationList'[i] = ReservationList[i]
<1>1. /\ ReservationList' \in [Slots -> Reservations] /\ ReservationList'[s] = r
      /\ \A i \in Slots \ {s} : ReservationList'[i] = ReservationList[i]
  BY DEF ListInv
<1>2. \A i \in Slots : /\ Used(i)' <=> Used(i)
                       /\ First(i)' = First(i) /\ Room(i)' = Room(i)
                       /\ ReservationList'[i].State = ReservationList[i].State
  BY <1>1 DEF Used, First, Room
<1>3. \A i \in Slots : Used(i) => (ReservationList[i].CommitBitmap \in [0 .. Room(i) - 1 -> BOOLEAN])'
  BY <1>1, <1>2 DEF ListInv
<1>4. ListInv'
  BY <1>1, <1>2, <1>3 DEF ListInv, Passed
<1>5. Overrun => Overrun'
  BY <1>2 DEF Overrun
<1> QED
  BY <1>1, <1>2, <1>4, <1>5

\* The pages of the call, in a reservation, are committed.
LEMMA PagesGetCommitted ==
    ASSUME MemoryAssumption, SpaceInv, NEW t \in Threads, NEW s \in Slots, Used(s),
           CheckBounds(op[t].va, op[t].n, ReservationList[s]),
           op[t].pc = "reserve", op[t].type = "commit",
           UNCHANGED FreeVirtualAddressPointer, FreeBitmapAddress' \in Nat,
           ReservationList' = [ReservationList EXCEPT
                                  ![s] = ChangeCommit(ReservationList[s], op[t].va, op[t].n, TRUE)],
           op' \in [Threads -> {Idle} \union AllocOps \union FreeOps \union FaultOps],
           \A u \in Threads \ {t} : op'[u] = op[u],
           \/ op'[t].pc = "out"
           \/ /\ op'[t].pc = "frames" /\ op'[t].type = op[t].type /\ op'[t].file = op[t].file
              /\ op'[t].va = op[t].va /\ op'[t].n = op[t].n
    PROVE  SpaceInv' /\ CommitsStay
<1> USE DEF SpaceInv
<1> DEFINE r == ChangeCommit(ReservationList[s], op[t].va, op[t].n, TRUE)
<1>1. op[t].va \in Positive /\ op[t].n \in Positive /\ op[t].file = NoFile
  BY OpClass DEF OpInv, AllocPcs
<1>2. /\ r \in Reservations /\ r.State = "Used" /\ r.StartVa = First(s) /\ r.Size = Room(s)
      /\ r.CommitBitmap \in [0 .. Room(s) - 1 -> BOOLEAN]
      /\ \A p \in Span(First(s), Room(s)) :
             /\ p \in Span(op[t].va, op[t].n) => r.CommitBitmap[p - First(s)] = TRUE
             /\ p \notin Span(op[t].va, op[t].n) =>
                    r.CommitBitmap[p - First(s)] = ReservationList[s].CommitBitmap[p - First(s)]
  <2>1. TRUE \in BOOLEAN
    OBVIOUS
  <2> QED
    BY <1>1, <2>1, ChangedCommit, Zenon
<1> HIDE DEF r
<1>3. ReservationList' = [ReservationList EXCEPT ![s] = r]
  BY DEF r
<1>4. /\ Overrun => Overrun'
      /\ ListInv' /\ \A i \in Slots : /\ Used(i)' <=> Used(i)
                                      /\ First(i)' = First(i) /\ Room(i)' = Room(i)
                                      /\ i # s => ReservationList'[i] = ReservationList[i]
  BY <1>2, <1>3, CommitKeepsPlaces
<1>5. ReservationList'[s] = r
  BY <1>3 DEF ListInv
<1>6. OpInv'
  BY <1>1 DEF OpInv, AllocPcs, Passed
<1>7. ClaimInv'
  BY <1>4 DEF ClaimInv
<1>8. ApartInv'
  BY DEF ApartInv, Overtaken, FaultPcs, Meet
<1>9. \A i \in Slots, va, n \in Nat :
          /\ Used(i) /\ CheckBounds(va, n, ReservationList[i]) /\ Committed(i, va, n) => Committed(i, va, n)'
          /\ Used(i) /\ CheckBounds(va, n, ReservationList[i]) => CheckBounds(va, n, ReservationList'[i])
  <2> SUFFICES ASSUME NEW i \in Slots, NEW va \in Nat, NEW n \in Nat, Used(i),
                      CheckBounds(va, n, ReservationList[i])
               PROVE  /\ Committed(i, va, n) => Committed(i, va, n)'
                      /\ CheckBounds(va, n, ReservationList'[i])
    OBVIOUS
  <2>1. CheckBounds(va, n, ReservationList'[i])
    BY <1>4 DEF CheckBounds, First, Room
  <2>2. First(i) \in Nat /\ Room(i) \in Nat /\ Span(va, n) \subseteq Span(First(i), Room(i))
    BY DEF ListInv, Positive, Span, CheckBounds, First, Room
  <2>3. ASSUME Committed(i, va, n), ~Overrun', NEW p \in Span(va, n)
        PROVE  ReservationList'[i].CommitBitmap[p - First(i)']
    <3>1. ReservationList[i].CommitBitmap[p - First(i)] /\ First(i)' = First(i)
      BY <1>4, <2>3 DEF Committed
    <3>2. CASE i = s
      BY <1>2, <1>5, <2>2, <3>1, <3>2
    <3>3. CASE i # s
      BY <1>4, <3>1, <3>3
    <3> QED
      BY <3>2, <3>3
  <2> QED
    BY <2>1, <2>3 DEF Committed
<1>10. HomeInv'
  <2> SUFFICES ASSUME NEW u \in Threads, op'[u].pc \notin {"out", "reserve"}, ~Overtaken(u)'
               PROVE  \E i \in Slots : Home(u, i)'
    BY DEF HomeInv
  <2>1. CASE u = t
    <3>1. Span(op[t].va, op[t].n) \subseteq Span(First(s), Room(s))
      <4>1. First(s) \in Nat /\ Room(s) \in Nat
        BY DEF ListInv, Positive
      <4> QED
        BY <1>1, <4>1 DEF Positive, Span, CheckBounds, First, Room
    <3>2. Committed(s, op[t].va, op[t].n)'
      BY <1>2, <1>4, <1>5, <2>1, <3>1 DEF Committed, Overrun
    <3>3. CheckBounds(op[t].va, op[t].n, ReservationList[s])'
      BY <1>1, <1>9, <2>1 DEF Positive
    <3>4. ~Releases(t)'
      BY <1>1, <2>1 DEF Releases, AllocPcs
    <3> QED
      BY <1>4, <2>1, <3>2, <3>3, <3>4 DEF Home
  <2>2. CASE u # t
    <3>1. PICK i \in Slots : Home(u, i)
      BY <2>2 DEF HomeInv, Overtaken
    <3>2. op[u].va \in Nat /\ op[u].n \in Nat /\ op'[u] = op[u]
      BY <2>2, OpClass DEF Positive
    <3>3. CheckBounds(op[u].va, op[u].n, ReservationList[i])'
      BY <1>9, <3>1, <3>2 DEF Home
    <3>4. op[u].pc \in AllocPcs \union FaultPcs => Committed(i, op[u].va, op[u].n)'
      BY <1>9, <3>1, <3>2 DEF Home
    <3> QED
      BY <1>4, <3>1, <3>2, <3>3, <3>4 DEF Home, Releases
  <2> QED
    BY <2>1, <2>2
<1>11. CommitsStay
  <2> SUFFICES ASSUME NEW i \in Slots, NEW p \in Pages, Covers(i, p) PROVE Covers(i, p)'
    BY DEF CommitsStay
  <2>1. p \in Nat /\ 1 \in Nat
    BY DEF Pages, MemoryAssumption
  <2> QED
    BY <1>4, <1>9, <2>1 DEF Covers
<1> QED
  BY <1>4, <1>6, <1>7, <1>8, <1>10, <1>11

\* A thread goes from one call, or place in it, to another.
LEMMA OpChanges ==
    ASSUME OpInv, NEW t \in Threads, NEW o \in {Idle} \union AllocOps \union FreeOps \union FaultOps,
           op' = [op EXCEPT ![t] = o]
    PROVE  /\ op' \in [Threads -> {Idle} \union AllocOps \union FreeOps \union FaultOps]
           /\ op'[t] = o /\ \A u \in Threads \ {t} : op'[u] = op[u]
BY DEF OpInv

\* AllocReserve: VmReservationSpaceAllocRegion.
LEMMA ReservingKeepsThePages ==
    ASSUME MemoryAssumption, SpaceInv, NEW t \in Threads, AllocReserve(t)
    PROVE  SpaceInv' /\ CommitsStay
<1> DEFINE va == op[t].va
           n == op[t].n
           type == op[t].type
<1>1. /\ op[t].pc = "reserve" /\ UNCHANGED FreeVirtualAddressPointer
      /\ FreeBitmapAddress' \in Nat
      /\ FreeBitmapAddress' = FreeBitmapAddress \/ ~UNCHANGED <<ReservationList, FreeBitmapAddress>>
  BY DEF AllocReserve, SpaceInv, ListInv
<1>2. op[t] \in AllocOps /\ va \in Positive /\ n \in Positive
  BY <1>1, OpClass DEF SpaceInv, AllocPcs
<1>3. /\ type \in AllocTypes /\ op[t].rights \in Rights /\ op[t].file \in Files \union {NoFile}
      /\ op[t].eager \in BOOLEAN
  BY <1>2 DEF AllocOps
<1>4. CASE Return(t) /\ UNCHANGED <<ReservationList, FreeBitmapAddress>>
  <2>1. CommitsStay
    BY <1>4 DEF CommitsStay, Covers, Committed, Overrun, Used, First
  <2> QED
    BY <1>1, <1>4, <2>1, CallEnds
<1>5. Return(t) => /\ op' \in [Threads -> {Idle} \union AllocOps \union FreeOps \union FaultOps]
                   /\ op'[t].pc = "out" /\ \A u \in Threads \ {t} : op'[u] = op[u]
  <2>1. Idle.pc = "out"
    BY DEF Idle
  <2> QED
    BY <2>1, OpChanges DEF SpaceInv, Return
<1>6. Goto(t, "frames") =>
          /\ op' \in [Threads -> {Idle} \union AllocOps \union FreeOps \union FaultOps]
          /\ op'[t].pc = "frames" /\ op'[t].type = type /\ op'[t].file = op[t].file
          /\ op'[t].va = va /\ op'[t].n = n
          /\ \A u \in Threads \ {t} : op'[u] = op[u]
  <2> DEFINE o == [op[t] EXCEPT !.pc = "frames"]
  <2>1. o \in AllocOps /\ o.pc = "frames" /\ o.type = type /\ o.file = op[t].file /\ o.va = va /\ o.n = n
    BY <1>2 DEF AllocOps, AllocPcs
  <2>2. Goto(t, "frames") => op' = [op EXCEPT ![t] = o]
    BY DEF Goto, SpaceInv, OpInv
  <2> HIDE DEF o
  <2> QED
    BY <2>1, <2>2, OpChanges DEF SpaceInv
<1>7. type = "stack" /\ op' = [op EXCEPT ![t] = CommitStack(op[t])] =>
          /\ op' \in [Threads -> {Idle} \union AllocOps \union FreeOps \union FaultOps]
          /\ op'[t].pc = "reserve" /\ op'[t].type = "commit" /\ op'[t].file = NoFile
          /\ op'[t].va \in Positive /\ op'[t].n \in Positive
          /\ op'[t].va >= va /\ op'[t].va + op'[t].n = va + n
          /\ \A u \in Threads \ {t} : op'[u] = op[u]
  <2> SUFFICES ASSUME type = "stack", op' = [op EXCEPT ![t] = CommitStack(op[t])]
               PROVE  /\ op' \in [Threads -> {Idle} \union AllocOps \union FreeOps \union FaultOps]
                      /\ op'[t].pc = "reserve" /\ op'[t].type = "commit" /\ op'[t].file = NoFile
                      /\ op'[t].va \in Positive /\ op'[t].n \in Positive
                      /\ op'[t].va >= va /\ op'[t].va + op'[t].n = va + n
                      /\ \A u \in Threads \ {t} : op'[u] = op[u]
    OBVIOUS
  <2>1. n > GuardSize /\ op[t].file = NoFile /\ GuardSize \in Positive
    BY <1>1 DEF SpaceInv, OpInv, AllocPcs, MemoryAssumption, Positive
  <2>2. /\ va + GuardSize \in Positive /\ n - GuardSize \in Positive
        /\ va + GuardSize >= va /\ (va + GuardSize) + (n - GuardSize) = va + n
    BY <1>2, <2>1 DEF Positive
  <2> DEFINE o == CommitStack(op[t])
  <2>3. /\ o \in AllocOps /\ o.pc = "reserve" /\ o.type = "commit" /\ o.file = NoFile
        /\ o.va = va + GuardSize /\ o.n = n - GuardSize
    BY <1>1, <1>2, <2>1, <2>2 DEF CommitStack, AllocOps, AllocTypes
  <2> HIDE DEF o
  <2>4. op' = [op EXCEPT ![t] = o]
    BY DEF o
  <2>5. /\ op' \in [Threads -> {Idle} \union AllocOps \union FreeOps \union FaultOps]
        /\ op'[t] = o /\ \A u \in Threads \ {t} : op'[u] = op[u]
    BY <2>3, <2>4, OpChanges DEF SpaceInv
  <2> QED
    BY <2>2, <2>3, <2>5
<1>8. CASE type # "commit" /\ ~(Return(t) /\ UNCHANGED <<ReservationList, FreeBitmapAddress>>)
  <2>0. PICK s : s = FindFirstFree
    OBVIOUS
  <2> DEFINE list == Reserve(ReservationList, va, n, op[t].rights, op[t].file)
             new == NewReservation(va, n, op[t].rights, op[t].file)
  <2>1. /\ s # 0
        /\ ReservationList' = IF type = "both" THEN Commit(list, s, va, n) ELSE list
        /\ IF type = "stack" THEN op' = [op EXCEPT ![t] = CommitStack(op[t])]
           ELSE IF op[t].eager THEN Goto(t, "frames") ELSE Return(t)
    BY <1>3, <1>8, <2>0 DEF AllocReserve, RoomToReserve, AllocTypes
  <2>2. /\ s \in Slots /\ ~Used(s) /\ list \in [Slots -> Reservations] /\ list[s] = new
        /\ \A i \in Slots \ {s} : list[i].State = "Used" <=> Used(i)
        /\ \A i \in Slots \ {s} : Used(i) =>
               /\ list[i].StartVa = First(i) /\ list[i].Size = Room(i)
               /\ list[i].CommitBitmap \in [0 .. Room(i) - 1 -> BOOLEAN]
        /\ \/ \A i \in Slots : list[i].State # "Last"
           \/ \A i \in Slots \ {s} : Used(i) => list[i] = ReservationList[i]
        /\ Overrun => \A i \in Slots : list[i].State # "Last"
        /\ \A i, j \in Slots : list[i].State = "Used" /\ list[j].State = "Last" => i < j
    BY <1>2, <1>3, <2>0, <2>1, ReserveTakesFreeSlot DEF SpaceInv
  <2> HIDE DEF list
  <2>3. /\ new.State = "Used" /\ new.StartVa = va /\ new.Size = n
        /\ new.CommitBitmap = [i \in 0 .. n - 1 |-> FALSE]
    BY DEF NewReservation, BitmapInit
  <2> HIDE DEF new
  <2>4. CASE type = "both"
    <3> DEFINE bits == [i \in 0 .. n - 1 |-> TRUE]
               r == [new EXCEPT !.CommitBitmap = bits]
    <3>1. BitmapSetBitsValue(new.CommitBitmap, va - new.StartVa, n, TRUE) = bits
      <4>1. va - new.StartVa = 0 /\ n \in Nat
        BY <1>2, <2>3 DEF Positive
      <4>2. \A i \in 0 .. n - 1 : i \in 0 .. (0 + n - 1)
        BY <4>1
      <4>3. DOMAIN new.CommitBitmap = 0 .. n - 1
        BY <2>3
      <4> QED
        BY <4>1, <4>2, <4>3 DEF BitmapSetBitsValue
    <3>2. ReservationList' = [list EXCEPT ![s] = r]
      BY <2>1, <2>2, <2>4, <3>1 DEF Commit, ChangeCommit
    <3>3. bits \in [0 .. n - 1 -> BOOLEAN] /\ \A i \in 0 .. n - 1 : bits[i]
      OBVIOUS
    <3>4. bits \in Bitmaps
      BY <1>2, <3>3 DEF Bitmaps, Positive
    <3> HIDE DEF bits
    <3>5. new \in Reservations
      BY <2>2
    <3>6. r \in Reservations /\ r.State = "Used" /\ r.StartVa = va /\ r.Size = n /\ r.CommitBitmap = bits
      BY <2>3, <3>4, <3>5 DEF Reservations
    <3> HIDE DEF r
    <3>7. /\ ReservationList' \in [Slots -> Reservations] /\ ReservationList'[s] = r
          /\ \A i \in Slots \ {s} : ReservationList'[i] = list[i]
      BY <2>2, <3>2, <3>6
    <3>8. \A i \in Slots : ReservationList'[i].State = list[i].State
      BY <2>2, <2>3, <3>6, <3>7
    <3>9. /\ Used(s)' /\ First(s)' = op[t].va /\ Room(s)' = op[t].n
          /\ ReservationList'[s].CommitBitmap \in [0 .. op[t].n - 1 -> BOOLEAN]
          /\ \A i \in 0 .. op[t].n - 1 : ReservationList'[s].CommitBitmap[i]
      BY <3>3, <3>6, <3>7 DEF Used, First, Room
    <3>10. /\ \A i \in Slots \ {s} : ReservationList'[i].State = "Used" <=> Used(i)
           /\ \A i \in Slots \ {s} : Used(i) =>
                  /\ First(i)' = First(i) /\ Room(i)' = Room(i)
                  /\ ReservationList'[i].CommitBitmap \in [0 .. Room(i) - 1 -> BOOLEAN]
           /\ Overrun' \/ \A i \in Slots \ {s} : Used(i) => ReservationList'[i] = ReservationList[i]
           /\ Overrun => Overrun'
           /\ \A i, j \in Slots : ReservationList'[i].State = "Used" /\ ReservationList'[j].State = "Last"
                                  => i < j
      <4>1. Overrun' <=> \A i \in Slots : list[i].State # "Last"
        BY <3>8 DEF Overrun
      <4>2. \A i \in Slots \ {s} : Used(i) => /\ First(i)' = list[i].StartVa /\ Room(i)' = list[i].Size
                                              /\ ReservationList'[i] = list[i]
        BY <3>7 DEF First, Room
      <4> QED
        BY <2>2, <3>7, <3>8, <4>1, <4>2
    <3>11. Goto(t, "frames") \/ Return(t)
      BY <2>1, <2>4
    <3> QED
      BY <1>1, <1>5, <1>6, <1>8, <2>2, <2>4, <3>7, <3>9, <3>10, <3>11, PagesGetReserved
  <2>5. CASE type # "both"
    <3>1. ReservationList' = list /\ ReservationList' \in [Slots -> Reservations]
      BY <2>1, <2>2, <2>5
    <3>2. new.CommitBitmap \in [0 .. n - 1 -> BOOLEAN]
      BY <2>3
    <3>3. /\ Used(s)' /\ First(s)' = op[t].va /\ Room(s)' = op[t].n
          /\ ReservationList'[s].CommitBitmap \in [0 .. op[t].n - 1 -> BOOLEAN]
      BY <2>2, <2>3, <3>1, <3>2 DEF Used, First, Room
    <3>4. /\ \A i \in Slots \ {s} : ReservationList'[i].State = "Used" <=> Used(i)
          /\ \A i \in Slots \ {s} : Used(i) =>
                 /\ First(i)' = First(i) /\ Room(i)' = Room(i)
                 /\ ReservationList'[i].CommitBitmap \in [0 .. Room(i) - 1 -> BOOLEAN]
          /\ Overrun' \/ \A i \in Slots \ {s} : Used(i) => ReservationList'[i] = ReservationList[i]
          /\ Overrun => Overrun'
          /\ \A i, j \in Slots : ReservationList'[i].State = "Used" /\ ReservationList'[j].State = "Last"
                                 => i < j
      <4>1. Overrun' <=> \A i \in Slots : list[i].State # "Last"
        BY <3>1 DEF Overrun
      <4>2. \A i \in Slots \ {s} : Used(i) => /\ First(i)' = list[i].StartVa /\ Room(i)' = list[i].Size
                                              /\ ReservationList'[i] = list[i]
        BY <3>1 DEF First, Room
      <4> QED
        BY <2>2, <3>1, <4>1, <4>2
    <3>5. type = "stack" \/ (type = "reserve" /\ ~op[t].eager)
      <4>1. type = "reserve" => ~op[t].eager
        BY <1>1 DEF SpaceInv, OpInv
      <4> QED
        BY <1>3, <1>8, <2>5, <4>1 DEF AllocTypes
    <3> QED
      BY <1>1, <1>5, <1>7, <1>8, <2>1, <2>2, <3>1, <3>3, <3>4, <3>5, PagesGetReserved
  <2> QED
    BY <2>4, <2>5
<1>9. CASE type = "commit" /\ ~(Return(t) /\ UNCHANGED <<ReservationList, FreeBitmapAddress>>)
  <2>0. PICK s : s = FindReservation(va, n)
    OBVIOUS
  <2>1. /\ s # 0 /\ ReservationList' = Commit(ReservationList, s, va, n)
        /\ IF op[t].eager THEN Goto(t, "frames") ELSE Return(t)
    BY <1>9, <2>0 DEF AllocReserve, CanCommit
  <2>2. s \in Slots /\ Used(s) /\ CheckBounds(va, n, ReservationList[s])
    BY <1>2, <2>0, <2>1, FoundReservation DEF SpaceInv
  <2>3. ReservationList' = [ReservationList EXCEPT ![s] = ChangeCommit(ReservationList[s], op[t].va, op[t].n, TRUE)]
    BY <2>1 DEF Commit
  <2> QED
    BY <1>1, <1>5, <1>6, <1>9, <2>1, <2>2, <2>3, PagesGetCommitted
<1> QED
  BY <1>4, <1>8, <1>9

\* FreeReservation: VmReservationSpaceFreeRegion finds the reservation of the
\* call by its first page, and takes nothing from the pages of other calls.
LEMMA FreeingKeepsOtherPages ==
    ASSUME MemoryAssumption, SpaceInv, NEW t \in Threads, FreeReservation(t)
    PROVE  /\ SpaceInv'
           /\ op'[t].pc = "unmap" /\ op'[t].va = op[t].va /\ op'[t].n = op[t].n
           /\ \A u \in Threads \ {t} : op'[u] = op[u]
           /\ \A s \in Slots, p \in Pages : Covers(s, p) => Covers(s, p)' \/ p \in Span(op[t].va, op[t].n)
<1> USE DEF SpaceInv
<1>1. /\ op[t].pc = "free" /\ UNCHANGED <<FreeBitmapAddress, FreeVirtualAddressPointer>>
      /\ Goto(t, "unmap") /\ FreeBitmapAddress' \in Nat
  BY DEF FreeReservation, ListInv
<1>2. op[t] \in FreeOps /\ op[t].va \in Positive /\ op[t].n \in Positive
  BY <1>1, OpClass
<1>3. PICK s \in Slots : Home(t, s)
  BY <1>1 DEF HomeInv, Overtaken
<1>4. First(s) \in Positive /\ Room(s) \in Positive /\ Used(s)
  BY <1>3 DEF Home, ListInv
<1>5. s = FindReservation(op[t].va, 1)
  <2>1. CheckBounds(op[t].va, 1, ReservationList[s])
    <3>1. CheckBounds(op[t].va, op[t].n, ReservationList[s])
      BY <1>3 DEF Home
    <3> QED
      BY <1>2, <1>4, <3>1 DEF CheckBounds, First, Room, Positive
  <2>2. 1 \in Positive
    BY DEF Positive
  <2> QED
    BY <1>2, <1>4, <2>1, <2>2, FoundReservation
<1>6. ReservationList' = IF op[t].type = "release" THEN [ReservationList EXCEPT ![s] = ZeroedSlot]
                         ELSE [ReservationList EXCEPT
                                  ![s] = ChangeCommit(ReservationList[s], op[t].va, op[t].n, FALSE)]
  BY <1>5 DEF FreeReservation
<1>7. /\ op' \in [Threads -> {Idle} \union AllocOps \union FreeOps \union FaultOps]
      /\ op'[t] \in FreeOps /\ op'[t].pc = "unmap" /\ op'[t].type = op[t].type
      /\ op'[t].va = op[t].va /\ op'[t].n = op[t].n
      /\ \A u \in Threads \ {t} : op'[u] = op[u]
  <2> DEFINE o == [op[t] EXCEPT !.pc = "unmap"]
  <2>1. o \in FreeOps /\ o.pc = "unmap" /\ o.type = op[t].type /\ o.va = op[t].va /\ o.n = op[t].n
    BY <1>2 DEF FreeOps
  <2>2. op' = [op EXCEPT ![t] = o]
    BY <1>1 DEF Goto, OpInv
  <2> HIDE DEF o
  <2> QED
    BY <2>1, <2>2, OpChanges
<1>8. \A u \in Threads \ {t} : op[u].pc # "out" /\ ~Overtaken(u) => ~Meet(op[t].va, op[t].n, op[u].va, op[u].n)
  BY <1>1 DEF ApartInv, Overtaken, FaultPcs
<1>9. OpInv'
  BY <1>1, <1>7 DEF OpInv, Passed, AllocPcs
<1>10. ApartInv'
  <2> SUFFICES ASSUME NEW u \in Threads, NEW v \in Threads,
                      u # v, op'[u].pc # "out", op'[v].pc # "out",
                      Meet(op'[u].va, op'[u].n, op'[v].va, op'[v].n),
                      ~Overtaken(u)', ~Overtaken(v)'
               PROVE  {op'[u].pc, op'[v].pc} \subseteq FaultPcs
    BY DEF ApartInv
  <2>1. ~Overtaken(u) /\ ~Overtaken(v) /\ op[u].pc # "out" /\ op[v].pc # "out"
    BY <1>1, <1>7 DEF Overtaken
  <2>2. Meet(op[u].va, op[u].n, op[v].va, op[v].n) /\ Meet(op[v].va, op[v].n, op[u].va, op[u].n)
    BY <1>7 DEF Meet
  <2>3. u # t /\ v # t
    BY <1>8, <2>1, <2>2
  <2> QED
    BY <1>7, <2>1, <2>2, <2>3 DEF ApartInv
<1>11. CASE op[t].type = "release"
  <2>1. op[t].va = First(s) /\ op[t].n = Room(s)
    BY <1>1, <1>3, <1>11 DEF Home, Releases, AllocPcs
  <2>2. ZeroedSlot \in Reservations /\ ZeroedSlot.State = "Free"
    <3>1. <<>> \in Bitmaps
      BY DEF Bitmaps
    <3>2. {} \in Rights \union {{}}
      OBVIOUS
    <3> QED
      BY <3>1, <3>2 DEF ZeroedSlot, Reservations
  <2>3. /\ ReservationList' \in [Slots -> Reservations] /\ ReservationList'[s] = ZeroedSlot
        /\ \A i \in Slots \ {s} : ReservationList'[i] = ReservationList[i]
    BY <1>6, <1>11, <2>2 DEF ListInv
  <2>4. ~Used(s)' /\ \A i \in Slots : (Used(i)' <=> Used(i) /\ i # s)
    BY <2>2, <2>3 DEF Used
  <2>0. Overrun => Overrun'
    BY <2>2, <2>3 DEF Overrun
  <2>5. \A i \in Slots : Used(i)' => First(i)' = First(i) /\ Room(i)' = Room(i)
    BY <2>3, <2>4 DEF First, Room
  <2>6. ListInv'
    <3>1. \A i \in Slots : ReservationList'[i].State = "Last" => ReservationList[i].State = "Last"
      BY <2>2, <2>3
    <3>2. \A i \in Slots : Used(i)' => /\ First(i)' \in Positive /\ Room(i)' \in Positive
                                       /\ Passed(First(i), Room(i))'
                                       /\ (ReservationList[i].CommitBitmap \in [0 .. Room(i) - 1 -> BOOLEAN])'
      BY <1>1, <2>3, <2>4, <2>5 DEF ListInv, Passed
    <3>3. \A i, j \in Slots : Used(i)' /\ Used(j)' /\ i # j => ~Meet(First(i), Room(i), First(j), Room(j))'
      BY <2>4, <2>5 DEF ListInv, Meet
    <3> QED
      BY <1>1, <2>3, <2>4, <3>1, <3>2, <3>3 DEF ListInv
  <2>7. ClaimInv'
    BY <1>7, <2>4, <2>5 DEF ClaimInv
  <2>8. HomeInv'
    <3> SUFFICES ASSUME NEW u \in Threads, op'[u].pc \notin {"out", "reserve"}, ~Overtaken(u)'
                 PROVE  \E i \in Slots : Home(u, i)'
      BY DEF HomeInv
    <3>1. u # t /\ op'[u] = op[u] /\ ~Overtaken(u)
      BY <1>7, <1>11 DEF Overtaken
    <3>2. PICK i \in Slots : Home(u, i)
      BY <3>1 DEF HomeInv
    <3>3. op[u].va \in Positive /\ op[u].n \in Positive
      BY <3>1, OpClass
    <3>4. i # s
      <4> SUFFICES ASSUME i = s PROVE FALSE
        OBVIOUS
      <4>1. Meet(op[t].va, op[t].n, op[u].va, op[u].n)
        BY <1>4, <2>1, <3>2, <3>3 DEF Home, CheckBounds, First, Room, Meet, Positive
      <4> QED
        BY <1>8, <3>1, <4>1
    <3> QED
      BY <2>0, <2>3, <3>1, <3>2, <3>4 DEF Home, Releases, Committed, Used, First, Room
  <2>9. ASSUME NEW i \in Slots, NEW p \in Pages, Covers(i, p)
        PROVE  Covers(i, p)' \/ p \in Span(op[t].va, op[t].n)
    <3>1. CASE i = s
      <4>1. p \in Int
        BY DEF Pages, MemoryAssumption
      <4> QED
        BY <1>4, <2>1, <2>9, <3>1, <4>1 DEF Covers, CheckBounds, First, Room, Span, Positive
    <3>2. CASE i # s
      BY <2>0, <2>3, <2>9, <3>2 DEF Covers, Committed, Used, First
    <3> QED
      BY <3>1, <3>2
  <2> QED
    BY <1>7, <1>9, <1>10, <2>6, <2>7, <2>8, <2>9
<1>12. CASE op[t].type # "release"
  <2> DEFINE r == ChangeCommit(ReservationList[s], op[t].va, op[t].n, FALSE)
  <2>1. /\ r \in Reservations /\ r.State = "Used" /\ r.StartVa = First(s) /\ r.Size = Room(s)
        /\ r.CommitBitmap \in [0 .. Room(s) - 1 -> BOOLEAN]
        /\ \A p \in Span(First(s), Room(s)) :
               /\ p \in Span(op[t].va, op[t].n) => r.CommitBitmap[p - First(s)] = FALSE
               /\ p \notin Span(op[t].va, op[t].n) =>
                      r.CommitBitmap[p - First(s)] = ReservationList[s].CommitBitmap[p - First(s)]
    <3>1. FALSE \in BOOLEAN
      OBVIOUS
    <3> QED
      BY <1>2, <1>4, <3>1, ChangedCommit
  <2>2. ReservationList' = [ReservationList EXCEPT ![s] = r]
    BY <1>6, <1>12
  <2> HIDE DEF r
  <2>3. /\ Overrun => Overrun'
        /\ ListInv' /\ \A i \in Slots : /\ Used(i)' <=> Used(i)
                                        /\ First(i)' = First(i) /\ Room(i)' = Room(i)
                                        /\ i # s => ReservationList'[i] = ReservationList[i]
    BY <1>1, <1>4, <2>1, <2>2, CommitKeepsPlaces
  <2>4. ReservationList'[s] = r
    BY <2>2 DEF ListInv
  <2>5. ClaimInv'
    BY <1>7, <2>3 DEF ClaimInv
  <2>6. ASSUME NEW i \in Slots, NEW va \in Nat, NEW n \in Nat, Used(i), CheckBounds(va, n, ReservationList[i])
        PROVE  /\ CheckBounds(va, n, ReservationList'[i])
               /\ /\ Committed(i, va, n)
                  /\ Span(va, n) \intersect Span(op[t].va, op[t].n) = {}
                  => Committed(i, va, n)'
    <3>1. CheckBounds(va, n, ReservationList'[i])
      BY <2>3, <2>6 DEF CheckBounds, First, Room
    <3>2. First(i) \in Nat /\ Room(i) \in Nat /\ Span(va, n) \subseteq Span(First(i), Room(i))
      BY <2>6 DEF ListInv, Positive, Span, CheckBounds, First, Room
    <3>3. ASSUME Committed(i, va, n), ~Overrun', NEW p \in Span(va, n),
                 Span(va, n) \intersect Span(op[t].va, op[t].n) = {}
          PROVE  ReservationList'[i].CommitBitmap[p - First(i)']
      <4>1. ReservationList[i].CommitBitmap[p - First(i)] /\ First(i)' = First(i)
        BY <2>3, <3>3 DEF Committed
      <4>2. CASE i = s
        BY <2>1, <2>4, <3>2, <3>3, <4>1, <4>2
      <4>3. CASE i # s
        BY <2>3, <4>1, <4>3
      <4> QED
        BY <4>2, <4>3
    <3> QED
      BY <2>3, <3>1, <3>3 DEF Committed
  <2>7. HomeInv'
    <3> SUFFICES ASSUME NEW u \in Threads, op'[u].pc \notin {"out", "reserve"}, ~Overtaken(u)'
                 PROVE  \E i \in Slots : Home(u, i)'
      BY DEF HomeInv
    <3>1. CASE u = t
      <4>1. CheckBounds(op[t].va, op[t].n, ReservationList[s])'
        BY <1>2, <1>3, <1>4, <1>7, <2>6 DEF Home, Positive
      <4> QED
        BY <1>4, <1>7, <2>3, <3>1, <4>1 DEF Home, Releases, AllocPcs, FaultPcs
    <3>2. CASE u # t
      <4>1. op'[u] = op[u] /\ ~Overtaken(u)
        BY <1>7, <3>2 DEF Overtaken
      <4>2. PICK i \in Slots : Home(u, i)
        BY <4>1 DEF HomeInv
      <4>3. op[u].va \in Positive /\ op[u].n \in Positive /\ ~Meet(op[t].va, op[t].n, op[u].va, op[u].n)
        BY <1>8, <3>2, <4>1, OpClass
      <4>4. Span(op[u].va, op[u].n) \intersect Span(op[t].va, op[t].n) = {}
        BY <1>2, <4>3, SpansMeet DEF Positive
      <4>5. CheckBounds(op[u].va, op[u].n, ReservationList'[i])
        BY <2>6, <4>2, <4>3 DEF Home, Positive
      <4>6. Committed(i, op[u].va, op[u].n) => Committed(i, op[u].va, op[u].n)'
        BY <2>6, <4>1, <4>2, <4>3, <4>4 DEF Home, Positive
      <4> QED
        BY <2>3, <4>1, <4>2, <4>5, <4>6 DEF Home, Releases
    <3> QED
      BY <3>1, <3>2
  <2>8. ASSUME NEW i \in Slots, NEW p \in Pages, Covers(i, p), p \notin Span(op[t].va, op[t].n)
        PROVE  Covers(i, p)'
    <3>1. p \in Nat /\ 1 \in Nat /\ \A q \in Span(p, 1) : q = p
      BY DEF Pages, MemoryAssumption, Span
    <3>2. Span(p, 1) \intersect Span(op[t].va, op[t].n) = {}
      BY <2>8, <3>1
    <3> QED
      BY <2>3, <2>6, <2>8, <3>1, <3>2 DEF Covers
  <2> QED
    BY <1>7, <1>9, <1>10, <2>3, <2>5, <2>7, <2>8
<1> QED
  BY <1>11, <1>12

-----------------------------------------------------------------------------
(* Physical frames.                                                        *)

\* The memory map has a highest address, so there is a number of frames.
LEMMA FramesAreCounted ==
    ASSUME PmmAssumption PROVE NumberOfFrames \in Nat /\ Cardinality(Frames) = NumberOfFrames
<1> DEFINE N == Len(MemoryMap)
           End(i) == MemoryMap[i].base + MemoryMap[i].length
           Highest(k) == \E u \in 1 .. k : \A i \in 1 .. k : End(i) <= End(u)
           bad == {k \in Nat \ {0} : k <= N /\ ~Highest(k)}
<1>1. N \in Nat \ {0} /\ DOMAIN MemoryMap = 1 .. N /\ \A i \in 1 .. N : End(i) \in Nat
  <2> DEFINE Entry == [base : Nat, length : Nat, usable : BOOLEAN, valid : BOOLEAN]
  <2>1. MemoryMap \in Seq(Entry) /\ MemoryMap # <<>>
    BY DEF PmmAssumption
  <2>2. \A e \in Entry : e.base + e.length \in Nat
    OBVIOUS
  <2> HIDE DEF Entry
  <2>3. N \in Nat \ {0} /\ DOMAIN MemoryMap = 1 .. N
    BY <2>1
  <2>4. \A i \in 1 .. N : MemoryMap[i] \in Entry
    BY <2>1
  <2> QED
    BY <2>2, <2>3, <2>4
<1> HIDE DEF N, End
<1>2. bad = {}
  <2> SUFFICES ASSUME bad # {} PROVE FALSE
    OBVIOUS
  <2>1. bad \subseteq Nat
    OBVIOUS
  <2> HIDE DEF bad
  <2>2. PICK k \in bad : \A y \in bad : k <= y
    BY <2>1, LeastNatural
  <2>3. k \in Nat \ {0} /\ k <= N /\ ~Highest(k)
    BY DEF bad
  <2>4. CASE k = 1
    BY <1>1, <2>3, <2>4
  <2>5. CASE k # 1
    <3>1. k - 1 \in Nat \ {0} /\ k - 1 <= N /\ k - 1 \notin bad
      BY <1>1, <2>2, <2>3, <2>5
    <3>2. Highest(k - 1)
      BY <3>1 DEF bad
    <3>3. PICK u \in 1 .. k - 1 : \A i \in 1 .. k - 1 : End(i) <= End(u)
      BY <3>2
    <3>4. ASSUME NEW i \in 1 .. k PROVE End(i) \in Nat /\ (i = k \/ i \in 1 .. k - 1)
      <4>1. k \in Nat /\ k <= N /\ N \in Nat
        BY <1>1, <2>3, Zenon
      <4>2. i \in 1 .. N /\ (i = k \/ i \in 1 .. k - 1)
        BY <4>1
      <4> QED
        BY <1>1, <4>2
    <3>5. u \in 1 .. k /\ k \in 1 .. k
      BY <2>3
    <3>6. CASE End(u) <= End(k)
      <4>1. ASSUME NEW i \in 1 .. k PROVE End(i) <= End(k)
        BY <3>3, <3>4, <3>5, <3>6
      <4> QED
        BY <2>3, <3>5, <4>1
    <3>7. CASE ~(End(u) <= End(k))
      <4>1. ASSUME NEW i \in 1 .. k PROVE End(i) <= End(u)
        BY <3>3, <3>4, <3>5, <3>7
      <4> QED
        BY <2>3, <3>5, <4>1
    <3> QED
      BY <3>6, <3>7
  <2> QED
    BY <2>4, <2>5
<1>3. PICK u \in 1 .. N : \A i \in 1 .. N : End(i) <= End(u)
  <2>1. N \notin bad
    BY <1>2
  <2> QED
    BY <1>1, <2>1
<1> DEFINE ends == {e.base + e.length : e \in Entries}
<1>4. ends = {End(i) : i \in 1 .. N}
  BY <1>1 DEF Entries, End
<1> HIDE DEF ends
<1>5. Max(ends) \in ends
  <2>1. End(u) \in ends /\ \A y \in ends : End(u) >= y
    BY <1>1, <1>3, <1>4
  <2> QED
    BY <2>1 DEF Max
<1>6. HighestPhysicalAddressPresent \in Nat
  BY <1>1, <1>4, <1>5 DEF HighestPhysicalAddressPresent, ends
<1>7. NumberOfFrames \in Nat
  BY <1>6 DEF NumberOfFrames, PmmAssumption
<1>8. Cardinality(0 .. NumberOfFrames - 1) = NumberOfFrames
  BY <1>7, FS_Interval
<1> QED
  BY <1>7, <1>8 DEF Frames

\* BitmapScanFrom: the frames it finds are frames, and free.
LEMMA ScanFindsFreeFrames ==
    ASSUME PmmAssumption, MemoryAssumption, AllocationBitmap \in [Frames -> BOOLEAN], NEW n \in Positive
    PROVE  LET f == PmmReserved(n, 0)
               bits == BitmapScanFromAndFlip(AllocationBitmap, 0, n, FALSE)
           IN  \/ f = NoFrame /\ bits = AllocationBitmap
               \/ /\ f # NoFrame /\ f \in Nat /\ f \in Frames /\ f + n <= NumberOfFrames
                  /\ Span(f, n) \subseteq Frames
                  /\ \A g \in Span(f, n) : AllocationBitmap[g] = FALSE
                  /\ bits = [g \in Frames |-> IF g \in Span(f, n) THEN TRUE ELSE AllocationBitmap[g]]
<1> DEFINE N == NumberOfFrames
           fits == {i \in 0 .. (N - n) : \A j \in i .. i + n - 1 : AllocationBitmap[j] = FALSE}
           f == BitmapScanFrom(AllocationBitmap, 0, n, FALSE)
<1>1. N \in Nat /\ BitCount(AllocationBitmap) = N /\ n \in Nat \ {0}
  BY FramesAreCounted DEF BitCount, Positive
<1> HIDE DEF N
<1>2. f = IF fits = {} THEN MAX_DWORD ELSE Min(fits)
  BY <1>1 DEF BitmapScanFrom, BitmapScanFromTo, BitmapScanInternal
<1>3. fits \subseteq Nat /\ \A i \in fits : /\ i + n <= N
                                            /\ \A j \in i .. i + n - 1 : AllocationBitmap[j] = FALSE
  BY <1>1
<1> HIDE DEF fits
<1>4. CASE f = MAX_DWORD
  BY <1>4 DEF PmmReserved, BitmapScanFromAndFlip
<1>5. CASE f # MAX_DWORD
  <2>1. f \in fits
    BY <1>2, <1>3, <1>5, LeastNatural
  <2>2. f \in Nat /\ f + n <= N /\ \A g \in Span(f, n) : AllocationBitmap[g] = FALSE
    BY <1>3, <2>1 DEF Span
  <2>3. f \in Frames /\ Span(f, n) \subseteq Frames
    <3>1. f \in 0 .. N - 1 /\ \A g \in Span(f, n) : g \in 0 .. N - 1
      <4> HIDE DEF f
      <4> QED
        BY <1>1, <2>2 DEF Span
    <3> QED
      BY <3>1 DEF Frames, N
  <2>4. f # NoFrame
    BY <2>3 DEF MemoryAssumption
  <2>5. PmmReserved(n, 0) = f
    BY <1>5 DEF PmmReserved
  <2>6. BitmapScanFromAndFlip(AllocationBitmap, 0, n, FALSE)
            = [g \in Frames |-> IF g \in Span(f, n) THEN TRUE ELSE AllocationBitmap[g]]
    BY <1>5 DEF BitmapScanFromAndFlip, BitmapSetBitsValue, Span
  <2> HIDE DEF f
  <2> QED
    BY <2>2, <2>3, <2>4, <2>5, <2>6 DEF N
<1> QED
  BY <1>4, <1>5

\* A region's frames are walked in the order of its pages: there is one.
LEMMA SetsOfPagesHaveAnOrder ==
    ASSUME NEW a \in Nat, NEW n \in Nat, NEW S, S \subseteq Span(a, n)
    PROVE  \E s \in SetToSeqs(S) : \A i, j \in DOMAIN s : i < j => s[i] < s[j]
<1> DEFINE Part(k) == {p \in S : p < a + k}
           Walk(k, m, s) == /\ m \in Nat /\ s \in [1 .. m -> Part(k)]
                            /\ \A i, j \in 1 .. m : i < j => s[i] < s[j]
                            /\ \A p \in Part(k) : \E i \in 1 .. m : s[i] = p
           Ordered(k) == \E m, s : Walk(k, m, s)
           bad == {k \in Nat : k <= n /\ ~Ordered(k)}
<1>1. S \subseteq Nat /\ \A p \in S : a <= p /\ p < a + n
  BY DEF Span
<1>2. bad = {}
  <2> SUFFICES ASSUME bad # {} PROVE FALSE
    OBVIOUS
  <2>1. bad \subseteq Nat
    OBVIOUS
  <2> HIDE DEF bad
  <2>2. PICK k \in bad : \A y \in bad : k <= y
    BY <2>1, LeastNatural
  <2>3. k \in Nat /\ k <= n /\ ~Ordered(k)
    BY DEF bad
  <2>4. CASE k = 0
    <3>1. Part(k) = {}
      <4>1. \A p \in S : ~(p < a + 0)
        BY <1>1
      <4> QED
        BY <2>4, <4>1
    <3>2. Walk(k, 0, [i \in 1 .. 0 |-> 0])
      BY <3>1
    <3> QED
      BY <2>3, <3>2
  <2>5. CASE k # 0
    <3>1. k - 1 \in Nat /\ k - 1 <= n /\ k - 1 \notin bad
      BY <2>2, <2>3, <2>5
    <3>2. PICK m, s : Walk(k - 1, m, s)
      BY <3>1 DEF bad
    <3> DEFINE q == a + (k - 1)
    <3>3. q \in Nat /\ \A p \in Nat : p < a + k <=> p < q \/ p = q
      BY <2>3, <3>1
    <3>4. Part(k - 1) = {p \in S : p < q}
      OBVIOUS
    <3> HIDE DEF q
    <3>5. CASE q \notin S
      <4>1. Part(k) = Part(k - 1)
        BY <1>1, <3>3, <3>4, <3>5
      <4>2. Walk(k, m, s)
        BY <3>2, <4>1
      <4> QED
        BY <2>3, <4>2
    <3>6. CASE q \in S
      <4> DEFINE w == [i \in 1 .. m + 1 |-> IF i = m + 1 THEN q ELSE s[i]]
      <4>1. \A p : p \in Part(k) <=> p \in Part(k - 1) \/ p = q
        BY <1>1, <3>3, <3>4, <3>6
      <4>2. m \in Nat /\ \A i \in 1 .. m + 1 : i = m + 1 \/ i \in 1 .. m
        BY <3>2
      <4>3. \A i \in 1 .. m : i \in 1 .. m + 1 /\ s[i] \in Part(k - 1) /\ s[i] < q /\ w[i] = s[i]
        <5>1. \A i \in 1 .. m : i \in 1 .. m + 1 /\ i # m + 1
          BY <4>2
        <5>2. \A i \in 1 .. m : s[i] \in Part(k - 1)
          BY <3>2
        <5> QED
          BY <3>4, <5>1, <5>2
      <4>4. w[m + 1] = q /\ m + 1 \in 1 .. m + 1 /\ m + 1 \in Nat
        BY <4>2
      <4>5. w \in [1 .. m + 1 -> Part(k)]
        BY <4>1, <4>2, <4>3
      <4> HIDE DEF w
      <4>6. ASSUME NEW i \in 1 .. m + 1, NEW j \in 1 .. m + 1, i < j PROVE w[i] < w[j]
        <5>1. i \in 1 .. m
          BY <4>2, <4>6
        <5>2. CASE j = m + 1
          BY <4>3, <4>4, <5>1, <5>2
        <5>3. CASE j \in 1 .. m
          BY <3>2, <4>3, <4>6, <5>1, <5>3
        <5> QED
          BY <4>2, <5>2, <5>3
      <4>7. \A p \in Part(k) : \E i \in 1 .. m + 1 : w[i] = p
        <5> SUFFICES ASSUME NEW p \in Part(k) PROVE \E i \in 1 .. m + 1 : w[i] = p
          OBVIOUS
        <5>1. CASE p = q
          BY <4>4, <5>1
        <5>2. CASE p # q
          <6>1. PICK i \in 1 .. m : s[i] = p
            BY <3>2, <4>1, <5>2
          <6> QED
            BY <4>3, <6>1
        <5> QED
          BY <5>1, <5>2
      <4>8. Walk(k, m + 1, w)
        BY <4>4, <4>5, <4>6, <4>7
      <4> QED
        BY <2>3, <4>8
    <3> QED
      BY <3>5, <3>6
  <2> QED
    BY <2>4, <2>5
<1>3. PICK m, s : Walk(n, m, s)
  <2>1. n <= n
    OBVIOUS
  <2>2. \A k \in Nat : k <= n => Ordered(k)
    <3> HIDE DEF Ordered
    <3> QED
      BY <1>2
  <2> QED
    BY <2>1, <2>2
<1>4. Part(n) = S
  BY <1>1
<1>5. m \in Nat /\ s \in [1 .. m -> S] /\ \A p \in S : \E i \in 1 .. m : s[i] = p
  BY <1>3, <1>4
<1>6. \A i, j \in 1 .. m : i # j => s[i] # s[j]
  <2> SUFFICES ASSUME NEW i \in 1 .. m, NEW j \in 1 .. m, i < j PROVE s[i] # s[j]
    BY <1>5
  <2>1. s[i] < s[j] /\ s[i] \in Nat /\ s[j] \in Nat
    BY <1>1, <1>3, <1>5
  <2> QED
    BY <2>1
<1>7. Cardinality(S) = m
  <2>1. s \in Bijection(1 .. m, S)
    BY <1>5, <1>6 DEF Bijection, Injection, Surjection, IsInjective
  <2>2. ExistsBijection(1 .. m, S)
    BY <2>1 DEF ExistsBijection
  <2> QED
    BY <1>5, <2>2, FS_CountingElements
<1>8. s \in SetToSeqs(S)
  BY <1>5, <1>6, <1>7 DEF SetToSeqs
<1>9. \A i, j \in DOMAIN s : i < j => s[i] < s[j]
  BY <1>3, <1>5
<1> QED
  BY <1>8, <1>9

\* PresentFrames: the frames of the region's mapped pages, one entry for each.
LEMMA RegionIsWalked ==
    ASSUME FrameTypes, NEW va \in Positive, NEW n \in Positive, Span(va, n) \subseteq Pages
    PROVE  LET s == PresentFrames(va, n)
           IN  /\ s \in Seq(Frames)
               /\ \A p \in Span(va, n) : pte[p] # NoFrame => \E k \in 1 .. Len(s) : s[k] = pte[p]
               /\ \A k \in 1 .. Len(s) : \E p \in Span(va, n) : s[k] = pte[p]
               /\ \A k, l \in 1 .. Len(s) : k # l =>
                      \E p, q \in Span(va, n) : p # q /\ s[k] = pte[p] /\ s[l] = pte[q]
<1> DEFINE present == {p \in Span(va, n) : pte[p] # NoFrame}
           walk == CHOOSE s \in SetToSeqs(present) : \A i, j \in DOMAIN s : i < j => s[i] < s[j]
           N == Cardinality(present)
           s == [i \in DOMAIN walk |-> pte[walk[i]]]
<1>1. PresentFrames(va, n) = s
  BY DEF PresentFrames
<1>2. IsFiniteSet(present) /\ N \in Nat
  <2>1. IsFiniteSet(Span(va, n))
    BY FS_Interval DEF Span, Positive
  <2>2. IsFiniteSet(present)
    BY <2>1, FS_Subset
  <2> QED
    BY <2>2, FS_CardinalityType
<1>3. \A p \in present : p \in Span(va, n) /\ pte[p] \in Frames /\ pte[p] # NoFrame
  BY DEF FrameTypes
<1>4. \A p \in Span(va, n) : pte[p] # NoFrame => p \in present
  OBVIOUS
<1>5. present \subseteq Span(va, n) /\ va \in Nat /\ n \in Nat
  BY DEF Positive
<1> HIDE DEF present
<1>6. walk \in SetToSeqs(present)
  BY <1>5, SetsOfPagesHaveAnOrder
<1> HIDE DEF walk
<1>7. walk \in [1 .. N -> present] /\ \A i, j \in 1 .. N : i # j => walk[i] # walk[j]
  BY <1>6 DEF SetToSeqs
<1>8. \A p \in present : \E i \in 1 .. N : walk[i] = p
  <2>1. walk \in Injection(1 .. N, present)
    BY <1>7 DEF Injection, IsInjective
  <2>2. Cardinality(1 .. N) = N
    BY <1>2, FS_Interval
  <2>3. walk \in Surjection(1 .. N, present)
    BY <1>2, <2>1, <2>2, FS_Injection
  <2> QED
    BY <2>3 DEF Surjection
<1> HIDE DEF N
<1>9. /\ s \in [1 .. N -> Frames] /\ \A i \in 1 .. N : s[i] = pte[walk[i]] /\ walk[i] \in Span(va, n)
  BY <1>3, <1>7
<1> HIDE DEF s
<1>10. s \in Seq(Frames) /\ Len(s) = N
  BY <1>2, <1>9
<1>11. \A p \in Span(va, n) : pte[p] # NoFrame => \E k \in 1 .. N : s[k] = pte[p]
  BY <1>4, <1>8, <1>9
<1>12. \A k \in 1 .. N : \E p \in Span(va, n) : s[k] = pte[p]
  BY <1>9
<1>13. \A k, l \in 1 .. N : k # l => \E p, q \in Span(va, n) : p # q /\ s[k] = pte[p] /\ s[l] = pte[q]
  BY <1>7, <1>9
<1> QED
  BY <1>1, <1>10, <1>11, <1>12, <1>13

\* What it is to be in a place, before and after a step.
LEMMA PlacesAre ==
    ASSUME NEW f, NEW x
    PROVE  x \in Places(f) <=>
               \/ \E p \in Pages : pte[p] = f /\ x = <<"pte", p>>
               \/ \E i \in DOMAIN PagesToZeroList : PagesToZeroList[i] = f /\ x = <<"list", i>>
               \/ worker.pc = "zero" /\ worker.frame = f /\ x = <<"worker", 0>>
               \/ \E t \in Threads : /\ op[t].pc \in Holding /\ f \in Span(op[t].frame, op[t].n)
                                     /\ x = <<"thread", t>>
               \/ \E p \in Processes : /\ tables[p] # NoFrame /\ f \in Span(tables[p], TableFrames)
                                       /\ x = <<"tables", p>>
               \/ \E p \in Processes : f \in images[p] /\ x = <<"image", p>>
BY DEF Places, Holding

\* The same of the state after a step.
LEMMA PlacesAreNext ==
    ASSUME NEW f, NEW x
    PROVE  x \in Places(f)' <=>
               \/ \E p \in Pages : pte'[p] = f /\ x = <<"pte", p>>
               \/ \E i \in DOMAIN PagesToZeroList' : PagesToZeroList'[i] = f /\ x = <<"list", i>>
               \/ worker'.pc = "zero" /\ worker'.frame = f /\ x = <<"worker", 0>>
               \/ \E t \in Threads : /\ op'[t].pc \in Holding /\ f \in Span(op'[t].frame, op'[t].n)
                                     /\ x = <<"thread", t>>
               \/ \E p \in Processes : /\ tables'[p] # NoFrame /\ f \in Span(tables'[p], TableFrames)
                                       /\ x = <<"tables", p>>
               \/ \E p \in Processes : f \in images'[p] /\ x = <<"image", p>>
BY DEF Places, Holding

\* A frame that no holder gains or loses keeps its places.
LEMMA PlacesStay ==
    ASSUME NEW f,
           \A p \in Pages : pte'[p] = f <=> pte[p] = f,
           \A i : (i \in DOMAIN PagesToZeroList' /\ PagesToZeroList'[i] = f)
                 <=> (i \in DOMAIN PagesToZeroList /\ PagesToZeroList[i] = f),
           (worker'.pc = "zero" /\ worker'.frame = f) <=> (worker.pc = "zero" /\ worker.frame = f),
           \A t \in Threads : (op'[t].pc \in Holding /\ f \in Span(op'[t].frame, op'[t].n))
                             <=> (op[t].pc \in Holding /\ f \in Span(op[t].frame, op[t].n)),
           \A p \in Processes : (tables'[p] # NoFrame /\ f \in Span(tables'[p], TableFrames))
                               <=> (tables[p] # NoFrame /\ f \in Span(tables[p], TableFrames)),
           \A p \in Processes : f \in images'[p] <=> f \in images[p]
    PROVE  Places(f)' = Places(f)
<1>1. ASSUME NEW x PROVE x \in Places(f)' <=> x \in Places(f)
  BY PlacesAre, PlacesAreNext
<1> QED
  BY <1>1

\* Whatever holds a frame is one of its places.
LEMMA InPlace ==
    ASSUME NEW f
    PROVE  /\ \A p \in Pages : pte[p] = f => <<"pte", p>> \in Places(f)
           /\ \A i \in DOMAIN PagesToZeroList : PagesToZeroList[i] = f => <<"list", i>> \in Places(f)
           /\ worker.pc = "zero" /\ worker.frame = f => <<"worker", 0>> \in Places(f)
           /\ \A t \in Threads : op[t].pc \in Holding /\ f \in Span(op[t].frame, op[t].n)
                                => <<"thread", t>> \in Places(f)
           /\ \A p \in Processes : tables[p] # NoFrame /\ f \in Span(tables[p], TableFrames)
                                  => <<"tables", p>> \in Places(f)
           /\ \A p \in Processes : f \in images[p] => <<"image", p>> \in Places(f)
BY DEF Places, Holding

\* Frames that move as they may stay in one place, and are lost only by remapping
\* and with the address space of a process.
LEMMA FramesThatMove ==
    ASSUME MemoryAssumption, OnePlace, \A f \in Frames : Moved(f)
    PROVE  OnePlace' /\ Lost' \subseteq Lost \union Remapped \union Abandoned
<1>1. ASSUME NEW f \in Frames PROVE Places(f)' # {} => AllocationBitmap'[f] /\ \E x : Places(f)' = {x}
  <2>1. Places(f) # {} => AllocationBitmap[f] /\ \E x : Places(f) = {x}
    BY DEF OnePlace
  <2>2. ASSUME Places(f) # {}, Places(f)' \subseteq Places(f), Places(f)' # {} PROVE \E x : Places(f)' = {x}
    BY <2>1, <2>2
  <2>3. Moved(f)
    OBVIOUS
  <2> QED
    BY <2>1, <2>2, <2>3 DEF Moved
<1>2. ASSUME NEW f \in Lost', f \notin Remapped \union Abandoned PROVE f \in Lost
  <2>1. f \in AvailableFrames /\ AllocationBitmap'[f] /\ Places(f)' = {}
    BY <1>2 DEF Lost
  <2>2. f \in Frames /\ Moved(f)
    BY <2>1 DEF MemoryAssumption
  <2>3. Places(f) = {} /\ AllocationBitmap'[f] = AllocationBitmap[f]
    BY <1>2, <2>1, <2>2 DEF Moved
  <2> QED
    BY <2>1, <2>3 DEF Lost
<1> QED
  BY <1>1, <1>2 DEF OnePlace

\* A step that moves no frame.
LEMMA FramesRest ==
    ASSUME FrameTypes, UNCHANGED <<AllocationBitmap, pte, PagesToZeroList, NewPagesEvent, worker, tables, images>>,
           \A u \in Threads : (op'[u].pc \in Holding <=> op[u].pc \in Holding)
                              /\ (op[u].pc \in Holding => op'[u] = op[u])
    PROVE  FrameTypes' /\ \A f \in Frames : Moved(f)
<1>1. FrameTypes'
  BY DEF FrameTypes
<1>2. ASSUME NEW f \in Frames PROVE Places(f)' = Places(f)
  <2>1. ASSUME NEW x PROVE x \in Places(f)' <=> x \in Places(f)
    BY PlacesAre, PlacesAreNext
  <2> QED
    BY <2>1
<1> QED
  BY <1>1, <1>2 DEF Moved

\* A place that holds a frame is its only one.
LEMMA OnlyPlace ==
    ASSUME OnePlace, NEW f \in Frames, NEW x \in Places(f) PROVE Places(f) = {x} /\ AllocationBitmap[f]
BY DEF OnePlace

\* AllocFrames and FaultFrame: the frames were in no place, and the thread has them.
LEMMA ThreadTakesFrames ==
    ASSUME PmmAssumption, MemoryAssumption, FrameTypes, OnePlace, NEW t \in Threads, op[t].pc \notin Holding,
           op[t].n \in Positive, PmmReserveMemory(op[t].n),
           UNCHANGED <<pte, PagesToZeroList, NewPagesEvent, worker, tables, images>>,
           \A u \in Threads \ {t} : op'[u] = op[u],
           IF PmmReserved(op[t].n, 0) = NoFrame THEN op'[t].pc \notin Holding
           ELSE op'[t].pc \in Holding /\ op'[t].n = op[t].n /\ op'[t].frame = PmmReserved(op[t].n, 0)
    PROVE  FrameTypes' /\ \A f \in Frames : Moved(f)
<1> DEFINE F == PmmReserved(op[t].n, 0)
           n == op[t].n
<1>1. AllocationBitmap' = BitmapScanFromAndFlip(AllocationBitmap, 0, n, FALSE)
  BY DEF PmmReserveMemory, PmmReserveMemoryEx
<1>2. \/ F = NoFrame /\ AllocationBitmap' = AllocationBitmap
      \/ /\ F # NoFrame /\ F \in Nat /\ F \in Frames /\ F + n <= NumberOfFrames /\ Span(F, n) \subseteq Frames
         /\ \A g \in Span(F, n) : AllocationBitmap[g] = FALSE
         /\ AllocationBitmap' = [g \in Frames |-> IF g \in Span(F, n) THEN TRUE ELSE AllocationBitmap[g]]
  BY <1>1, ScanFindsFreeFrames DEF FrameTypes
<1> HIDE DEF F
<1>3. CASE F = NoFrame
  <2>1. AllocationBitmap' = AllocationBitmap /\ op'[t].pc \notin Holding
    BY <1>2, <1>3 DEF F
  <2> QED
    BY <2>1, FramesRest
<1>4. CASE F # NoFrame
  <2>1. op'[t].pc \in Holding /\ op'[t].n = n /\ op'[t].frame = F
    BY <1>4 DEF F
  <2>2. AllocationBitmap' \in [Frames -> BOOLEAN]
    BY <1>2, <1>4 DEF FrameTypes
  <2>3. \A u \in Threads : op'[u].pc \in Holding =>
            op'[u].frame \in Nat /\ Span(op'[u].frame, op'[u].n) \subseteq Frames
    BY <1>2, <1>4, <2>1 DEF FrameTypes
  <2>4. FrameTypes'
    BY <2>2, <2>3 DEF FrameTypes
  <2>5. ASSUME NEW f \in Frames, f \notin Span(F, n) PROVE Moved(f)
    <3>1. AllocationBitmap'[f] = AllocationBitmap[f]
      BY <1>2, <1>4, <2>5
    <3>2. \A u \in Threads : (op'[u].pc \in Holding /\ f \in Span(op'[u].frame, op'[u].n))
                             <=> (op[u].pc \in Holding /\ f \in Span(op[u].frame, op[u].n))
      BY <2>1, <2>5
    <3>3. Places(f)' = Places(f)
      BY <3>2, PlacesStay
    <3> QED
      BY <3>1, <3>3 DEF Moved
  <2>6. ASSUME NEW f \in Frames, f \in Span(F, n) PROVE Moved(f)
    <3>1. AllocationBitmap'[f] = TRUE /\ AllocationBitmap[f] = FALSE
      BY <1>2, <1>4, <2>6
    <3>2. \A x : x \notin Places(f)
      BY <3>1 DEF OnePlace
    <3>3. ASSUME NEW x PROVE x \in Places(f)' <=> x = <<"thread", t>>
      BY <2>1, <2>6, <3>2, InPlace, PlacesAreNext
    <3>4. Places(f)' = {<<"thread", t>>}
      BY <3>3
    <3> QED
      BY <3>1, <3>4 DEF Moved
  <2> QED
    BY <2>4, <2>5, <2>6
<1> QED
  BY <1>3, <1>4

\* CreatePagingTables: the frames were in no place.
LEMMA ProcessTakesFrames ==
    ASSUME PmmAssumption, MemoryAssumption, FrameTypes, OnePlace, NEW q \in Processes, CreatePagingTables(q)
    PROVE  FrameTypes' /\ \A f \in Frames : Moved(f)
<1> DEFINE F == PmmReserved(TableFrames, 0)
<1>1. /\ tables[q] = NoFrame /\ F # NoFrame /\ tables' = [tables EXCEPT ![q] = F]
      /\ UNCHANGED <<pte, PagesToZeroList, NewPagesEvent, worker, op, images>>
      /\ AllocationBitmap' = BitmapScanFromAndFlip(AllocationBitmap, 0, TableFrames, FALSE)
      /\ TableFrames \in Positive
  BY DEF CreatePagingTables, PmmReserveMemory, PmmReserveMemoryEx, workerVars, MemoryAssumption, Positive
<1>2. /\ F \in Nat /\ F \in Frames /\ Span(F, TableFrames) \subseteq Frames
      /\ \A g \in Span(F, TableFrames) : AllocationBitmap[g] = FALSE
      /\ AllocationBitmap' = [g \in Frames |-> IF g \in Span(F, TableFrames) THEN TRUE ELSE AllocationBitmap[g]]
  BY <1>1, ScanFindsFreeFrames DEF FrameTypes
<1> HIDE DEF F
<1>3. /\ tables' \in [Processes -> Frames \union {NoFrame}] /\ tables'[q] = F
      /\ \A p \in Processes \ {q} : tables'[p] = tables[p]
  BY <1>1, <1>2 DEF FrameTypes
<1>4. FrameTypes'
  <2>1. AllocationBitmap' \in [Frames -> BOOLEAN]
    BY <1>2 DEF FrameTypes
  <2> QED
    BY <1>1, <1>2, <1>3, <2>1 DEF FrameTypes
<1>5. ASSUME NEW f \in Frames, f \notin Span(F, TableFrames) PROVE Moved(f)
  <2>1. AllocationBitmap'[f] = AllocationBitmap[f]
    BY <1>2, <1>5
  <2>2. ASSUME NEW x PROVE x \in Places(f)' <=> x \in Places(f)
    BY <1>1, <1>3, <1>5, PlacesAre, PlacesAreNext
  <2>3. Places(f)' = Places(f)
    BY <2>2
  <2> QED
    BY <2>1, <2>3 DEF Moved
<1>6. ASSUME NEW f \in Frames, f \in Span(F, TableFrames) PROVE Moved(f)
  <2>1. AllocationBitmap'[f] = TRUE /\ AllocationBitmap[f] = FALSE
    BY <1>2, <1>6
  <2>2. \A x : x \notin Places(f)
    BY <2>1 DEF OnePlace
  <2>3. ASSUME NEW x PROVE x \in Places(f)' <=> x = <<"tables", q>>
    BY <1>1, <1>3, <1>6, <2>2, InPlace, PlacesAreNext
  <2>4. Places(f)' = {<<"tables", q>>}
    BY <2>3
  <2> QED
    BY <2>1, <2>4 DEF Moved
<1> QED
  BY <1>4, <1>5, <1>6

\* AllocMap and FaultMap: the thread's frames are in the page tables, and what
\* was mapped there is in no place any more.
LEMMA ThreadMapsFrames ==
    ASSUME MemoryAssumption, FrameTypes, OnePlace, NEW t \in Threads, op[t].pc \in Holding,
           op[t].va \in Positive, op[t].n \in Positive, Span(op[t].va, op[t].n) \subseteq Pages,
           MapPages(op[t].va, op[t].n, op[t].frame),
           UNCHANGED <<AllocationBitmap, PagesToZeroList, NewPagesEvent, worker, tables, images>>,
           \A u \in Threads \ {t} : op'[u] = op[u], op'[t].pc \notin Holding
    PROVE  FrameTypes' /\ \A f \in Frames : Moved(f)
<1> DEFINE F == op[t].frame
           va == op[t].va
           n == op[t].n
<1>1. F \in Nat /\ Span(F, n) \subseteq Frames /\ Frames \subseteq Int
  BY DEF FrameTypes, Frames
<1>2. \A p \in Pages : pte'[p] = IF p \in Span(va, n) THEN F + (p - va) ELSE pte[p]
  BY DEF MapPages
<1>3. \A p \in Span(va, n) : p \in Int /\ F + (p - va) \in Span(F, n)
  BY <1>1 DEF Span, Positive
<1>4. pte' \in [Pages -> Frames \union {NoFrame}]
  <2>1. \A p \in Pages : pte'[p] \in Frames \union {NoFrame}
    BY <1>1, <1>2, <1>3 DEF FrameTypes
  <2> QED
    BY <2>1 DEF MapPages
<1>5. FrameTypes'
  BY <1>4 DEF FrameTypes
<1>6. ASSUME NEW f \in Frames, f \in Span(F, n) PROVE Moved(f)
  <2> DEFINE p0 == va + (f - F)
  <2>1. p0 \in Span(va, n) /\ \A p \in Span(va, n) : F + (p - va) = f <=> p = p0
    BY <1>1, <1>3, <1>6 DEF Span, Positive
  <2> HIDE DEF p0
  <2>2. Places(f) = {<<"thread", t>>}
    BY <1>6, InPlace, OnlyPlace
  <2>3. ASSUME NEW x PROVE x \in Places(f)' <=> x = <<"pte", p0>>
    <3>1. \A p \in Pages : pte'[p] = f <=> p = p0
      <4>1. \A p \in Pages : pte[p] # f
        BY <2>2, InPlace
      <4> QED
        BY <1>2, <2>1, <4>1
    <3>2. p0 \in Pages
      BY <2>1
    <3> QED
      BY <2>2, <3>1, <3>2, InPlace, PlacesAreNext
  <2>4. Places(f)' = {<<"pte", p0>>}
    BY <2>3
  <2> QED
    BY <2>2, <2>4 DEF Moved
<1>7. ASSUME NEW f \in Frames, f \notin Span(F, n) PROVE Moved(f)
  <2>1. \A p \in Pages : pte'[p] = f <=> pte[p] = f /\ p \notin Span(va, n)
    BY <1>2, <1>3, <1>7
  <2>2. CASE \E p \in Span(va, n) : pte[p] = f
    <3>1. f \in Remapped
      BY <2>2 DEF Remapped, Holding
    <3>2. ASSUME NEW x \in Places(f)' PROVE x \in Places(f)
      BY <1>7, <2>1, PlacesAre, PlacesAreNext
    <3> QED
      BY <3>1, <3>2 DEF Moved
  <2>3. CASE ~\E p \in Span(va, n) : pte[p] = f
    <3>1. \A p \in Pages : pte'[p] = f <=> pte[p] = f
      BY <2>1, <2>3
    <3>2. ASSUME NEW x PROVE x \in Places(f)' <=> x \in Places(f)
      BY <1>7, <3>1, PlacesAre, PlacesAreNext
    <3>3. Places(f)' = Places(f)
      BY <3>2
    <3> QED
      BY <3>3 DEF Moved
  <2> QED
    BY <2>2, <2>3
<1> QED
  BY <1>5, <1>6, <1>7

\* Where the entries of two lists are when one is appended to the other.
LEMMA Appended ==
    ASSUME NEW S, NEW a \in Seq(S), NEW b \in Seq(S)
    PROVE  /\ Len(a) \in Nat /\ Len(b) \in Nat
           /\ DOMAIN a = 1 .. Len(a) /\ DOMAIN (a \o b) = 1 .. Len(a) + Len(b)
           /\ \A i \in 1 .. Len(a) : (a \o b)[i] = a[i]
           /\ \A k \in 1 .. Len(b) : (a \o b)[Len(a) + k] = b[k]
           /\ \A i \in 1 .. Len(a) + Len(b) :
                  i \in 1 .. Len(a) \/ (i - Len(a) \in 1 .. Len(b) /\ i = Len(a) + (i - Len(a)))
OBVIOUS

\* FreeUnmap: the frames of the pages are queued, once each, or kept for an image.
LEMMA UnmappedFramesAreQueued ==
    ASSUME MemoryAssumption, SpaceInv, FrameTypes, OnePlace, NEW t \in Threads, FreeUnmap(t)
    PROVE  FrameTypes' /\ \A f \in Frames : Moved(f)
<1> DEFINE va == op[t].va
           n == op[t].n
           s == PresentFrames(va, n)
           L == PagesToZeroList
           add == IF op[t].keep = {} THEN s ELSE <<>>
<1>1. /\ op[t].pc = "unmap" /\ UNCHANGED <<AllocationBitmap, worker, tables>>
      /\ \A p \in Pages : pte'[p] = IF p \in Span(va, n) THEN NoFrame ELSE pte[p]
      /\ pte' = [p \in Pages |-> IF p \in Span(va, n) THEN NoFrame ELSE pte[p]]
      /\ PagesToZeroList' = L \o add /\ NewPagesEvent' = (NewPagesEvent \/ add # <<>>)
      /\ images' = [p \in Processes |-> images[p] \union (IF p \in op[t].keep THEN ToSet(s) ELSE {})]
      /\ Return(t)
  BY DEF FreeUnmap, UnmapPages, ReleaseFrames
<1>2. va \in Positive /\ n \in Positive /\ (op[t].keep = {} \/ \E q \in Processes : op[t].keep = {q})
  BY <1>1, OpClass DEF SpaceInv, FreeOps
<1>3. Span(va, n) \subseteq Pages
  <2>1. va + n <= NPages + 1 /\ NPages \in Nat
    BY <1>1 DEF SpaceInv, OpInv, Passed, MemoryAssumption
  <2> QED
    BY <1>2, <2>1 DEF Span, Pages, Positive
<1>4. /\ s \in Seq(Frames)
      /\ \A p \in Span(va, n) : pte[p] # NoFrame => \E k \in 1 .. Len(s) : s[k] = pte[p]
      /\ \A k \in 1 .. Len(s) : \E p \in Span(va, n) : s[k] = pte[p]
      /\ \A k, l \in 1 .. Len(s) : k # l => \E p, q \in Span(va, n) : p # q /\ s[k] = pte[p] /\ s[l] = pte[q]
  BY <1>2, <1>3, RegionIsWalked
<1> HIDE DEF s
<1>5. add \in Seq(Frames) /\ L \in Seq(Frames)
  <2>1. <<>> \in Seq(Frames)
    OBVIOUS
  <2> QED
    BY <1>4, <2>1 DEF FrameTypes
<1>6. /\ Len(s) \in Nat /\ Len(L) \in Nat /\ Len(add) \in Nat
      /\ DOMAIN L = 1 .. Len(L) /\ DOMAIN (L \o add) = 1 .. Len(L) + Len(add)
      /\ \A i \in 1 .. Len(L) : (L \o add)[i] = L[i]
      /\ \A k \in 1 .. Len(add) : (L \o add)[Len(L) + k] = add[k]
      /\ \A i \in 1 .. Len(L) + Len(add) :
             i \in 1 .. Len(L) \/ (i - Len(L) \in 1 .. Len(add) /\ i = Len(L) + (i - Len(L)))
  BY <1>4, <1>5, Appended
<1>7. ToSet(s) = {s[k] : k \in 1 .. Len(s)} /\ ToSet(s) \subseteq Frames
  BY <1>4 DEF ToSet
<1>8. /\ \A u \in Threads \ {t} : op'[u] = op[u]
      /\ op[t].pc \notin Holding /\ op'[t].pc \notin Holding
  BY <1>1 DEF Return, Idle, Holding, SpaceInv, OpInv
<1>9. FrameTypes'
  <2>1. pte' \in [Pages -> Frames \union {NoFrame}]
    BY <1>1 DEF FrameTypes
  <2>2. PagesToZeroList' \in Seq(Frames) /\ NewPagesEvent' \in BOOLEAN
    BY <1>1, <1>5 DEF FrameTypes
  <2>3. images' \in [Processes -> SUBSET Frames]
    BY <1>1, <1>7 DEF FrameTypes
  <2> QED
    BY <1>1, <1>8, <2>1, <2>2, <2>3 DEF FrameTypes
<1>10. ASSUME NEW f \in Frames, NEW p \in Span(va, n), pte[p] = f PROVE Moved(f)
  <2>1. Places(f) = {<<"pte", p>>} /\ f # NoFrame /\ p \in Pages
    BY <1>3, <1>10, InPlace, OnlyPlace DEF MemoryAssumption
  <2>2. \A q \in Pages : (pte[q] = f => q = p) /\ pte'[q] # f
    BY <1>1, <1>10, <2>1, InPlace
  <2>3. /\ \A i \in DOMAIN L : L[i] # f
        /\ ~(worker.pc = "zero" /\ worker.frame = f) /\ \A q \in Processes : f \notin images[q]
        /\ \A u \in Threads : ~(op[u].pc \in Holding /\ f \in Span(op[u].frame, op[u].n))
        /\ \A q \in Processes : ~(tables[q] # NoFrame /\ f \in Span(tables[q], TableFrames))
    BY <2>1, InPlace
  <2>4. PICK k \in 1 .. Len(s) : s[k] = f
    BY <1>4, <1>10, <2>1
  <2>5. \A l \in 1 .. Len(s) : s[l] = f => l = k
    BY <1>3, <1>4, <2>2, <2>4
  <2>6. ASSUME NEW r \in Processes, op[t].keep = {r} PROVE Moved(f)
    <3>1. ASSUME NEW x PROVE x \in Places(f)' <=> x = <<"image", r>>
      <4>1. \A q \in Processes : f \in images'[q] <=> q = r
        BY <1>1, <1>7, <2>3, <2>4, <2>6
      <4>2. \A i \in DOMAIN PagesToZeroList' : PagesToZeroList'[i] # f
        BY <1>1, <1>5, <1>6, <2>3, <2>6
      <4> QED
        BY <1>1, <1>8, <2>2, <2>3, <4>1, <4>2, PlacesAreNext
    <3>2. Places(f)' = {<<"image", r>>}
      BY <3>1
    <3> QED
      BY <1>1, <2>1, <3>2 DEF Moved
  <2>7. CASE op[t].keep = {}
    <3>1. ASSUME NEW x PROVE x \in Places(f)' <=> x = <<"list", Len(L) + k>>
      <4>1. \A q \in Processes : f \notin images'[q]
        BY <1>1, <2>3, <2>7
      <4>2. /\ Len(L) + k \in DOMAIN PagesToZeroList'
            /\ \A i \in DOMAIN PagesToZeroList' : PagesToZeroList'[i] = f <=> i = Len(L) + k
        <5>1. add = s /\ PagesToZeroList' = L \o add
          BY <1>1, <2>7
        <5>2. Len(L) + k \in 1 .. Len(L) + Len(add) /\ (L \o add)[Len(L) + k] = f
          BY <1>6, <2>4, <5>1
        <5>3. ASSUME NEW i \in 1 .. Len(L) + Len(add), (L \o add)[i] = f PROVE i = Len(L) + k
          <6>1. i \notin 1 .. Len(L)
            BY <1>6, <2>3, <5>3
          <6>2. i - Len(L) \in 1 .. Len(add) /\ i = Len(L) + (i - Len(L))
            BY <1>6, <6>1
          <6>3. s[i - Len(L)] = f
            BY <1>6, <5>1, <5>3, <6>2
          <6>4. i - Len(L) = k
            BY <2>5, <5>1, <6>2, <6>3
          <6> QED
            BY <6>2, <6>4
        <5> QED
          BY <1>6, <5>1, <5>2, <5>3
      <4>3. \A q \in Pages : pte'[q] # f
        BY <1>1, <2>2, <2>3
      <4>4. ~(worker'.pc = "zero" /\ worker'.frame = f) /\ \A u \in Threads : ~(op'[u].pc \in Holding /\ f \in Span(op'[u].frame, op'[u].n))
        BY <1>1, <1>8, <2>3
      <4>5. \A q \in Processes : ~(tables'[q] # NoFrame /\ f \in Span(tables'[q], TableFrames))
        BY <1>1, <2>3
      <4> QED
        BY <4>1, <4>2, <4>3, <4>4, <4>5, PlacesAreNext
    <3>2. Places(f)' = {<<"list", Len(L) + k>>}
      BY <3>1
    <3> QED
      BY <1>1, <2>1, <3>2 DEF Moved
  <2> QED
    BY <1>2, <2>6, <2>7
<1>11. ASSUME NEW f \in Frames, \A p \in Span(va, n) : pte[p] # f PROVE Moved(f)
  <2>1. \A p \in Pages : pte'[p] = f <=> pte[p] = f
    BY <1>1, <1>11 DEF MemoryAssumption
  <2>2. \A k \in 1 .. Len(s) : s[k] # f
    BY <1>4, <1>11
  <2>3. \A q \in Processes : f \in images'[q] <=> f \in images[q]
    BY <1>1, <1>7, <2>2
  <2>4. \A i : (i \in DOMAIN PagesToZeroList' /\ PagesToZeroList'[i] = f) <=> (i \in DOMAIN L /\ L[i] = f)
    <3>1. \A k \in 1 .. Len(add) : add[k] # f
      BY <2>2
    <3>2. ASSUME NEW i \in 1 .. Len(L) + Len(add), (L \o add)[i] = f PROVE i \in 1 .. Len(L) /\ L[i] = f
      BY <1>6, <3>1, <3>2
    <3>3. \A i \in 1 .. Len(L) : i \in 1 .. Len(L) + Len(add)
      BY <1>6
    <3> QED
      BY <1>1, <1>6, <3>2, <3>3
  <2>5. ASSUME NEW x PROVE x \in Places(f)' <=> x \in Places(f)
    BY <1>1, <1>8, <2>1, <2>3, <2>4, PlacesAre, PlacesAreNext
  <2>6. Places(f)' = Places(f)
    BY <2>5
  <2> QED
    BY <1>1, <2>6 DEF Moved
<1> QED
  BY <1>9, <1>10, <1>11

\* DestroyPagingTables: the frames of the tables are queued, those of the image left.
LEMMA TablesAreQueued ==
    ASSUME MemoryAssumption, FrameTypes, OnePlace, NEW q \in Processes, DestroyPagingTables(q)
    PROVE  FrameTypes' /\ \A f \in Frames : Moved(f)
<1> DEFINE F == tables[q]
           L == PagesToZeroList
           add == [i \in 1 .. TableFrames |-> F + i - 1]
<1>1. /\ F # NoFrame /\ UNCHANGED <<AllocationBitmap, pte, worker, op>>
      /\ images' = [images EXCEPT ![q] = {}]
      /\ PagesToZeroList' = L \o add /\ NewPagesEvent' = (NewPagesEvent \/ add # <<>>)
      /\ tables' = [tables EXCEPT ![q] = NoFrame]
  BY DEF DestroyPagingTables, ReleaseFrames
<1>2. F \in Frames /\ F \in Nat /\ Span(F, TableFrames) \subseteq Frames /\ TableFrames \in Nat
  BY <1>1 DEF FrameTypes, Frames, MemoryAssumption
<1>3. /\ tables' \in [Processes -> Frames \union {NoFrame}] /\ tables'[q] = NoFrame
      /\ \A p \in Processes \ {q} : tables'[p] = tables[p]
      /\ images' \in [Processes -> SUBSET Frames] /\ images'[q] = {}
      /\ \A p \in Processes \ {q} : images'[p] = images[p]
  BY <1>1 DEF FrameTypes
<1>4. \A k \in 1 .. TableFrames : F + k - 1 \in Span(F, TableFrames)
  BY <1>2 DEF Span
<1>5. add \in Seq(Frames) /\ Len(add) = TableFrames /\ L \in Seq(Frames)
  <2>1. add \in [1 .. TableFrames -> Frames]
    BY <1>2, <1>4
  <2> QED
    BY <1>2, <2>1 DEF FrameTypes
<1>6. \A k \in 1 .. TableFrames : add[k] = F + k - 1
  OBVIOUS
<1> HIDE DEF add
<1>7. /\ Len(L) \in Nat
      /\ DOMAIN L = 1 .. Len(L) /\ DOMAIN (L \o add) = 1 .. Len(L) + TableFrames
      /\ \A i \in 1 .. Len(L) : (L \o add)[i] = L[i]
      /\ \A k \in 1 .. TableFrames : (L \o add)[Len(L) + k] = F + k - 1
      /\ \A i \in 1 .. Len(L) + TableFrames :
             i \in 1 .. Len(L) \/ (i - Len(L) \in 1 .. TableFrames /\ i = Len(L) + (i - Len(L)))
  <2>1. /\ Len(L) \in Nat
        /\ DOMAIN L = 1 .. Len(L) /\ DOMAIN (L \o add) = 1 .. Len(L) + Len(add)
        /\ \A i \in 1 .. Len(L) : (L \o add)[i] = L[i]
        /\ \A k \in 1 .. Len(add) : (L \o add)[Len(L) + k] = add[k]
        /\ \A i \in 1 .. Len(L) + Len(add) :
               i \in 1 .. Len(L) \/ (i - Len(L) \in 1 .. Len(add) /\ i = Len(L) + (i - Len(L)))
    <3>1. L \in Seq(Frames) /\ add \in Seq(Frames)
      BY <1>5
    <3> HIDE DEF L
    <3> QED
      BY <3>1, Appended
  <2> QED
    BY <1>5, <1>6, <2>1, Zenon
<1>8. FrameTypes'
  <2>1. PagesToZeroList' \in Seq(Frames) /\ NewPagesEvent' \in BOOLEAN
    BY <1>1, <1>5 DEF FrameTypes
  <2> QED
    BY <1>1, <1>3, <2>1 DEF FrameTypes
<1>9. ASSUME NEW f \in Frames, f \in Span(F, TableFrames) PROVE Moved(f)
  <2>1. Places(f) = {<<"tables", q>>}
    BY <1>1, <1>9, InPlace, OnlyPlace
  <2>2. /\ \A p \in Pages : pte[p] # f
        /\ \A i \in DOMAIN L : L[i] # f
        /\ ~(worker.pc = "zero" /\ worker.frame = f) /\ \A p \in Processes : f \notin images[p]
        /\ \A u \in Threads : ~(op[u].pc \in Holding /\ f \in Span(op[u].frame, op[u].n))
        /\ \A p \in Processes \ {q} : ~(tables[p] # NoFrame /\ f \in Span(tables[p], TableFrames))
    BY <2>1, InPlace
  <2> DEFINE k == f - F + 1
  <2>3. k \in 1 .. TableFrames /\ f = F + k - 1 /\ \A l \in 1 .. TableFrames : F + l - 1 = f => l = k
    BY <1>2, <1>9 DEF Span
  <2> HIDE DEF k
  <2>4. /\ Len(L) + k \in DOMAIN PagesToZeroList'
        /\ \A i \in DOMAIN PagesToZeroList' : PagesToZeroList'[i] = f <=> i = Len(L) + k
    <3>1. Len(L) + k \in 1 .. Len(L) + TableFrames /\ (L \o add)[Len(L) + k] = f
      BY <1>2, <1>7, <2>3
    <3>2. ASSUME NEW i \in 1 .. Len(L) + TableFrames, (L \o add)[i] = f PROVE i = Len(L) + k
      <4>1. i \notin 1 .. Len(L)
        BY <1>7, <2>2, <3>2
      <4>2. i - Len(L) \in 1 .. TableFrames /\ i = Len(L) + (i - Len(L))
        BY <1>7, <4>1
      <4>3. F + (i - Len(L)) - 1 = f
        BY <1>7, <3>2, <4>2
      <4>4. i - Len(L) = k
        BY <2>3, <4>2, <4>3
      <4> QED
        BY <4>2, <4>4
    <3> QED
      BY <1>1, <1>7, <3>1, <3>2
  <2>5. ASSUME NEW x PROVE x \in Places(f)' <=> x = <<"list", Len(L) + k>>
    BY <1>1, <1>3, <2>2, <2>4, PlacesAreNext
  <2>6. Places(f)' = {<<"list", Len(L) + k>>}
    BY <2>5
  <2> QED
    BY <1>1, <2>1, <2>6 DEF Moved
<1>10. ASSUME NEW f \in Frames, f \notin Span(F, TableFrames) PROVE Moved(f)
  <2>1. \A k \in 1 .. TableFrames : F + k - 1 # f
    BY <1>4, <1>10
  <2>2. \A i : (i \in DOMAIN PagesToZeroList' /\ PagesToZeroList'[i] = f) <=> (i \in DOMAIN L /\ L[i] = f)
    <3>1. ASSUME NEW i \in 1 .. Len(L) + TableFrames, (L \o add)[i] = f PROVE i \in 1 .. Len(L) /\ L[i] = f
      BY <1>7, <2>1, <3>1
    <3>2. \A i \in 1 .. Len(L) : i \in 1 .. Len(L) + TableFrames
      BY <1>2, <1>7
    <3> QED
      BY <1>1, <1>7, <3>1, <3>2
  <2>3. CASE f \in images[q]
    <3>1. f \in Abandoned
      BY <1>1, <1>3, <2>3 DEF Abandoned
    <3>2. ASSUME NEW x \in Places(f)' PROVE x \in Places(f)
      BY <1>1, <1>3, <1>10, <2>2, PlacesAre, PlacesAreNext
    <3> QED
      BY <1>1, <3>1, <3>2 DEF Moved
  <2>4. CASE f \notin images[q]
    <3>1. ASSUME NEW x PROVE x \in Places(f)' <=> x \in Places(f)
      BY <1>1, <1>3, <1>10, <2>2, <2>4, PlacesAre, PlacesAreNext
    <3>2. Places(f)' = Places(f)
      BY <3>1
    <3> QED
      BY <1>1, <3>2 DEF Moved
  <2> QED
    BY <2>3, <2>4
<1> QED
  BY <1>8, <1>9, <1>10

\* WorkerTake: the head of the list goes to the worker, the others move up.
LEMMA WorkerTakesOneFrame ==
    ASSUME MemoryAssumption, FrameTypes, OnePlace, WorkerTake
    PROVE  FrameTypes' /\ \A f \in Frames : Moved(f)
<1> DEFINE L == PagesToZeroList
<1>1. /\ worker.pc = "wait" /\ UNCHANGED <<AllocationBitmap, pte, NewPagesEvent, op, tables, images>>
      /\ L \in Seq(Frames)
  BY DEF WorkerTake, FrameTypes
<1>2. CASE L = <<>>
  <2>1. PagesToZeroList' = L /\ worker' = [worker EXCEPT !.pc = "clear"]
    BY <1>2 DEF WorkerTake
  <2>2. worker' \in [pc : WorkerPcs, frame : Frames \union {NoFrame}] /\ worker'.pc = "clear"
    BY <1>1, <2>1 DEF FrameTypes, WorkerPcs
  <2>3. FrameTypes'
    BY <1>1, <2>1, <2>2 DEF FrameTypes
  <2>4. ASSUME NEW f \in Frames PROVE Moved(f)
    <3>1. ASSUME NEW x PROVE x \in Places(f)' <=> x \in Places(f)
      BY <1>1, <2>1, <2>2, PlacesAre, PlacesAreNext
    <3>2. Places(f)' = Places(f)
      BY <3>1
    <3> QED
      BY <1>1, <3>2 DEF Moved
  <2> QED
    BY <2>3, <2>4
<1>3. CASE L # <<>>
  <2>1. PagesToZeroList' = Tail(L) /\ worker' = [pc |-> "zero", frame |-> Head(L)]
    BY <1>3 DEF WorkerTake
  <2>2. /\ Len(L) \in Nat \ {0} /\ DOMAIN L = 1 .. Len(L) /\ Head(L) = L[1] /\ Head(L) \in Frames
        /\ Tail(L) \in Seq(Frames) /\ DOMAIN Tail(L) = 1 .. Len(L) - 1
        /\ \A i \in 1 .. Len(L) - 1 : Tail(L)[i] = L[i + 1]
    BY <1>1, <1>3
  <2>3. /\ worker' \in [pc : WorkerPcs, frame : Frames \union {NoFrame}]
        /\ worker'.pc = "zero" /\ worker'.frame = L[1]
    BY <2>1, <2>2 DEF WorkerPcs
  <2>4. FrameTypes'
    <3>1. Head(L) # NoFrame
      BY <2>2 DEF MemoryAssumption
    <3> QED
      BY <1>1, <2>1, <2>2, <2>3, <3>1 DEF FrameTypes
  <2>5. /\ 1 \in DOMAIN L /\ \A i \in 1 .. Len(L) - 1 : i + 1 \in DOMAIN L /\ i + 1 # 1
        /\ \A i \in DOMAIN L : i = 1 \/ (i - 1 \in 1 .. Len(L) - 1 /\ i = (i - 1) + 1)
        /\ \A i, j \in 1 .. Len(L) - 1 : i + 1 = j + 1 => i = j
    BY <2>2
  <2>6. ASSUME NEW f \in Frames, L[1] = f PROVE Moved(f)
    <3>1. Places(f) = {<<"list", 1>>}
      BY <2>5, <2>6, InPlace, OnlyPlace
    <3>2. /\ \A p \in Pages : pte[p] # f
          /\ \A i \in DOMAIN L : L[i] = f => i = 1
          /\ \A p \in Processes : f \notin images[p]
          /\ \A u \in Threads : ~(op[u].pc \in Holding /\ f \in Span(op[u].frame, op[u].n))
          /\ \A p \in Processes : ~(tables[p] # NoFrame /\ f \in Span(tables[p], TableFrames))
      BY <3>1, InPlace
    <3>3. \A i \in DOMAIN PagesToZeroList' : PagesToZeroList'[i] # f
      BY <2>1, <2>2, <2>5, <3>2
    <3>4. ASSUME NEW x PROVE x \in Places(f)' <=> x = <<"worker", 0>>
      BY <1>1, <2>3, <2>6, <3>2, <3>3, PlacesAreNext
    <3>5. Places(f)' = {<<"worker", 0>>}
      BY <3>4
    <3> QED
      BY <1>1, <3>1, <3>5 DEF Moved
  <2>7. ASSUME NEW f \in Frames, L[1] # f, NEW j \in DOMAIN L, L[j] = f PROVE Moved(f)
    <3>1. Places(f) = {<<"list", j>>}
      BY <2>7, InPlace, OnlyPlace
    <3>2. /\ \A p \in Pages : pte[p] # f
          /\ \A i \in DOMAIN L : L[i] = f => i = j
          /\ \A p \in Processes : f \notin images[p]
          /\ \A u \in Threads : ~(op[u].pc \in Holding /\ f \in Span(op[u].frame, op[u].n))
          /\ \A p \in Processes : ~(tables[p] # NoFrame /\ f \in Span(tables[p], TableFrames))
      BY <3>1, InPlace
    <3>3. j - 1 \in 1 .. Len(L) - 1 /\ j = (j - 1) + 1
      BY <2>5, <2>7
    <3>4. \A i \in 1 .. Len(L) - 1 : Tail(L)[i] = f <=> i = j - 1
      BY <2>2, <2>5, <2>7, <3>2, <3>3
    <3>5. ASSUME NEW x PROVE x \in Places(f)' <=> x = <<"list", j - 1>>
      BY <1>1, <2>1, <2>2, <2>3, <2>7, <3>2, <3>3, <3>4, PlacesAreNext
    <3>6. Places(f)' = {<<"list", j - 1>>}
      BY <3>5
    <3> QED
      BY <1>1, <3>1, <3>6 DEF Moved
  <2>8. ASSUME NEW f \in Frames, \A i \in DOMAIN L : L[i] # f PROVE Moved(f)
    <3>1. \A i \in 1 .. Len(L) - 1 : Tail(L)[i] # f
      BY <2>2, <2>5, <2>8
    <3>2. worker.pc # "zero" /\ worker'.frame # f
      BY <1>1, <2>3, <2>5, <2>8 DEF MemoryAssumption
    <3>3. ASSUME NEW x PROVE x \in Places(f)' <=> x \in Places(f)
      BY <1>1, <2>1, <2>2, <2>8, <3>1, <3>2, PlacesAre, PlacesAreNext
    <3>4. Places(f)' = Places(f)
      BY <3>3
    <3> QED
      BY <1>1, <3>4 DEF Moved
  <2> QED
    BY <2>4, <2>5, <2>6, <2>7, <2>8
<1> QED
  BY <1>2, <1>3

\* WorkerClear and WorkerUnmap move no frame, and WorkerZero gives its own back.
LEMMA WorkerFreesItsFrame ==
    ASSUME MemoryAssumption, FrameTypes, OnePlace, WorkerClear \/ WorkerZero \/ WorkerUnmap
    PROVE  FrameTypes' /\ \A f \in Frames : Moved(f)
<1>1. IdleWorker \in [pc : WorkerPcs, frame : Frames \union {NoFrame}] /\ IdleWorker.pc = "wait"
  BY DEF IdleWorker, WorkerPcs
<1>2. UNCHANGED <<pte, PagesToZeroList, op, tables, images>>
  BY DEF WorkerClear, WorkerZero, WorkerUnmap
<1>3. CASE WorkerClear \/ WorkerUnmap
  <2>1. UNCHANGED AllocationBitmap /\ NewPagesEvent' \in BOOLEAN /\ worker.pc # "zero" /\ worker' = IdleWorker
    BY <1>3 DEF WorkerClear, WorkerUnmap, FrameTypes
  <2>2. worker'.pc # "zero"
    BY <1>1, <2>1
  <2>3. FrameTypes'
    BY <1>1, <1>2, <2>1 DEF FrameTypes
  <2>4. ASSUME NEW f \in Frames PROVE Moved(f)
    <3>1. ASSUME NEW x PROVE x \in Places(f)' <=> x \in Places(f)
      BY <1>2, <2>1, <2>2, PlacesAre, PlacesAreNext
    <3>2. Places(f)' = Places(f)
      BY <3>1
    <3> QED
      BY <2>1, <3>2 DEF Moved
  <2> QED
    BY <2>3, <2>4
<1>4. CASE WorkerZero
  <2>1. /\ UNCHANGED NewPagesEvent /\ worker.pc = "zero" /\ PmmReleaseMemory(worker.frame, 1)
        /\ worker' = [worker EXCEPT !.pc = "unmap"]
    BY <1>4 DEF WorkerZero
  <2>0. worker' \in [pc : WorkerPcs, frame : Frames \union {NoFrame}] /\ worker'.pc = "unmap"
    BY <2>1 DEF FrameTypes, WorkerPcs
  <2>2. worker.frame \in Frames /\ worker.frame \in Int
    BY <2>1 DEF FrameTypes, Frames
  <2>3. /\ AllocationBitmap' = [g \in Frames |-> IF g \in worker.frame .. worker.frame + 1 - 1 THEN FALSE
                                                 ELSE AllocationBitmap[g]]
    BY <2>1 DEF PmmReleaseMemory, BitmapSetBitsValue, FrameTypes
  <2>4. \A g \in Frames : g \in worker.frame .. worker.frame + 1 - 1 <=> g = worker.frame
    BY <2>2 DEF Frames
  <2>5. AllocationBitmap' \in [Frames -> BOOLEAN]
    BY <2>3 DEF FrameTypes
  <2>6. FrameTypes'
    BY <1>2, <2>0, <2>1, <2>5 DEF FrameTypes
  <2>7. ASSUME NEW f \in Frames, f = worker.frame PROVE Moved(f)
    <3>1. AllocationBitmap'[f] = FALSE
      BY <2>3, <2>4, <2>7
    <3>2. Places(f) = {<<"worker", 0>>}
      BY <2>1, <2>7, InPlace, OnlyPlace
    <3>3. ASSUME NEW x PROVE x \notin Places(f)'
      BY <1>2, <2>0, <3>2, InPlace, PlacesAreNext
    <3>4. Places(f)' = {}
      BY <3>3
    <3> QED
      BY <3>1, <3>4 DEF Moved
  <2>8. ASSUME NEW f \in Frames, f # worker.frame PROVE Moved(f)
    <3>1. AllocationBitmap'[f] = AllocationBitmap[f]
      BY <2>3, <2>4, <2>8
    <3>2. ASSUME NEW x PROVE x \in Places(f)' <=> x \in Places(f)
      BY <1>2, <2>0, <2>8, PlacesAre, PlacesAreNext
    <3>3. Places(f)' = Places(f)
      BY <3>2
    <3> QED
      BY <3>1, <3>3 DEF Moved
  <2> QED
    BY <2>6, <2>7, <2>8
<1> QED
  BY <1>3, <1>4

-----------------------------------------------------------------------------
(* The memory manager.                                                     *)

MemoryInv == SpaceInv /\ MappedInv /\ FrameTypes /\ OnePlace

\* Steps that map nothing and take no commit bit.
LEMMA MappedStays ==
    ASSUME MappedInv, UNCHANGED pte, CommitsStay, \A t \in Threads : op[t].pc = "unmap" => op'[t] = op[t]
    PROVE  MappedInv'
<1> SUFFICES ASSUME NEW p \in Pages, pte'[p] # NoFrame
             PROVE  \/ \E s \in Slots : Covers(s, p)'
                    \/ \E t \in Threads : op'[t].pc = "unmap" /\ p \in Span(op'[t].va, op'[t].n)
  BY DEF MappedInv
<1>1. \/ \E s \in Slots : Covers(s, p)
      \/ \E t \in Threads : op[t].pc = "unmap" /\ p \in Span(op[t].va, op[t].n)
  BY DEF MappedInv
<1> QED
  BY <1>1 DEF CommitsStay

\* A step that leaves the reservations alone takes no commit bit.
LEMMA CommitsUnchanged == ASSUME UNCHANGED ReservationList PROVE CommitsStay
BY DEF CommitsStay, Covers, Committed, Overrun, Used, First

\* Pages are mapped in a reservation around them, where they are committed.
LEMMA MappedInHome ==
    ASSUME MemoryAssumption, SpaceInv, MappedInv, NEW t \in Threads, op[t].pc \in Holding,
           UNCHANGED ReservationList, MapPages(op[t].va, op[t].n, op[t].frame),
           \A u \in Threads \ {t} : op'[u] = op[u]
    PROVE  MappedInv'
<1> SUFFICES ASSUME NEW p \in Pages, pte'[p] # NoFrame
             PROVE  \/ \E s \in Slots : Covers(s, p)'
                    \/ \E u \in Threads : op'[u].pc = "unmap" /\ p \in Span(op'[u].va, op'[u].n)
  BY DEF MappedInv
<1>1. CASE p \in Span(op[t].va, op[t].n)
  <2>1. PICK s \in Slots : Home(t, s)
    BY DEF SpaceInv, HomeInv, Overtaken, Holding
  <2>2. Used(s) /\ Committed(s, op[t].va, op[t].n) /\ CheckBounds(op[t].va, op[t].n, ReservationList[s])
    BY <2>1 DEF Home, Holding, AllocPcs, FaultPcs
  <2>3. op[t].va \in Nat /\ op[t].n \in Nat /\ First(s) \in Nat /\ Room(s) \in Nat /\ p \in Nat
    BY <2>2, OpClass DEF SpaceInv, ListInv, Holding, Positive, Pages, MemoryAssumption
  <2>4. CheckBounds(p, 1, ReservationList[s])
    BY <1>1, <2>2, <2>3 DEF CheckBounds, Span, First, Room
  <2>5. Committed(s, p, 1)
    <3>1. \A q \in Span(p, 1) : q = p
      BY <2>3 DEF Span
    <3> QED
      BY <1>1, <2>2, <3>1 DEF Committed, Overrun
  <2>6. Covers(s, p)'
    BY <2>2, <2>4, <2>5 DEF Covers, Committed, Overrun, Used, First
  <2> QED
    BY <2>6
<1>2. CASE p \notin Span(op[t].va, op[t].n)
  <2>1. pte[p] # NoFrame
    BY <1>2 DEF MapPages
  <2>2. \/ \E s \in Slots : Covers(s, p)
        \/ \E u \in Threads : op[u].pc = "unmap" /\ p \in Span(op[u].va, op[u].n)
    BY <2>1 DEF MappedInv
  <2>3. \A s \in Slots : Covers(s, p) => Covers(s, p)'
    BY DEF Covers, Committed, Overrun, Used, First
  <2>4. \A u \in Threads : op[u].pc = "unmap" => op'[u] = op[u]
    BY DEF Holding
  <2> QED
    BY <2>2, <2>3, <2>4
<1> QED
  BY <1>1, <1>2

\* The list of a new space has no used entry.
LEMMA EmptyListIs == EmptyList \in [Slots -> Reservations] /\ \A s \in Slots : EmptyList[s].State # "Used"
<1>1. ZeroedSlot \in Reservations /\ ZeroedSlot.State = "Free"
  <2>1. <<>> \in Bitmaps
    BY DEF Bitmaps
  <2>2. {} \in Rights \union {{}}
    OBVIOUS
  <2> QED
    BY <2>1, <2>2 DEF ZeroedSlot, Reservations
<1>2. [ZeroedSlot EXCEPT !.State = "Last"] \in Reservations /\ [ZeroedSlot EXCEPT !.State = "Last"].State = "Last"
  BY <1>1 DEF Reservations
<1> QED
  BY <1>1, <1>2 DEF EmptyList

\* An empty list of reservations, and nobody in a call.
LEMMA EmptySpace ==
    ASSUME MemoryAssumption, ReservationList = EmptyList, FreeBitmapAddress = 0, FreeVirtualAddressPointer = 1,
           op \in [Threads -> {Idle} \union AllocOps \union FreeOps \union FaultOps],
           \A t \in Threads : op[t].pc = "out"
    PROVE  SpaceInv
<1>1. OpInv
  BY DEF OpInv, AllocPcs
<1>2. ListInv
  <2>3. ReservationList \in [Slots -> Reservations] /\ \A s \in Slots : ~Used(s)
    BY EmptyListIs DEF Used
  <2>4. FreeVirtualAddressPointer \in Positive /\ FreeBitmapAddress \in Nat
    BY DEF Positive
  <2> QED
    BY <2>3, <2>4, Zenon DEF ListInv
<1>3. ClaimInv /\ ApartInv /\ HomeInv
  BY DEF ClaimInv, ApartInv, HomeInv
<1> QED
  BY <1>1, <1>2, <1>3 DEF SpaceInv

\* The machine starts with no reservation, no mapping and no frame in use.
LEMMA MemoryStarts == ASSUME PmmAssumption, MemoryAssumption, MemoryInit PROVE MemoryInv
<1>1. /\ op = [t \in Threads |-> Idle] /\ \A t \in Threads : op[t] = Idle /\ op[t].pc = "out"
      /\ pte = [p \in Pages |-> NoFrame] /\ tables = [p \in Processes |-> NoFrame]
      /\ PagesToZeroList = <<>> /\ NewPagesEvent = FALSE /\ worker = IdleWorker
      /\ images = [p \in Processes |-> {}]
      /\ AllocationBitmap = [f \in Frames |-> f \notin AvailableFrames]
      /\ FreeVirtualAddressPointer = 1 /\ FreeBitmapAddress = 0 /\ ReservationList = EmptyList
  BY DEF MemoryInit, PmmInitSystem, VmReservationSpaceInit, Idle
<1>2. SpaceInv
  <2>1. op \in [Threads -> {Idle} \union AllocOps \union FreeOps \union FaultOps]
    BY <1>1
  <2> QED
    BY <1>1, <2>1, EmptySpace
<1>5. MappedInv
  BY <1>1 DEF MappedInv
<1>6. IdleWorker \in [pc : WorkerPcs, frame : Frames \union {NoFrame}] /\ IdleWorker.pc = "wait"
  BY DEF IdleWorker, WorkerPcs
<1>7. FrameTypes
  <2>1. AllocationBitmap \in [Frames -> BOOLEAN]
    BY <1>1
  <2>2. PagesToZeroList \in Seq(Frames)
    BY <1>1
  <2> QED
    BY <1>1, <1>6, <2>1, <2>2 DEF FrameTypes, Holding
<1>8. ASSUME NEW f \in Frames PROVE Places(f) = {}
  <2>1. f # NoFrame
    BY DEF MemoryAssumption
  <2>2. \A i \in DOMAIN PagesToZeroList : FALSE
    BY <1>1
  <2>3. /\ \A p \in Pages : pte[p] # f
        /\ worker.pc # "zero" /\ \A p \in Processes : f \notin images[p]
        /\ \A t \in Threads : op[t].pc \notin Holding
        /\ \A p \in Processes : tables[p] = NoFrame
    BY <1>1, <1>6, <2>1 DEF Holding
  <2>4. ASSUME NEW x PROVE x \notin Places(f)
    BY <2>2, <2>3, PlacesAre
  <2> QED
    BY <2>4
<1> QED
  BY <1>2, <1>5, <1>7, <1>8 DEF MemoryInv, OnePlace

\* What a step keeps, and what it does with each frame.
Kept == SpaceInv' /\ MappedInv' /\ FrameTypes' /\ \A f \in Frames : Moved(f)

\* A thread calls the memory manager.
LEMMA CallsKeep ==
    ASSUME PmmAssumption, MemoryAssumption, MemoryInv, NEW t \in Threads, Calls(t) PROVE Kept
<1>1. SpaceInv'
  <2>1. ASSUME NEW type \in AllocTypes, NEW n \in 1 .. MaxSize, NEW r \in Rights, NEW e \in BOOLEAN,
               NEW f \in Files \union {NoFile}, f # NoFile => type = "both" /\ e,
               type = "stack" => n > GuardSize, type = "reserve" => ~e,
               AllocGenerated(t, type, n, r, e, f) \/ \E va \in Pages : AllocAt(t, type, va, n, r, e)
        PROVE  SpaceInv'
    BY <2>1, GeneratedPagesAreNew, PagesAskedForAreFree DEF MemoryInv
  <2>2. ASSUME NEW s \in Slots, NEW type \in {"release", "decommit"}, NEW va \in Pages,
               NEW n \in 1 .. MaxSize, NEW k \in {{}} \union {{p} : p \in Processes},
               FreeBegin(t, s, type, va, n, k)
        PROVE  SpaceInv'
    BY <2>2, PagesToFreeAreQuiet DEF MemoryInv
  <2>3. ASSUME NEW va \in Pages, NEW r \in Rights, FaultCheck(t, va, r) PROVE SpaceInv'
    BY <2>3, FaultsAreInReservations DEF MemoryInv
  <2> QED
    BY <2>1, <2>2, <2>3 DEF Calls
<1>2. /\ op[t].pc = "out"
      /\ UNCHANGED <<ReservationList, AllocationBitmap, pte, PagesToZeroList, NewPagesEvent, worker, tables, images>>
  BY DEF Calls, AllocGenerated, AllocAt, FreeBegin, FaultCheck, spaceVars, workerVars
<1>3. op'[t].pc \notin Holding /\ \A u \in Threads \ {t} : op'[u] = op[u]
  <2>1. t \in DOMAIN op /\ DOMAIN op = Threads
    BY DEF MemoryInv, SpaceInv, OpInv
  <2>2. ASSUME NEW type, NEW n, NEW r, NEW e, NEW f, AllocGenerated(t, type, n, r, e, f)
        PROVE  op'[t].pc \notin Holding /\ \A u \in Threads \ {t} : op'[u] = op[u]
    BY <2>1, <2>2 DEF AllocGenerated, Holding
  <2>3. ASSUME NEW type, NEW va, NEW n, NEW r, NEW e, AllocAt(t, type, va, n, r, e)
        PROVE  op'[t].pc \notin Holding /\ \A u \in Threads \ {t} : op'[u] = op[u]
    BY <2>1, <2>3 DEF AllocAt, Holding
  <2>4. ASSUME NEW s, NEW type, NEW va, NEW n, NEW k, FreeBegin(t, s, type, va, n, k)
        PROVE  op'[t].pc \notin Holding /\ \A u \in Threads \ {t} : op'[u] = op[u]
    BY <2>1, <2>4 DEF FreeBegin, Holding
  <2>5. ASSUME NEW va, NEW r, FaultCheck(t, va, r)
        PROVE  op'[t].pc \notin Holding /\ \A u \in Threads \ {t} : op'[u] = op[u]
    BY <2>1, <2>5 DEF FaultCheck, Holding
  <2> QED
    BY <2>2, <2>3, <2>4, <2>5 DEF Calls
<1>4. MappedInv'
  BY <1>2, <1>3, CommitsUnchanged, MappedStays DEF MemoryInv
<1>5. FrameTypes' /\ \A f \in Frames : Moved(f)
  BY <1>2, <1>3, FramesRest DEF MemoryInv, Holding
<1> QED
  BY <1>1, <1>4, <1>5 DEF Kept

\* What the record of a thread becomes when it ends its call or holds a frame.
LEMMA ReturnIs ==
    ASSUME OpInv, NEW t \in Threads, Return(t)
    PROVE  op'[t].pc = "out" /\ op'[t].pc \notin Holding /\ \A u \in Threads \ {t} : op'[u] = op[u]
BY DEF OpInv, Return, Idle, Holding

\* AllocReserve moves no frame, and takes no commit bit.
LEMMA AllocReserveKeeps ==
    ASSUME PmmAssumption, MemoryAssumption, MemoryInv, NEW t \in Threads, AllocReserve(t) PROVE Kept
<1>1. SpaceInv' /\ CommitsStay
  BY ReservingKeepsThePages DEF MemoryInv
<1>2. /\ op[t].pc = "reserve"
      /\ UNCHANGED <<AllocationBitmap, pte, PagesToZeroList, NewPagesEvent, worker, tables, images>>
      /\ Return(t) \/ op' = [op EXCEPT ![t] = CommitStack(op[t])] \/ Goto(t, "frames")
  BY DEF AllocReserve, workerVars
<1>3. op[t] \in AllocOps
  BY <1>2, OpClass DEF MemoryInv, SpaceInv, AllocPcs
<1>4. CommitStack(op[t]).pc = "reserve" /\ [op[t] EXCEPT !.pc = "frames"].pc = "frames"
  BY <1>2, <1>3 DEF CommitStack, AllocOps
<1>5. op'[t].pc \notin Holding /\ \A u \in Threads \ {t} : op'[u] = op[u]
  BY <1>2, <1>4, ReturnIs DEF MemoryInv, SpaceInv, OpInv, Goto, Holding
<1>6. MappedInv'
  BY <1>1, <1>2, <1>5, MappedStays DEF MemoryInv
<1>7. FrameTypes' /\ \A f \in Frames : Moved(f)
  BY <1>2, <1>5, FramesRest DEF MemoryInv, Holding
<1> QED
  BY <1>1, <1>6, <1>7 DEF Kept

\* AllocFrames: the thread has the frames, or its call is over.
LEMMA AllocFramesKeeps ==
    ASSUME PmmAssumption, MemoryAssumption, MemoryInv, NEW t \in Threads, AllocFrames(t) PROVE Kept
<1> DEFINE f == PmmReserved(op[t].n, 0)
           o == [op[t] EXCEPT !.pc = "map", !.frame = f]
<1>1. /\ op[t].pc = "frames" /\ PmmReserveMemory(op[t].n)
      /\ op' = [op EXCEPT ![t] = IF f = NoFrame THEN Idle ELSE o]
      /\ UNCHANGED <<ReservationList, FreeBitmapAddress, FreeVirtualAddressPointer, pte, PagesToZeroList, NewPagesEvent, worker,
                     tables, images>>
  BY DEF AllocFrames, spaceVars, workerVars
<1>2. op[t] \in AllocOps /\ op[t].n \in Positive
  BY <1>1, OpClass DEF MemoryInv, SpaceInv, AllocPcs
<1>3. f \in Frames \union {NoFrame}
  BY <1>2, ScanFindsFreeFrames DEF MemoryInv, FrameTypes
<1> HIDE DEF f
<1>4. /\ o \in AllocOps /\ o.pc = "map" /\ o.frame = f /\ o.va = op[t].va /\ o.n = op[t].n
      /\ o.file = op[t].file /\ o.type = op[t].type
  BY <1>2, <1>3 DEF AllocOps, AllocPcs
<1> HIDE DEF o
<1>5. CASE f = NoFrame
  <2>1. Return(t)
    BY <1>1, <1>5 DEF Return
  <2>2. SpaceInv'
    BY <1>1, <2>1, CallEnds DEF MemoryInv
  <2>3. op'[t].pc \notin Holding /\ \A u \in Threads \ {t} : op'[u] = op[u]
    BY <2>1, ReturnIs DEF MemoryInv, SpaceInv
  <2>4. MappedInv'
    BY <1>1, <2>3, CommitsUnchanged, MappedStays DEF MemoryInv
  <2>5. FrameTypes' /\ \A g \in Frames : Moved(g)
    BY <1>1, <1>2, <1>5, <2>3, ThreadTakesFrames DEF MemoryInv, Holding, f
  <2> QED
    BY <2>2, <2>4, <2>5 DEF Kept
<1>6. CASE f # NoFrame
  <2>1. op' = [op EXCEPT ![t] = o]
    BY <1>1, <1>6
  <2>2. /\ op' \in [Threads -> {Idle} \union AllocOps \union FreeOps \union FaultOps]
        /\ op'[t] = o /\ \A u \in Threads \ {t} : op'[u] = op[u]
    BY <1>4, <2>1, OpChanges DEF MemoryInv, SpaceInv
  <2>3. SpaceInv'
    BY <1>1, <1>4, <2>2, CallGoesOn DEF MemoryInv, AllocPcs
  <2>4. MappedInv'
    BY <1>1, <2>2, CommitsUnchanged, MappedStays DEF MemoryInv
  <2>5. op'[t].pc \in Holding /\ op'[t].n = op[t].n /\ op'[t].frame = PmmReserved(op[t].n, 0)
    BY <1>4, <2>2 DEF Holding, f
  <2>6. FrameTypes' /\ \A g \in Frames : Moved(g)
    BY <1>1, <1>2, <1>6, <2>2, <2>5, ThreadTakesFrames DEF MemoryInv, Holding, f
  <2> QED
    BY <2>3, <2>4, <2>6 DEF Kept
<1> QED
  BY <1>5, <1>6

\* The pages of a call are pages.
LEMMA SpansArePages ==
    ASSUME MemoryAssumption, SpaceInv, NEW t \in Threads, op[t].pc # "out"
    PROVE  op[t].va \in Positive /\ op[t].n \in Positive /\ Span(op[t].va, op[t].n) \subseteq Pages
<1>1. op[t].va \in Positive /\ op[t].n \in Positive
  BY OpClass DEF SpaceInv
<1>2. op[t].va + op[t].n <= NPages + 1 /\ NPages \in Nat
  BY DEF SpaceInv, OpInv, Passed, MemoryAssumption
<1> QED
  BY <1>1, <1>2 DEF Span, Pages, Positive

\* AllocMap maps the frames in the reservation of the call.
LEMMA AllocMapKeeps ==
    ASSUME PmmAssumption, MemoryAssumption, MemoryInv, NEW t \in Threads, AllocMap(t) PROVE Kept
<1>1. /\ op[t].pc = "map" /\ MapPages(op[t].va, op[t].n, op[t].frame)
      /\ UNCHANGED <<AllocationBitmap, ReservationList, FreeBitmapAddress, FreeVirtualAddressPointer, PagesToZeroList, NewPagesEvent,
                     worker, tables, images>>
      /\ IF op[t].file = NoFile THEN Return(t) ELSE Goto(t, "read")
  BY DEF AllocMap, spaceVars, workerVars
<1> DEFINE o == [op[t] EXCEPT !.pc = "read"]
<1>2. op[t] \in AllocOps
  BY <1>1, OpClass DEF MemoryInv, SpaceInv, AllocPcs
<1>3. /\ o \in AllocOps /\ o.pc = "read" /\ o.va = op[t].va /\ o.n = op[t].n
      /\ o.file = op[t].file /\ o.type = op[t].type
  BY <1>2 DEF AllocOps, AllocPcs
<1>4. Goto(t, "read") => op' = [op EXCEPT ![t] = o]
  BY DEF Goto, MemoryInv, SpaceInv, OpInv
<1> HIDE DEF o
<1>5. op' = [op EXCEPT ![t] = o] => /\ op' \in [Threads -> {Idle} \union AllocOps \union FreeOps \union FaultOps]
                                    /\ op'[t] = o /\ \A u \in Threads \ {t} : op'[u] = op[u]
  BY <1>3, OpChanges DEF MemoryInv, SpaceInv
<1>6. SpaceInv'
  <2>1. CASE op[t].file = NoFile
    BY <1>1, <2>1, CallEnds DEF MemoryInv
  <2>2. CASE op[t].file # NoFile
    BY <1>1, <1>3, <1>4, <1>5, <2>2, CallGoesOn DEF MemoryInv, AllocPcs
  <2> QED
    BY <2>1, <2>2
<1>7. op'[t].pc \notin Holding /\ \A u \in Threads \ {t} : op'[u] = op[u]
  <2>1. CASE Return(t)
    BY <2>1, ReturnIs DEF MemoryInv, SpaceInv
  <2>2. CASE Goto(t, "read")
    BY <1>3, <1>4, <1>5, <2>2 DEF Holding
  <2> QED
    BY <1>1, <2>1, <2>2
<1>8. op[t].pc \in Holding /\ op[t].pc # "out"
  BY <1>1 DEF Holding
<1>9. op[t].va \in Positive /\ op[t].n \in Positive /\ Span(op[t].va, op[t].n) \subseteq Pages
  BY <1>8, SpansArePages DEF MemoryInv
<1>10. MappedInv'
  BY <1>1, <1>7, <1>8, MappedInHome DEF MemoryInv
<1>11. FrameTypes' /\ \A f \in Frames : Moved(f)
  BY <1>1, <1>7, <1>8, <1>9, ThreadMapsFrames DEF MemoryInv
<1> QED
  BY <1>6, <1>10, <1>11 DEF Kept

\* AllocRead ends the call, or goes on to release its reservation.
LEMMA AllocReadKeeps ==
    ASSUME PmmAssumption, MemoryAssumption, MemoryInv, NEW t \in Threads, NEW ok \in BOOLEAN, AllocRead(t, ok)
    PROVE  Kept
<1> DEFINE o == [pc |-> "free", va |-> op[t].va, n |-> op[t].n, type |-> "release", keep |-> {}]
<1>1. /\ op[t].pc = "read" /\ (Return(t) \/ op' = [op EXCEPT ![t] = o])
      /\ UNCHANGED <<AllocationBitmap, ReservationList, FreeBitmapAddress, FreeVirtualAddressPointer, pte, PagesToZeroList,
                     NewPagesEvent, worker, tables, images>>
  BY DEF AllocRead, spaceVars, workerVars
<1>2. op[t].va \in Positive /\ op[t].n \in Positive
  BY <1>1, OpClass DEF MemoryInv, SpaceInv
<1>3. o \in FreeOps /\ o.pc = "free" /\ o.va = op[t].va /\ o.n = op[t].n
  BY <1>2 DEF FreeOps
<1> HIDE DEF o
<1>4. op' = [op EXCEPT ![t] = o] => /\ op' \in [Threads -> {Idle} \union AllocOps \union FreeOps \union FaultOps]
                                    /\ op'[t] = o /\ \A u \in Threads \ {t} : op'[u] = op[u]
  BY <1>3, OpChanges DEF MemoryInv, SpaceInv
<1>5. SpaceInv'
  <2>1. CASE Return(t)
    BY <1>1, <2>1, CallEnds DEF MemoryInv
  <2>2. CASE op' = [op EXCEPT ![t] = o]
    BY <1>1, <1>3, <1>4, <2>2, CallGoesOn DEF MemoryInv
  <2> QED
    BY <1>1, <2>1, <2>2
<1>6. op'[t].pc \notin Holding /\ \A u \in Threads \ {t} : op'[u] = op[u]
  BY <1>1, <1>3, <1>4, ReturnIs DEF MemoryInv, SpaceInv, Holding
<1>7. MappedInv'
  BY <1>1, <1>6, CommitsUnchanged, MappedStays DEF MemoryInv
<1>8. FrameTypes' /\ \A f \in Frames : Moved(f)
  BY <1>1, <1>6, FramesRest DEF MemoryInv, Holding
<1> QED
  BY <1>5, <1>7, <1>8 DEF Kept

\* FreeReservation: the pages it uncovers are the ones it will unmap.
LEMMA FreeReservationKeeps ==
    ASSUME PmmAssumption, MemoryAssumption, MemoryInv, NEW t \in Threads, FreeReservation(t) PROVE Kept
<1>1. /\ SpaceInv' /\ op'[t].pc = "unmap" /\ op'[t].va = op[t].va /\ op'[t].n = op[t].n
      /\ \A u \in Threads \ {t} : op'[u] = op[u]
      /\ \A s \in Slots, p \in Pages : Covers(s, p) => Covers(s, p)' \/ p \in Span(op[t].va, op[t].n)
  BY FreeingKeepsOtherPages DEF MemoryInv
<1>2. /\ op[t].pc = "free"
      /\ UNCHANGED <<AllocationBitmap, pte, PagesToZeroList, NewPagesEvent, worker, tables, images>>
  BY DEF FreeReservation, workerVars
<1>3. MappedInv'
  <2> SUFFICES ASSUME NEW p \in Pages, pte'[p] # NoFrame
               PROVE  \/ \E s \in Slots : Covers(s, p)'
                      \/ \E u \in Threads : op'[u].pc = "unmap" /\ p \in Span(op'[u].va, op'[u].n)
    BY DEF MappedInv
  <2>1. \/ \E s \in Slots : Covers(s, p)
        \/ \E u \in Threads : op[u].pc = "unmap" /\ p \in Span(op[u].va, op[u].n)
    BY <1>2 DEF MemoryInv, MappedInv
  <2> QED
    BY <1>1, <1>2, <2>1
<1>4. FrameTypes' /\ \A f \in Frames : Moved(f)
  BY <1>1, <1>2, FramesRest DEF MemoryInv, Holding
<1> QED
  BY <1>1, <1>3, <1>4 DEF Kept

\* FreeUnmap: no page of the call is mapped any more.
LEMMA FreeUnmapKeeps ==
    ASSUME PmmAssumption, MemoryAssumption, MemoryInv, NEW t \in Threads, FreeUnmap(t) PROVE Kept
<1>1. /\ op[t].pc = "unmap" /\ Return(t) /\ UnmapPages(op[t].va, op[t].n)
      /\ UNCHANGED <<ReservationList, FreeBitmapAddress, FreeVirtualAddressPointer>>
  BY DEF FreeUnmap, spaceVars
<1>2. SpaceInv'
  BY <1>1, CallEnds DEF MemoryInv
<1>3. \A u \in Threads \ {t} : op'[u] = op[u]
  BY <1>1, ReturnIs DEF MemoryInv, SpaceInv
<1>4. MappedInv'
  <2> SUFFICES ASSUME NEW p \in Pages, pte'[p] # NoFrame
               PROVE  \/ \E s \in Slots : Covers(s, p)'
                      \/ \E u \in Threads : op'[u].pc = "unmap" /\ p \in Span(op'[u].va, op'[u].n)
    BY DEF MappedInv
  <2>1. p \notin Span(op[t].va, op[t].n) /\ pte[p] # NoFrame
    BY <1>1 DEF UnmapPages
  <2>2. \/ \E s \in Slots : Covers(s, p)
        \/ \E u \in Threads : op[u].pc = "unmap" /\ p \in Span(op[u].va, op[u].n)
    BY <2>1 DEF MemoryInv, MappedInv
  <2>3. CommitsStay
    BY <1>1, CommitsUnchanged
  <2> QED
    BY <1>3, <2>1, <2>2, <2>3 DEF CommitsStay
<1>5. FrameTypes' /\ \A f \in Frames : Moved(f)
  BY UnmappedFramesAreQueued DEF MemoryInv
<1> QED
  BY <1>2, <1>4, <1>5 DEF Kept

\* FaultFrame: the thread has the frame, or the system halts.
LEMMA FaultFrameKeeps ==
    ASSUME PmmAssumption, MemoryAssumption, MemoryInv, NEW t \in Threads, FaultFrame(t) PROVE Kept
<1> DEFINE f == PmmReserved(1, 0)
           o == [op[t] EXCEPT !.pc = "faultMap", !.frame = f]
<1>1. /\ op[t].pc = "faultFrame" /\ PmmReserveMemory(1)
      /\ (f = NoFrame /\ UNCHANGED op) \/ (f # NoFrame /\ op' = [op EXCEPT ![t] = o])
      /\ UNCHANGED <<ReservationList, FreeBitmapAddress, FreeVirtualAddressPointer, pte, PagesToZeroList, NewPagesEvent, worker,
                     tables, images>>
  BY DEF FaultFrame, spaceVars, workerVars
<1>2. op[t] \in FaultOps /\ op[t].n = 1 /\ 1 \in Positive
  BY <1>1, OpClass DEF MemoryInv, SpaceInv, FaultPcs, FaultOps, Positive
<1>3. f \in Frames \union {NoFrame}
  BY <1>2, ScanFindsFreeFrames DEF MemoryInv, FrameTypes
<1> HIDE DEF f
<1>4. o \in FaultOps /\ o.pc = "faultMap" /\ o.frame = f /\ o.va = op[t].va /\ o.n = op[t].n
  BY <1>2, <1>3 DEF FaultOps, FaultPcs
<1> HIDE DEF o
<1>5. CASE f = NoFrame
  <2>1. UNCHANGED op
    BY <1>1, <1>5
  <2>2. SpaceInv'
    BY <1>1, <2>1, NothingMoves DEF MemoryInv
  <2>3. MappedInv'
    BY <1>1, <2>1, CommitsUnchanged, MappedStays DEF MemoryInv
  <2>4. FrameTypes' /\ \A g \in Frames : Moved(g)
    BY <1>1, <1>2, <1>5, <2>1, ThreadTakesFrames DEF MemoryInv, Holding, f
  <2> QED
    BY <2>2, <2>3, <2>4 DEF Kept
<1>6. CASE f # NoFrame
  <2>1. op' = [op EXCEPT ![t] = o]
    BY <1>1, <1>6
  <2>2. /\ op' \in [Threads -> {Idle} \union AllocOps \union FreeOps \union FaultOps]
        /\ op'[t] = o /\ \A u \in Threads \ {t} : op'[u] = op[u]
    BY <1>4, <2>1, OpChanges DEF MemoryInv, SpaceInv
  <2>3. SpaceInv'
    BY <1>1, <1>4, <2>2, CallGoesOn DEF MemoryInv, FaultPcs
  <2>4. MappedInv'
    BY <1>1, <2>2, CommitsUnchanged, MappedStays DEF MemoryInv
  <2>5. op'[t].pc \in Holding /\ op'[t].n = op[t].n /\ op'[t].frame = PmmReserved(op[t].n, 0)
    BY <1>2, <1>4, <2>2 DEF Holding, f
  <2>6. FrameTypes' /\ \A g \in Frames : Moved(g)
    BY <1>1, <1>2, <1>6, <2>2, <2>5, ThreadTakesFrames DEF MemoryInv, Holding, f
  <2> QED
    BY <2>3, <2>4, <2>6 DEF Kept
<1> QED
  BY <1>5, <1>6

\* FaultMap maps the frame in the reservation the fault was in.
LEMMA FaultMapKeeps ==
    ASSUME PmmAssumption, MemoryAssumption, MemoryInv, NEW t \in Threads, FaultMap(t) PROVE Kept
<1>1. /\ op[t].pc = "faultMap" /\ MapPages(op[t].va, 1, op[t].frame) /\ Return(t)
      /\ UNCHANGED <<AllocationBitmap, ReservationList, FreeBitmapAddress, FreeVirtualAddressPointer, PagesToZeroList, NewPagesEvent,
                     worker, tables, images>>
  BY DEF FaultMap, spaceVars, workerVars
<1>2. op[t].n = 1
  BY <1>1, OpClass DEF MemoryInv, SpaceInv, FaultPcs, FaultOps
<1>3. SpaceInv'
  BY <1>1, CallEnds DEF MemoryInv
<1>4. op'[t].pc \notin Holding /\ \A u \in Threads \ {t} : op'[u] = op[u]
  BY <1>1, ReturnIs DEF MemoryInv, SpaceInv
<1>5. op[t].pc \in Holding /\ op[t].pc # "out"
  BY <1>1 DEF Holding
<1>6. op[t].va \in Positive /\ op[t].n \in Positive /\ Span(op[t].va, op[t].n) \subseteq Pages
  BY <1>5, SpansArePages DEF MemoryInv
<1>7. MappedInv'
  BY <1>1, <1>2, <1>4, <1>5, MappedInHome DEF MemoryInv
<1>8. FrameTypes' /\ \A f \in Frames : Moved(f)
  BY <1>1, <1>2, <1>4, <1>5, <1>6, ThreadMapsFrames DEF MemoryInv
<1> QED
  BY <1>3, <1>7, <1>8 DEF Kept

\* The processes' paging structures, the zero worker and a failed assert.
LEMMA OthersKeep ==
    ASSUME PmmAssumption, MemoryAssumption, MemoryInv,
           \/ \E p \in Processes : CreatePagingTables(p) \/ DestroyPagingTables(p)
           \/ CreateVirtualAddressSpace
           \/ Worker
           \/ \E t \in Threads : NoRoomToReserve(t)
           \/ UNCHANGED vars
    PROVE  Kept
<1>1. UNCHANGED <<op, ReservationList, FreeBitmapAddress, FreeVirtualAddressPointer, pte>>
  BY DEF CreatePagingTables, DestroyPagingTables, CreateVirtualAddressSpace, Worker, WorkerTake, WorkerClear,
         WorkerZero, WorkerUnmap,
         NoRoomToReserve, vars, spaceVars
<1>2. SpaceInv'
  BY <1>1, NothingMoves DEF MemoryInv
<1>3. MappedInv'
  BY <1>1, CommitsUnchanged, MappedStays DEF MemoryInv
<1>4. FrameTypes' /\ \A f \in Frames : Moved(f)
  <2>1. ASSUME NEW p \in Processes, CreatePagingTables(p) PROVE FrameTypes' /\ \A f \in Frames : Moved(f)
    BY <2>1, ProcessTakesFrames DEF MemoryInv
  <2>2. ASSUME NEW p \in Processes, DestroyPagingTables(p) PROVE FrameTypes' /\ \A f \in Frames : Moved(f)
    BY <2>2, TablesAreQueued DEF MemoryInv
  <2>3. CASE Worker
    BY <2>3, WorkerTakesOneFrame, WorkerFreesItsFrame DEF MemoryInv, Worker
  <2>4. CASE UNCHANGED vars \/ CreateVirtualAddressSpace \/ \E t \in Threads : NoRoomToReserve(t)
    <3>1. UNCHANGED <<AllocationBitmap, pte, PagesToZeroList, NewPagesEvent, worker, tables, images, op>>
      BY <2>4 DEF NoRoomToReserve, CreateVirtualAddressSpace, vars, workerVars
    <3> QED
      BY <3>1, FramesRest DEF MemoryInv
  <2> QED
    BY <2>1, <2>2, <2>3, <2>4
<1> QED
  BY <1>2, <1>3, <1>4 DEF Kept

\* DestroyVirtualAddressSpace: nothing is reserved or mapped any more, and the
\* frames that were mapped are in no place.
LEMMA SpaceIsAbandoned ==
    ASSUME PmmAssumption, MemoryAssumption, MemoryInv, DestroyVirtualAddressSpace PROVE Kept
<1>1. /\ space = "process" /\ space' = "gone" /\ \A t \in Threads : op[t].pc = "out"
      /\ pte' = [p \in Pages |-> NoFrame] /\ \A p \in Pages : pte'[p] = NoFrame
      /\ ReservationList' = EmptyList /\ FreeBitmapAddress' = 0 /\ FreeVirtualAddressPointer' = 1
      /\ UNCHANGED <<AllocationBitmap, PagesToZeroList, NewPagesEvent, worker, op, tables, images>>
  BY DEF DestroyVirtualAddressSpace, workerVars
<1>2. SpaceInv'
  <2>1. op \in [Threads -> {Idle} \union AllocOps \union FreeOps \union FaultOps]
    BY DEF MemoryInv, SpaceInv, OpInv
  <2>2. OpInv'
    BY <1>1, <2>1 DEF OpInv, AllocPcs
  <2>3. ListInv'
    <3>1. EmptyList \in [Slots -> Reservations] /\ \A s \in Slots : EmptyList[s].State # "Used"
      BY EmptyListIs
    <3>2. ReservationList' \in [Slots -> Reservations] /\ \A s \in Slots : ~Used(s)'
      BY <1>1, <3>1 DEF Used
    <3>3. FreeVirtualAddressPointer' \in Positive /\ FreeBitmapAddress' \in Nat
      BY <1>1 DEF Positive
    <3> QED
      BY <3>2, <3>3, Zenon DEF ListInv
  <2>4. ClaimInv' /\ ApartInv' /\ HomeInv'
    BY <1>1 DEF ClaimInv, ApartInv, HomeInv
  <2> QED
    BY <2>2, <2>3, <2>4 DEF SpaceInv
<1>3. MappedInv'
  BY <1>1 DEF MappedInv
<1>4. FrameTypes'
  BY <1>1 DEF MemoryInv, FrameTypes
<1>5. ASSUME NEW f \in Frames PROVE Moved(f)
  <2>1. \A p \in Pages : pte'[p] # f
    BY <1>1 DEF MemoryAssumption
  <2>2. CASE \E p \in Pages : pte[p] = f
    <3>1. f \in Abandoned
      BY <1>1, <2>2 DEF Abandoned
    <3>2. ASSUME NEW x \in Places(f)' PROVE x \in Places(f)
      BY <1>1, <2>1, PlacesAre, PlacesAreNext
    <3> QED
      BY <1>1, <3>1, <3>2 DEF Moved
  <2>3. CASE ~\E p \in Pages : pte[p] = f
    <3>1. ASSUME NEW x PROVE x \in Places(f)' <=> x \in Places(f)
      BY <1>1, <2>1, <2>3, PlacesAre, PlacesAreNext
    <3>2. Places(f)' = Places(f)
      BY <3>1
    <3> QED
      BY <1>1, <3>2 DEF Moved
  <2> QED
    BY <2>2, <2>3
<1> QED
  BY <1>2, <1>3, <1>4, <1>5 DEF Kept

\* Every step keeps the invariant, and loses frames only by remapping and with
\* the address space of a process.
LEMMA MemorySteps ==
    ASSUME PmmAssumption, MemoryAssumption, MemoryInv, [Next]_vars
    PROVE  MemoryInv' /\ Lost' \subseteq Lost \union Remapped \union Abandoned
<1>1. Kept
  <2>1. ASSUME NEW t \in Threads, ThreadSteps(t) PROVE Kept
    BY <2>1, AllocReserveKeeps, AllocFramesKeeps, AllocMapKeeps, AllocReadKeeps, FreeReservationKeeps,
       FreeUnmapKeeps, FaultFrameKeeps, FaultMapKeeps, OthersKeep DEF ThreadSteps
  <2> QED
    BY <2>1, CallsKeep, SpaceIsAbandoned, OthersKeep DEF Next
<1> QED
  BY <1>1, FramesThatMove DEF MemoryInv, Kept

\* The inductive invariant: reservations, page tables and frames, in every
\* interleaving of the critical sections of vmm.c, mmu.c and pmm.c.
THEOREM MemoryInvariant == Spec => []MemoryInv
<1>1. MemoryInit => MemoryInv
  BY MemoryStarts, PmmAssumption, MemoryAssumption
<1>2. MemoryInv /\ [Next]_vars => MemoryInv'
  BY MemorySteps, PmmAssumption, MemoryAssumption
<1> QED
  BY <1>1, <1>2, PTL DEF Spec

\* Reservations never share a page and _VmFindReservation can meet them all,
\* however the list of vm_reservation_space.c is filled, freed and reused.
THEOREM ReservationsStayApart == Spec => []ReservationsAreFoundAndDisjoint
<1>1. ASSUME MemoryInv PROVE ReservationsAreFoundAndDisjoint
  <2> SUFFICES ASSUME NEW s \in Slots, Used(s)
               PROVE  /\ s \in BeforeLast
                      /\ \A p \in Span(First(s), Room(s)) :
                             \A i \in Slots \ {s} : Used(i) => ~CheckBounds(p, 1, ReservationList[i])
    BY DEF ReservationsAreFoundAndDisjoint, Used, First, Room
  <2>1. s \in BeforeLast
    BY <1>1, MemoryAssumption DEF MemoryInv, SpaceInv, ListInv, BeforeLast, Slots, MemoryAssumption
  <2>2. ASSUME NEW p \in Span(First(s), Room(s)), NEW i \in Slots \ {s}, Used(i),
               CheckBounds(p, 1, ReservationList[i])
        PROVE  FALSE
    <3>1. First(s) \in Nat /\ Room(s) \in Nat /\ First(i) \in Nat /\ Room(i) \in Nat
      BY <1>1, <2>2 DEF MemoryInv, SpaceInv, ListInv, Positive
    <3>2. Meet(First(s), Room(s), First(i), Room(i))
      BY <2>2, <3>1 DEF Meet, Span, CheckBounds, First, Room
    <3> QED
      BY <1>1, <2>2, <3>2 DEF MemoryInv, SpaceInv, ListInv
  <2> QED
    BY <2>1, <2>2
<1> QED
  BY <1>1, MemoryInvariant, PTL

\* VmmAllocRegionEx, VmmFreeRegionEx and VmmSolvePageFault map a page only while
\* it is committed, although no lock covers the reservation and the mapping.
THEOREM MappedStaysCommitted == Spec => []MappedPagesAreCommitted
<1>1. ASSUME MemoryInv PROVE MappedPagesAreCommitted
  <2> SUFFICES ASSUME NEW p \in Pages, pte[p] # NoFrame
               PROVE  \/ \E s \in BeforeLast : /\ Used(s) /\ CheckBounds(p, 1, ReservationList[s])
                                               /\ IsVaCommited(ReservationList[s], p)
                      \/ \E t \in Threads : op[t].pc = "unmap" /\ p \in Span(op[t].va, op[t].n)
                      \/ Overrun
    BY DEF MappedPagesAreCommitted, Used
  <2>1. ASSUME NEW s \in Slots, Covers(s, p), ~Overrun
        PROVE  s \in BeforeLast /\ IsVaCommited(ReservationList[s], p)
    <3>1. s \in BeforeLast
      BY <1>1, <2>1, MemoryAssumption
         DEF Covers, MemoryInv, SpaceInv, ListInv, BeforeLast, Slots, MemoryAssumption
    <3>2. p \in Span(p, 1)
      BY MemoryAssumption DEF Span, Pages, MemoryAssumption
    <3> QED
      BY <2>1, <3>1, <3>2 DEF Covers, Committed, IsVaCommited, First
  <2> QED
    BY <1>1, <2>1 DEF MemoryInv, MappedInv, Covers
<1> QED
  BY <1>1, MemoryInvariant, PTL

\* No frame is mapped twice, handed out while it is in use, or released twice.
THEOREM FramesStayInOnePlace == Spec => []FramesHaveOnePlace
<1>1. ASSUME MemoryInv PROVE FramesHaveOnePlace
  <2> SUFFICES ASSUME NEW f \in AvailableFrames
               PROVE  Cardinality(Places(f)) <= (IF AllocationBitmap[f] THEN 1 ELSE 0)
    BY DEF FramesHaveOnePlace
  <2>1. f \in Frames
    BY MemoryAssumption DEF MemoryAssumption
  <2>2. CASE Places(f) = {}
    <3>1. Cardinality(Places(f)) = 0
      BY <2>2, FS_EmptySet
    <3> QED
      BY <3>1
  <2>3. CASE Places(f) # {}
    <3>1. AllocationBitmap[f] /\ \E x : Places(f) = {x}
      BY <1>1, <2>1, <2>3 DEF MemoryInv, OnePlace
    <3>2. Cardinality(Places(f)) = 1
      BY <3>1, FS_Singleton
    <3> QED
      BY <3>1, <3>2
  <2> QED
    BY <2>2, <2>3
<1> QED
  BY <1>1, MemoryInvariant, PTL

\* Failed allocations, frees and the worker return every frame; VmmDestroyVirtualAddressSpace
\* and a mapping over a mapping are all that loses one.
THEOREM FramesAreNotLost == Spec => FramesAreLostOnlyByRemappingOrTeardown
<1>1. MemoryInv /\ [Next]_vars =>
          [\A f \in Lost' : f \in Lost \/ f \in Remapped \/ f \in Abandoned]_vars
  BY MemorySteps, PmmAssumption, MemoryAssumption
<1> QED
  BY <1>1, MemoryInvariant, PTL DEF Spec, FramesAreLostOnlyByRemappingOrTeardown

-----------------------------------------------------------------------------
(* The heap.                                                               *)

HeapEntries == [at : Nat, size : Nat]

\* HeapEntries are listed by address and none reaches into a later one.
Sorted(s) ==
    /\ \A i \in 1 .. Len(s) : s[i].at >= HeaderSize
    /\ \A i, j \in 1 .. Len(s) : i < j => s[j].at >= H!End(s[i])

\* f says what the first entries of a list take, for each number of them.
Adds(s, f) ==
    /\ f \in [0 .. Len(s) -> Int] /\ f[0] = 0
    /\ \A k \in 1 .. Len(s) : f[k] = f[k - 1] + H!Required(s[k].size)

HeapInv ==
    /\ HeapAllocations \in Seq(HeapEntries)
    /\ Sorted(HeapAllocations)
    /\ FreeAddress = IF Len(HeapAllocations) = 0 THEN HeaderSize ELSE H!End(HeapAllocations[Len(HeapAllocations)])
    /\ FreeAddress <= HeapSizeMaximum
    /\ HeapSizeRemaining \in Int
    /\ \E f : Adds(HeapAllocations, f) /\ HeapSizeMaximum - HeaderSize - HeapSizeRemaining = f[Len(HeapAllocations)]

LEMMA HeapNumbers ==
    /\ HeaderSize \in Nat /\ HeaderSize > 0 /\ EntrySize \in Nat /\ EntrySize > 0
    /\ TailSize \in Nat /\ TailSize > 0 /\ HeapSizeMaximum \in Nat /\ HeaderSize < HeapSizeMaximum
    /\ AllocationSizes \subseteq Nat /\ \A a \in Alignments : a \in Nat \ {0}
BY HeapConstants DEF H!HeapAssumption

LEMMA EntryNumbers ==
    ASSUME NEW e \in HeapEntries
    PROVE  /\ e.at \in Nat /\ e.size \in Nat /\ H!Required(e.size) \in Nat /\ H!Required(e.size) > 0
           /\ H!End(e) \in Nat /\ H!End(e) > e.at /\ H!End(e) = e.at + H!Required(e.size)
BY HeapNumbers DEF HeapEntries, H!Required, H!End

\* Aligning rounds up.
LEMMA AlignmentRoundsUp ==
    ASSUME NEW x \in Nat, NEW a \in Nat \ {0}
    PROVE  ((x + a - 1) \div a) * a \in Nat /\ ((x + a - 1) \div a) * a >= x
<1>1. PICK y \in Nat : y = x + a - 1
  OBVIOUS
<1>2. y % a \in 0 .. a - 1 /\ y \div a \in Int /\ y = a * (y \div a) + (y % a)
  OBVIOUS
<1>3. PICK q \in Int, r \in 0 .. a - 1 : q = y \div a /\ y = a * q + r
  BY <1>2
<1>4. a * q = q * a /\ q * a \in Int
  OBVIOUS
<1>5. PICK z \in Int : z = q * a
  BY <1>4
<1>6. y = z + r
  BY <1>3, <1>4, <1>5
<1>7. z >= x
  BY <1>1, <1>6
<1> QED
  BY <1>1, <1>3, <1>5, <1>7

\* _InitHeapEntry: a new entry begins at or behind the start of the room that
\* was found and ends within it.
LEMMA NewEntryFits ==
    ASSUME NEW start \in Nat, NEW size \in Nat, NEW alignment \in Nat \ {0}, NEW available \in Int,
           H!Fits(start, size, alignment, available)
    PROVE  /\ H!NewEntry(start, size, alignment) \in HeapEntries
           /\ H!NewEntry(start, size, alignment).at >= start
           /\ H!NewEntry(start, size, alignment).size = size
           /\ H!End(H!NewEntry(start, size, alignment)) <= start + available
<1>1. PICK d \in Nat : d = H!DataAddress(start, alignment) /\ d >= start + EntrySize
  <2>1. PICK x \in Nat : x = start + EntrySize
    BY HeapNumbers
  <2>2. ((x + alignment - 1) \div alignment) * alignment \in Nat /\ ((x + alignment - 1) \div alignment) * alignment >= x
    BY AlignmentRoundsUp
  <2> QED
    BY <2>1, <2>2 DEF H!DataAddress
<1>2. H!NewEntry(start, size, alignment) = [at |-> d - EntrySize, size |-> size]
  BY <1>1 DEF H!NewEntry
<1>3. available >= d - (start + EntrySize) + H!Required(size)
  BY <1>1 DEF H!Fits
<1>4. d - EntrySize \in Nat /\ H!Required(size) \in Nat
  BY <1>1, HeapNumbers DEF H!Required
<1>5. d - EntrySize + H!Required(size) <= start + available
  BY <1>1, <1>3, <1>4, HeapNumbers
<1> QED
  BY <1>1, <1>2, <1>4, <1>5, HeapNumbers DEF HeapEntries, H!End

\* Two functions that add up the same list agree: there is no first difference.
LEMMA AddsOnce ==
    ASSUME NEW s \in Seq(HeapEntries), NEW f, NEW g, Adds(s, f), Adds(s, g) PROVE f[Len(s)] = g[Len(s)]
<1> DEFINE D == {k \in 0 .. Len(s) : f[k] # g[k]}
<1> SUFFICES ASSUME D # {} PROVE FALSE
  OBVIOUS
<1>1. D \subseteq Nat
  OBVIOUS
<1>2. PICK k \in D : \A y \in D : k <= y
  BY <1>1, LeastNatural
<1>3. k \in 1 .. Len(s) /\ k - 1 \in 0 .. Len(s)
  BY <1>2 DEF Adds
<1>4. f[k - 1] = g[k - 1]
  BY <1>2, <1>3
<1> QED
  BY <1>2, <1>3, <1>4 DEF Adds

\* What the heap's own sum says.
LEMMA OccupiedAdds ==
    ASSUME HeapAllocations \in Seq(HeapEntries), NEW f, Adds(HeapAllocations, f)
    PROVE  H!Occupied[Len(HeapAllocations)] = f[Len(HeapAllocations)]
<1> DEFINE n == Len(HeapAllocations)
           R(g) == [k \in 0 .. n |-> IF k = 0 THEN 0 ELSE g[k - 1] + H!Required(HeapAllocations[k].size)]
<1>1. n \in Nat
  OBVIOUS
<1>2. f = R(f)
  BY <1>1 DEF Adds
<1>3. H!Occupied = CHOOSE g : g = R(g)
  BY DEF H!Occupied
<1> HIDE DEF R
<1>4. H!Occupied = R(H!Occupied)
  BY <1>2, <1>3
<1>5. PICK g : g = H!Occupied /\ g = R(g)
  BY <1>4
<1>6. Adds(HeapAllocations, g)
  <2>1. /\ DOMAIN g = 0 .. n /\ g[0] = 0
        /\ \A k \in 1 .. n : k \in 0 .. n /\ k - 1 \in 0 .. n /\ g[k] = g[k - 1] + H!Required(HeapAllocations[k].size)
    BY <1>1, <1>5 DEF R
  <2>2. \A k \in 1 .. n : H!Required(HeapAllocations[k].size) \in Nat
    BY EntryNumbers
  <2> DEFINE D == {k \in 0 .. n : g[k] \notin Int}
  <2>3. D = {}
    <3> SUFFICES ASSUME D # {} PROVE FALSE
      OBVIOUS
    <3>1. D \subseteq Nat
      BY <1>1
    <3>2. PICK k \in D : \A y \in D : k <= y
      BY <3>1, LeastNatural
    <3>3. k \in 1 .. n /\ k - 1 \in 0 .. n
      BY <1>1, <2>1, <3>2
    <3>4. g[k - 1] \in Int
      BY <3>2, <3>3
    <3> QED
      BY <2>1, <2>2, <3>2, <3>3, <3>4
  <2>4. \A k \in 0 .. n : g[k] \in Int
    BY <2>3
  <2>5. g = [k \in 0 .. n |-> g[k]]
    BY <1>5 DEF R
  <2> QED
    BY <2>1, <2>4, <2>5 DEF Adds
<1> QED
  BY <1>5, <1>6, AddsOnce

\* A list with e inserted behind its first p entries.
Inserted(s, p, e, t) ==
    /\ t \in Seq(HeapEntries) /\ Len(t) = Len(s) + 1 /\ t[p + 1] = e
    /\ \A i \in 1 .. p : t[i] = s[i]
    /\ \A i \in p + 2 .. Len(s) + 1 : t[i] = s[i - 1]

LEMMA AppendInserts ==
    ASSUME NEW s \in Seq(HeapEntries), NEW e \in HeapEntries PROVE Inserted(s, Len(s), e, Append(s, e))
BY DEF Inserted

\* The entries from m to n of a list, and two lists one behind the other.
LEMMA Piece ==
    ASSUME NEW s \in Seq(HeapEntries), NEW m \in 1 .. Len(s) + 1, NEW n \in 0 .. Len(s), m <= n + 1
    PROVE  /\ SubSeq(s, m, n) \in Seq(HeapEntries) /\ Len(SubSeq(s, m, n)) = n - m + 1
           /\ \A k \in 1 .. n - m + 1 : SubSeq(s, m, n)[k] = s[m + k - 1]
<1>1. m \in Int /\ n \in Int /\ \A i \in m .. n : s[i] \in HeapEntries
  OBVIOUS
<1>2. /\ SubSeq(s, m, n) \in Seq(HeapEntries) /\ Len(SubSeq(s, m, n)) = IF m <= n THEN n - m + 1 ELSE 0
      /\ \A k \in 1 .. n - m + 1 : SubSeq(s, m, n)[k] = s[m + k - 1]
  BY <1>1, SubSeqProperties
<1>3. (IF m <= n THEN n - m + 1 ELSE 0) = n - m + 1
  OBVIOUS
<1> QED
  BY <1>2, <1>3

LEMMA FirstPart ==
    ASSUME NEW s \in Seq(HeapEntries), NEW p \in 0 .. Len(s)
    PROVE  /\ SubSeq(s, 1, p) \in Seq(HeapEntries) /\ Len(SubSeq(s, 1, p)) = p
           /\ \A i \in 1 .. p : SubSeq(s, 1, p)[i] = s[i]
<1>1. 1 \in 1 .. Len(s) + 1 /\ 1 <= p + 1
  OBVIOUS
<1>2. /\ SubSeq(s, 1, p) \in Seq(HeapEntries) /\ Len(SubSeq(s, 1, p)) = p - 1 + 1
      /\ \A i \in 1 .. p - 1 + 1 : SubSeq(s, 1, p)[i] = s[1 + i - 1]
  BY <1>1, Piece
<1>3. p - 1 + 1 = p /\ \A i \in 1 .. p : 1 + i - 1 = i
  OBVIOUS
<1>4. ASSUME NEW i \in 1 .. p PROVE SubSeq(s, 1, p)[i] = s[i]
  BY <1>2, <1>3
<1> QED
  BY <1>2, <1>3, <1>4

LEMMA LastPart ==
    ASSUME NEW s \in Seq(HeapEntries), NEW p \in 0 .. Len(s)
    PROVE  /\ SubSeq(s, p + 1, Len(s)) \in Seq(HeapEntries) /\ Len(SubSeq(s, p + 1, Len(s))) = Len(s) - p
           /\ \A i \in 1 .. Len(s) - p : SubSeq(s, p + 1, Len(s))[i] = s[p + i]
<1>0. PICK l \in Nat : l = Len(s) /\ p <= l
  OBVIOUS
<1>1. PICK m \in 1 .. Len(s) + 1 : m = p + 1
  BY <1>0
<1>2. l \in 0 .. Len(s) /\ m <= l + 1
  BY <1>0, <1>1
<1>3. /\ SubSeq(s, m, l) \in Seq(HeapEntries) /\ Len(SubSeq(s, m, l)) = l - m + 1
      /\ \A k \in 1 .. l - m + 1 : SubSeq(s, m, l)[k] = s[m + k - 1]
  BY <1>2, Piece
<1>4. l - m + 1 = l - p /\ \A k \in 1 .. l - p : m + k - 1 = p + k
  BY <1>0, <1>1
<1>5. ASSUME NEW i \in 1 .. l - p PROVE SubSeq(s, m, l)[i] = s[p + i]
  BY <1>3, <1>4
<1>6. Len(SubSeq(s, m, l)) = l - p
  BY <1>3, <1>4
<1> QED
  BY <1>0, <1>1, <1>3, <1>5, <1>6, Zenon

LEMMA Joined ==
    ASSUME NEW a \in Seq(HeapEntries), NEW b \in Seq(HeapEntries)
    PROVE  /\ a \o b \in Seq(HeapEntries) /\ Len(a \o b) = Len(a) + Len(b)
           /\ \A i \in 1 .. Len(a) : (a \o b)[i] = a[i]
           /\ \A i \in Len(a) + 1 .. Len(a) + Len(b) : (a \o b)[i] = b[i - Len(a)]
<1>1. /\ a \o b \in Seq(HeapEntries) /\ Len(a \o b) = Len(a) + Len(b)
      /\ \A i \in 1 .. Len(a) + Len(b) : (a \o b)[i] = IF i <= Len(a) THEN a[i] ELSE b[i - Len(a)]
  BY ConcatProperties
<1>2. Len(a) \in Nat /\ Len(b) \in Nat
  OBVIOUS
<1> QED
  BY <1>1, <1>2

LEMMA InsertAtInserts ==
    ASSUME NEW s \in Seq(HeapEntries), NEW e \in HeapEntries, NEW p \in 0 .. Len(s)
    PROVE  Inserted(s, p, e, H!InsertAt(s, p + 1, e))
<1>0. PICK l \in Nat : l = Len(s) /\ p <= l
  OBVIOUS
<1>1. PICK a : /\ a = SubSeq(s, 1, p) /\ a \in Seq(HeapEntries)
               /\ Len(a) = p /\ \A i \in 1 .. p : a[i] = s[i]
  BY FirstPart, Zenon
<1>2. PICK b : /\ b = SubSeq(s, p + 1, Len(s)) /\ b \in Seq(HeapEntries)
               /\ Len(b) = Len(s) - p /\ \A i \in 1 .. Len(s) - p : b[i] = s[p + i]
  BY LastPart, Zenon
<1>3. PICK c \in Seq(HeapEntries) : c = a \o <<e>> /\ Len(c) = p + 1 /\ c[p + 1] = e /\ \A i \in 1 .. p : c[i] = s[i]
  <2>0. <<e>> \in Seq(HeapEntries) /\ Len(<<e>>) = 1 /\ <<e>>[1] = e
    OBVIOUS
  <2>1. PICK d : d = <<e>> /\ d \in Seq(HeapEntries) /\ Len(d) = 1 /\ d[1] = e
    BY <2>0, Zenon
  <2>2. /\ a \o d \in Seq(HeapEntries) /\ Len(a \o d) = p + 1
        /\ \A i \in 1 .. p : (a \o d)[i] = a[i]
        /\ \A i \in p + 1 .. p + 1 : (a \o d)[i] = d[i - p]
    BY <1>1, <2>1, Joined
  <2>3. (a \o d)[p + 1] = d[1]
    BY <2>2
  <2> QED
    BY <1>1, <2>1, <2>2, <2>3
<1>4. H!InsertAt(s, p + 1, e) = c \o b
  <2>1. (p + 1) - 1 = p
    OBVIOUS
  <2> QED
    BY <1>0, <1>1, <1>2, <1>3, <2>1 DEF H!InsertAt
<1>5. /\ c \o b \in Seq(HeapEntries) /\ Len(c \o b) = (p + 1) + (l - p)
      /\ \A i \in 1 .. p + 1 : (c \o b)[i] = c[i]
      /\ \A i \in (p + 1) + 1 .. (p + 1) + (l - p) : (c \o b)[i] = b[i - (p + 1)]
  <2>1. Len(b) = l - p
    BY <1>0, <1>2
  <2> QED
    <3>1. /\ c \o b \in Seq(HeapEntries) /\ Len(c \o b) = Len(c) + Len(b)
          /\ \A j \in 1 .. Len(c) : (c \o b)[j] = c[j]
          /\ \A j \in Len(c) + 1 .. Len(c) + Len(b) : (c \o b)[j] = b[j - Len(c)]
      BY <1>2, <1>3, Joined
    <3>2. Len(c) = p + 1 /\ Len(b) = l - p
      BY <1>2, <1>3, <2>1
    <3> QED
      BY <3>1, <3>2
<1>6. ASSUME NEW i \in p + 2 .. l + 1 PROVE (c \o b)[i] = s[i - 1]
  <2>1. PICK k \in 1 .. l - p : k = i - (p + 1) /\ p + k = i - 1
    BY <1>0
  <2>2. (c \o b)[i] = b[k]
    BY <1>0, <1>5, <2>1
  <2>3. b[k] = s[p + k]
    BY <1>0, <1>2
  <2> QED
    BY <2>1, <2>2, <2>3
<1>7. (p + 1) + (l - p) = l + 1 /\ p + 1 \in 1 .. p + 1 /\ \A i \in 1 .. p : i \in 1 .. p + 1
  BY <1>0
<1> QED
  BY <1>0, <1>3, <1>4, <1>5, <1>6, <1>7 DEF Inserted

\* A list without its i-th entry.
Removed(s, i, t) ==
    /\ t \in Seq(HeapEntries) /\ Len(t) = Len(s) - 1
    /\ \A k \in 1 .. i - 1 : t[k] = s[k]
    /\ \A k \in i .. Len(s) - 1 : t[k] = s[k + 1]

LEMMA RemoveAtRemoves ==
    ASSUME NEW s \in Seq(HeapEntries), NEW i \in 1 .. Len(s) PROVE Removed(s, i, H!RemoveAt(s, i))
<1>0. PICK l \in Nat : l = Len(s) /\ i <= l
  OBVIOUS
<1>1. PICK a : /\ a = SubSeq(s, 1, i - 1) /\ a \in Seq(HeapEntries)
               /\ Len(a) = i - 1 /\ \A k \in 1 .. i - 1 : a[k] = s[k]
  <2>1. i - 1 \in 0 .. Len(s)
    BY <1>0
  <2> QED
    BY <2>1, FirstPart, Zenon
<1>2. PICK b : /\ b = SubSeq(s, i + 1, Len(s)) /\ b \in Seq(HeapEntries)
               /\ Len(b) = Len(s) - i /\ \A k \in 1 .. Len(s) - i : b[k] = s[i + k]
  <2>1. i \in 0 .. Len(s)
    BY <1>0
  <2> QED
    BY <2>1, LastPart, Zenon
<1>3. H!RemoveAt(s, i) = a \o b
  BY <1>1, <1>2 DEF H!RemoveAt
<1>4. /\ a \o b \in Seq(HeapEntries) /\ Len(a \o b) = (i - 1) + (l - i)
      /\ \A k \in 1 .. i - 1 : (a \o b)[k] = a[k]
      /\ \A k \in (i - 1) + 1 .. (i - 1) + (l - i) : (a \o b)[k] = b[k - (i - 1)]
  <2>1. Len(b) = l - i
    BY <1>0, <1>2
  <2> QED
    <3>1. /\ a \o b \in Seq(HeapEntries) /\ Len(a \o b) = Len(a) + Len(b)
          /\ \A j \in 1 .. Len(a) : (a \o b)[j] = a[j]
          /\ \A j \in Len(a) + 1 .. Len(a) + Len(b) : (a \o b)[j] = b[j - Len(a)]
      BY <1>1, <1>2, Joined
    <3>2. Len(a) = i - 1 /\ Len(b) = l - i
      BY <1>1, <1>2, <2>1
    <3> QED
      BY <3>1, <3>2
<1>5. ASSUME NEW k \in i .. l - 1 PROVE (a \o b)[k] = s[k + 1]
  <2>1. PICK j \in 1 .. l - i : j = k - (i - 1) /\ i + j = k + 1
    BY <1>0
  <2>2. k \in (i - 1) + 1 .. (i - 1) + (l - i)
    BY <1>0
  <2>3. (a \o b)[k] = b[j]
    BY <1>4, <2>1, <2>2
  <2>4. b[j] = s[i + j]
    BY <1>0, <1>2
  <2> QED
    BY <2>1, <2>3, <2>4
<1>6. (i - 1) + (l - i) = l - 1
  BY <1>0
<1> QED
  BY <1>0, <1>1, <1>3, <1>4, <1>5, <1>6 DEF Removed

\* An entry that goes between its neighbours keeps the list sorted.
LEMMA InsertedSorted ==
    ASSUME NEW s \in Seq(HeapEntries), NEW e \in HeapEntries, NEW p \in 0 .. Len(s), NEW t, Inserted(s, p, e, t),
           Sorted(s), e.at >= HeaderSize, p >= 1 => e.at >= H!End(s[p]),
           p < Len(s) => s[p + 1].at >= H!End(e)
    PROVE  Sorted(t)
<1>0. PICK l \in Nat : l = Len(s) /\ p <= l
  OBVIOUS
<1>1. /\ Len(t) = l + 1 /\ t[p + 1] = e /\ \A i \in 1 .. p : t[i] = s[i]
      /\ \A i \in p + 2 .. l + 1 : t[i] = s[i - 1]
  BY <1>0 DEF Inserted
<1>2. ASSUME NEW i \in 1 .. l
      PROVE  /\ s[i] \in HeapEntries /\ s[i].at \in Nat /\ H!End(s[i]) \in Nat /\ H!End(s[i]) > s[i].at
             /\ s[i].at >= HeaderSize
  <2>1. s[i] \in HeapEntries /\ s[i].at >= HeaderSize
    BY <1>0 DEF Sorted
  <2> QED
    BY <2>1, EntryNumbers
<1>3. \A i, j \in 1 .. l : i < j => s[j].at >= H!End(s[i])
  BY <1>0 DEF Sorted
<1>4. e.at \in Nat /\ H!End(e) \in Nat /\ H!End(e) > e.at
  BY EntryNumbers
<1>5. ASSUME NEW i \in 1 .. l + 1 PROVE t[i].at >= HeaderSize
  <2>1. CASE i \in 1 .. p
    BY <1>0, <1>1, <1>2, <2>1
  <2>2. CASE i = p + 1
    BY <1>1, <2>2
  <2>3. CASE i \in p + 2 .. l + 1
    <3>1. i - 1 \in 1 .. l /\ t[i] = s[i - 1]
      BY <1>0, <1>1, <2>3
    <3> QED
      BY <1>2, <3>1
  <2> QED
    BY <1>0, <2>1, <2>2, <2>3
<1>6. ASSUME NEW i \in 1 .. l PROVE (i <= p => e.at >= H!End(s[i])) /\ (i > p => s[i].at >= H!End(e))
  <2>1. ASSUME i <= p PROVE e.at >= H!End(s[i])
    <3>1. CASE i = p
      BY <3>1
    <3>2. CASE i < p
      <4>1. p \in 1 .. l /\ s[p].at >= H!End(s[i])
        BY <1>0, <1>3, <3>2
      <4>2. e.at >= H!End(s[p]) /\ H!End(s[p]) > s[p].at /\ s[p].at \in Nat /\ H!End(s[p]) \in Nat /\ H!End(s[i]) \in Nat
        BY <1>2, <2>1, <4>1
      <4> QED
        BY <1>4, <4>1, <4>2
    <3> QED
      BY <2>1, <3>1, <3>2
  <2>2. ASSUME i > p PROVE s[i].at >= H!End(e)
    <3>1. CASE i = p + 1
      BY <1>0, <3>1
    <3>2. CASE i > p + 1
      <4>1. p + 1 \in 1 .. l /\ s[i].at >= H!End(s[p + 1])
        BY <1>0, <1>3, <3>2
      <4>2. /\ s[p + 1].at >= H!End(e) /\ H!End(s[p + 1]) > s[p + 1].at /\ s[p + 1].at \in Nat
            /\ H!End(s[p + 1]) \in Nat /\ s[i].at \in Nat
        BY <1>0, <1>2, <4>1
      <4> QED
        BY <1>4, <4>1, <4>2
    <3> QED
      BY <2>2, <3>1, <3>2
  <2> QED
    BY <2>1, <2>2
<1>7. ASSUME NEW i \in 1 .. l + 1, NEW j \in 1 .. l + 1, i < j PROVE t[j].at >= H!End(t[i])
  <2>1. CASE j \in 1 .. p
    <3>1. i \in 1 .. l /\ j \in 1 .. l /\ t[i] = s[i] /\ t[j] = s[j]
      BY <1>0, <1>1, <1>7, <2>1
    <3> QED
      BY <1>3, <1>7, <3>1
  <2>2. CASE j = p + 1
    <3>1. i \in 1 .. l /\ i <= p /\ t[i] = s[i] /\ t[j] = e
      BY <1>0, <1>1, <1>7, <2>2
    <3> QED
      BY <1>6, <3>1
  <2>3. CASE j \in p + 2 .. l + 1 /\ i = p + 1
    <3>1. j - 1 \in 1 .. l /\ j - 1 > p /\ t[j] = s[j - 1] /\ t[i] = e
      BY <1>0, <1>1, <2>3
    <3> QED
      BY <1>6, <3>1
  <2>4. CASE j \in p + 2 .. l + 1 /\ i \in 1 .. p
    <3>1. j - 1 \in 1 .. l /\ t[j] = s[j - 1] /\ t[i] = s[i] /\ i \in 1 .. l /\ i < j - 1
      BY <1>0, <1>1, <2>4
    <3> QED
      BY <1>3, <3>1
  <2>5. CASE j \in p + 2 .. l + 1 /\ i \in p + 2 .. l + 1
    <3>1. j - 1 \in 1 .. l /\ t[j] = s[j - 1] /\ t[i] = s[i - 1] /\ i - 1 \in 1 .. l /\ i - 1 < j - 1
      BY <1>0, <1>1, <1>7, <2>5
    <3> QED
      BY <1>3, <3>1
  <2> QED
    BY <1>0, <1>7, <2>1, <2>2, <2>3, <2>4, <2>5
<1> QED
  BY <1>1, <1>5, <1>7 DEF Sorted

\* It adds what it takes to the sum.
LEMMA InsertedAdds ==
    ASSUME NEW s \in Seq(HeapEntries), NEW e \in HeapEntries, NEW p \in 0 .. Len(s), NEW t, Inserted(s, p, e, t),
           NEW f, Adds(s, f)
    PROVE  \E g : Adds(t, g) /\ g[Len(t)] = f[Len(s)] + H!Required(e.size)
<1>0. PICK l \in Nat : l = Len(s) /\ p <= l
  OBVIOUS
<1>1. /\ Len(t) = l + 1 /\ t[p + 1] = e /\ \A i \in 1 .. p : t[i] = s[i]
      /\ \A i \in p + 2 .. l + 1 : t[i] = s[i - 1]
  BY <1>0 DEF Inserted
<1>2. PICK r \in Nat : r = H!Required(e.size)
  BY EntryNumbers
<1>3. f \in [0 .. l -> Int] /\ f[0] = 0 /\ \A k \in 1 .. l : f[k] = f[k - 1] + H!Required(s[k].size)
  BY <1>0 DEF Adds
<1>4. PICK g : g = [k \in 0 .. l + 1 |-> IF k <= p THEN f[k] ELSE f[k - 1] + r]
  OBVIOUS
<1>5. g \in [0 .. l + 1 -> Int] /\ g[0] = 0 /\ g[l + 1] = f[l] + r
  <2>1. ASSUME NEW k \in 0 .. l + 1 PROVE (IF k <= p THEN f[k] ELSE f[k - 1] + r) \in Int
    <3>1. CASE k <= p
      BY <1>0, <1>3, <3>1
    <3>2. CASE k > p
      <4>1. k - 1 \in 0 .. l
        BY <1>0, <3>2
      <4> QED
        BY <1>3, <3>2, <4>1
    <3> QED
      BY <1>0, <3>1, <3>2
  <2>2. g[0] = 0
    BY <1>0, <1>3, <1>4
  <2>3. g[l + 1] = f[l] + r
    BY <1>0, <1>4
  <2> QED
    BY <1>4, <2>1, <2>2, <2>3
<1>6. ASSUME NEW k \in 1 .. l + 1 PROVE g[k] = g[k - 1] + H!Required(t[k].size)
  <2>1. CASE k \in 1 .. p
    <3>1. g[k] = f[k] /\ g[k - 1] = f[k - 1] /\ t[k] = s[k] /\ k \in 1 .. l
      BY <1>0, <1>1, <1>4, <2>1
    <3> QED
      BY <1>3, <3>1
  <2>2. CASE k = p + 1
    <3>1. g[k] = f[p] + r /\ g[k - 1] = f[p] /\ t[k] = e
      BY <1>0, <1>1, <1>4, <2>2
    <3> QED
      BY <1>2, <3>1
  <2>3. CASE k \in p + 2 .. l + 1
    <3>1. PICK m \in 1 .. l : m = k - 1 /\ m > p
      BY <1>0, <2>3
    <3>2. g[k] = f[m] + r /\ g[k - 1] = f[m - 1] + r /\ t[k] = s[m]
      BY <1>0, <1>1, <1>4, <2>3, <3>1
    <3>3. PICK x \in Int, y \in Int : x = f[m] /\ y = f[m - 1]
      <4>1. m \in 0 .. l /\ m - 1 \in 0 .. l
        BY <3>1
      <4> QED
        BY <1>3, <4>1
    <3>4. PICK z \in Nat : z = H!Required(s[m].size)
      <4>1. s[m] \in HeapEntries
        BY <1>0
      <4> QED
        BY <4>1, EntryNumbers
    <3>5. x = y + z
      BY <1>3, <3>3, <3>4
    <3> QED
      BY <3>2, <3>3, <3>4, <3>5
  <2> QED
    BY <1>0, <2>1, <2>2, <2>3
<1> QED
  BY <1>0, <1>1, <1>2, <1>5, <1>6 DEF Adds

\* Without one of its entries a list stays sorted.
LEMMA RemovedSorted ==
    ASSUME NEW s \in Seq(HeapEntries), NEW n \in 1 .. Len(s), NEW t, Removed(s, n, t), Sorted(s) PROVE Sorted(t)
<1>0. PICK l \in Nat : l = Len(s) /\ n <= l
  OBVIOUS
<1>1. Len(t) = l - 1 /\ (\A k \in 1 .. n - 1 : t[k] = s[k]) /\ \A k \in n .. l - 1 : t[k] = s[k + 1]
  BY <1>0 DEF Removed
<1>2. ASSUME NEW k \in 1 .. l - 1
      PROVE  (k < n => t[k] = s[k]) /\ (k >= n => t[k] = s[k + 1]) /\ k \in 1 .. l /\ k + 1 \in 1 .. l
  BY <1>0, <1>1
<1>3. /\ \A i \in 1 .. l : s[i].at >= HeaderSize
      /\ \A i, j \in 1 .. l : i < j => s[j].at >= H!End(s[i])
  BY <1>0 DEF Sorted
<1>4. ASSUME NEW i \in 1 .. l - 1 PROVE t[i].at >= HeaderSize
  BY <1>0, <1>2, <1>3
<1>5. ASSUME NEW i \in 1 .. l - 1, NEW j \in 1 .. l - 1, i < j PROVE t[j].at >= H!End(t[i])
  <2>1. PICK a \in 1 .. l, b \in 1 .. l : t[i] = s[a] /\ t[j] = s[b] /\ a < b
    <3>1. CASE j < n
      <4>1. t[i] = s[i] /\ t[j] = s[j] /\ i \in 1 .. l /\ j \in 1 .. l
        BY <1>0, <1>2, <1>5, <3>1
      <4> QED
        BY <1>5, <4>1
    <3>2. CASE i < n /\ j >= n
      <4>1. t[i] = s[i] /\ t[j] = s[j + 1] /\ i \in 1 .. l /\ j + 1 \in 1 .. l /\ i < j + 1
        BY <1>2, <1>5, <3>2
      <4> QED
        BY <4>1
    <3>3. CASE i >= n
      <4>1. t[i] = s[i + 1] /\ t[j] = s[j + 1] /\ i + 1 \in 1 .. l /\ j + 1 \in 1 .. l /\ i + 1 < j + 1
        BY <1>0, <1>2, <1>5, <3>3
      <4> QED
        BY <4>1
    <3> QED
      BY <1>0, <3>1, <3>2, <3>3
  <2> QED
    BY <1>3, <2>1
<1> QED
  BY <1>1, <1>4, <1>5 DEF Sorted

LEMMA RemovedAdds ==
    ASSUME NEW s \in Seq(HeapEntries), NEW n \in 1 .. Len(s), NEW t, Removed(s, n, t), NEW f, Adds(s, f)
    PROVE  \E g : Adds(t, g) /\ g[Len(t)] = f[Len(s)] - H!Required(s[n].size)
<1>0. PICK l \in Nat : l = Len(s) /\ n <= l
  OBVIOUS
<1>1. Len(t) = l - 1 /\ (\A k \in 1 .. n - 1 : t[k] = s[k]) /\ \A k \in n .. l - 1 : t[k] = s[k + 1]
  BY <1>0 DEF Removed
<1>2. PICK r \in Nat : r = H!Required(s[n].size)
  <2>1. s[n] \in HeapEntries
    OBVIOUS
  <2> QED
    BY <2>1, EntryNumbers
<1>3. f \in [0 .. l -> Int] /\ f[0] = 0 /\ \A k \in 1 .. l : f[k] = f[k - 1] + H!Required(s[k].size)
  BY <1>0 DEF Adds
<1>4. PICK g : g = [k \in 0 .. l - 1 |-> IF k < n THEN f[k] ELSE f[k + 1] - r]
  OBVIOUS
<1>5. f[n] = f[n - 1] + r /\ f[n] \in Int /\ f[n - 1] \in Int
  <2>1. n \in 1 .. l /\ n \in 0 .. l /\ n - 1 \in 0 .. l
    BY <1>0
  <2> QED
    BY <1>2, <1>3, <2>1
<1>6. g \in [0 .. l - 1 -> Int] /\ g[0] = 0
  <2>1. ASSUME NEW k \in 0 .. l - 1 PROVE (IF k < n THEN f[k] ELSE f[k + 1] - r) \in Int
    <3>1. k \in 0 .. l /\ k + 1 \in 0 .. l
      BY <1>0
    <3>2. f[k] \in Int /\ f[k + 1] \in Int
      BY <1>3, <3>1
    <3> QED
      BY <3>2
  <2>2. g[0] = 0
    BY <1>0, <1>3, <1>4
  <2> QED
    BY <1>4, <2>1, <2>2
<1>7. g[l - 1] = f[l] - r
  <2>1. l - 1 \in 0 .. l - 1
    BY <1>0
  <2>2. CASE l = n
    BY <1>4, <1>5, <2>1, <2>2
  <2>3. CASE l # n
    <3>1. ~(l - 1 < n) /\ (l - 1) + 1 = l
      BY <1>0, <2>3
    <3> QED
      BY <1>4, <2>1, <3>1
  <2> QED
    BY <2>2, <2>3
<1>8. ASSUME NEW k \in 1 .. l - 1 PROVE g[k] = g[k - 1] + H!Required(t[k].size)
  <2>0. k \in 0 .. l - 1 /\ k - 1 \in 0 .. l - 1 /\ k \in 1 .. l /\ k + 1 \in 1 .. l /\ (k + 1) - 1 = k /\ (k - 1) + 1 = k
    BY <1>0
  <2>1. CASE k < n
    <3>1. g[k] = f[k] /\ g[k - 1] = f[k - 1] /\ t[k] = s[k]
      BY <1>0, <1>1, <1>4, <2>0, <2>1
    <3> QED
      BY <1>3, <2>0, <3>1
  <2>2. CASE k >= n
    <3>1. g[k] = f[k + 1] - r /\ t[k] = s[k + 1] /\ f[k + 1] = f[k] + H!Required(s[k + 1].size)
      BY <1>0, <1>1, <1>3, <1>4, <2>0, <2>2
    <3>2. g[k - 1] = f[k] - r
      <4>1. CASE k = n
        BY <1>4, <1>5, <2>0, <4>1
      <4>2. CASE k > n
        <5>1. ~(k - 1 < n)
          BY <4>2
        <5> QED
          BY <1>4, <2>0, <5>1
      <4> QED
        BY <2>2, <4>1, <4>2
    <3>3. PICK x \in Int, y \in Int : x = f[k + 1] /\ y = f[k]
      <4>1. k \in 0 .. l /\ k + 1 \in 0 .. l
        BY <2>0
      <4> QED
        BY <1>3, <4>1
    <3>4. PICK z \in Nat : z = H!Required(s[k + 1].size)
      <4>1. s[k + 1] \in HeapEntries
        BY <1>0, <2>0
      <4> QED
        BY <4>1, EntryNumbers
    <3>5. x = y + z
      BY <3>1, <3>3, <3>4
    <3> QED
      BY <3>1, <3>2, <3>3, <3>4, <3>5
  <2> QED
    BY <1>0, <2>1, <2>2
<1> QED
  BY <1>0, <1>1, <1>2, <1>6, <1>7, <1>8 DEF Adds

\* The search.  Numbers below twice n are once round at most.
LEMMA OnceRound ==
    ASSUME NEW n \in Nat \ {0}, NEW x \in Nat, x < n + n
    PROVE  x % n = IF x < n THEN x ELSE x - n
<1>1. x % n \in 0 .. n - 1 /\ x \div n \in Int /\ x = n * (x \div n) + (x % n)
  OBVIOUS
<1>2. PICK q \in Int, r \in 0 .. n - 1 : q = x \div n /\ r = x % n /\ x = n * q + r
  BY <1>1
<1>3. q < 0 => n * q <= -n
  BY <1>2
<1>4. q > 1 => n * q >= n + n
  BY <1>2
<1>5. q = 0 \/ q = 1
  BY <1>2, <1>3, <1>4
<1>6. q = 0 => n * q = 0
  OBVIOUS
<1>7. q = 1 => n * q = n
  OBVIOUS
<1> QED
  BY <1>2, <1>5, <1>6, <1>7

\* A set of numbers up to k has a greatest element.
LEMMA GreatestNatural ==
    ASSUME NEW k \in Nat, NEW S, S \subseteq 0 .. k, S # {} PROVE H!Max(S) \in S /\ \A y \in S : H!Max(S) >= y
<1> DEFINE T == {k - j : j \in S}
<1>0. PICK w \in S : w \in 0 .. k
  OBVIOUS
<1>1. T \subseteq Nat /\ T # {}
  <2>1. k - w \in T
    BY <1>0
  <2>2. ASSUME NEW t \in T PROVE t \in Nat
    <3>1. PICK j \in S : t = k - j
      BY <2>2
    <3>2. j \in 0 .. k
      OBVIOUS
    <3> QED
      BY <3>1, <3>2
  <2> QED
    BY <2>1, <2>2
<1>2. PICK m \in T : \A y \in T : m <= y
  BY <1>1, LeastNatural
<1>3. PICK x \in S : m = k - x
  BY <1>2
<1>4. ASSUME NEW y \in S PROVE x >= y
  <2>1. k - y \in T /\ x \in 0 .. k /\ y \in 0 .. k
    OBVIOUS
  <2>2. k - x <= k - y
    BY <1>2, <1>3, <2>1
  <2> QED
    BY <2>1, <2>2
<1> QED
  BY <1>4 DEF H!Max

LEMMA LeastInHeap ==
    ASSUME NEW S, S \subseteq Nat, S # {} PROVE H!Min(S) \in S
<1>1. H!Min(S) = Min(S)
  BY DEF H!Min, Min
<1> QED
  BY <1>1, LeastNatural

\* Entries have addresses of their own.
LEMMA EntriesApart ==
    ASSUME HeapInv, NEW i \in 1 .. Len(HeapAllocations), NEW j \in 1 .. Len(HeapAllocations)
    PROVE  /\ HeapAllocations[i] \in HeapEntries /\ HeapAllocations[i].at \in Nat /\ HeapAllocations[i].at # 0
           /\ i < j => HeapAllocations[i].at < HeapAllocations[j].at
           /\ HeapAllocations[i].at = HeapAllocations[j].at => i = j
<1>1. HeapAllocations \in Seq(HeapEntries) /\ Sorted(HeapAllocations)
  BY DEF HeapInv
<1>2. \A k \in 1 .. Len(HeapAllocations) : HeapAllocations[k] \in HeapEntries
  BY <1>1
<1>3. PICK a \in HeapEntries, b \in HeapEntries : a = HeapAllocations[i] /\ b = HeapAllocations[j]
  BY <1>2
<1>4. a.at >= HeaderSize /\ (i < j => b.at >= H!End(a)) /\ (j < i => a.at >= H!End(b))
  BY <1>1, <1>3 DEF Sorted
<1>5. a.at \in Nat /\ b.at \in Nat /\ H!End(a) \in Nat /\ H!End(b) \in Nat /\ H!End(a) > a.at /\ H!End(b) > b.at
  BY EntryNumbers
<1> QED
  BY <1>3, <1>4, <1>5, HeapNumbers

LEMMA EntryIsFound ==
    ASSUME HeapInv, NEW q \in 1 .. Len(HeapAllocations)
    PROVE  H!EntryAt(HeapAllocations[q].at) = HeapAllocations[q]
<1>1. HeapAllocations \in Seq(HeapEntries) /\ DOMAIN HeapAllocations = 1 .. Len(HeapAllocations)
  BY DEF HeapInv
<1>2. H!ToSet(HeapAllocations) = {HeapAllocations[i] : i \in 1 .. Len(HeapAllocations)}
  BY <1>1 DEF H!ToSet
<1>3. ASSUME NEW e \in H!ToSet(HeapAllocations), e.at = HeapAllocations[q].at PROVE e = HeapAllocations[q]
  <2>1. PICK i \in 1 .. Len(HeapAllocations) : e = HeapAllocations[i]
    BY <1>2
  <2>2. i = q
    BY <1>3, <2>1, EntriesApart
  <2> QED
    BY <2>1, <2>2
<1>4. HeapAllocations[q] \in H!ToSet(HeapAllocations)
  BY <1>2
<1> QED
  BY <1>3, <1>4 DEF H!EntryAt

\* The list with its head.
LEMMA RingOfList ==
    ASSUME HeapInv
    PROVE  /\ Len(H!Ring) = Len(HeapAllocations) + 1 /\ DOMAIN H!Ring = 1 .. Len(HeapAllocations) + 1
           /\ H!Ring[1] = 0
           /\ \A i \in 1 .. Len(HeapAllocations) : H!Ring[i + 1] = HeapAllocations[i].at
<1>1. HeapAllocations \in Seq(HeapEntries) /\ DOMAIN HeapAllocations = 1 .. Len(HeapAllocations)
  BY DEF HeapInv
<1>2. PICK n \in Nat : n = Len(HeapAllocations)
  <2>1. Len(HeapAllocations) \in Nat
    BY <1>1
  <2> QED
    BY <2>1, Zenon
<1>3. \A i \in 1 .. n : HeapAllocations[i].at \in Nat
  BY <1>2, EntriesApart
<1>4. PICK a : a = [i \in 1 .. n |-> HeapAllocations[i].at]
  OBVIOUS
<1>5. a \in Seq(Nat) /\ Len(a) = n /\ \A i \in 1 .. n : a[i] = HeapAllocations[i].at
  BY <1>3, <1>4
<1>6. <<0>> \in Seq(Nat) /\ Len(<<0>>) = 1 /\ <<0>>[1] = 0
  OBVIOUS
<1>7. PICK z : z = <<0>> /\ z \in Seq(Nat) /\ Len(z) = 1 /\ z[1] = 0
  BY <1>6, Zenon
<1>8. /\ z \o a \in Seq(Nat) /\ Len(z \o a) = Len(z) + Len(a)
      /\ \A i \in 1 .. Len(z) + Len(a) : (z \o a)[i] = IF i <= Len(z) THEN z[i] ELSE a[i - Len(z)]
  BY <1>5, <1>7, ConcatProperties
<1>9. H!Ring = z \o a
  BY <1>1, <1>2, <1>4, <1>7 DEF H!Ring, H!ListHead
<1>10. /\ Len(z \o a) = 1 + n
       /\ \A i \in 1 .. 1 + n : (z \o a)[i] = IF i <= 1 THEN z[i] ELSE a[i - 1]
  BY <1>5, <1>7, <1>8
<1>11. (z \o a)[1] = 0
  BY <1>7, <1>10
<1>12. ASSUME NEW i \in 1 .. n PROVE (z \o a)[i + 1] = HeapAllocations[i].at
  <2>1. i + 1 \in 1 .. 1 + n /\ ~(i + 1 <= 1) /\ (i + 1) - 1 = i
    OBVIOUS
  <2> QED
    BY <1>5, <1>10, <2>1
<1>13. 1 + n = n + 1 /\ DOMAIN (z \o a) = 1 .. Len(z \o a)
  BY <1>8
<1> QED
  BY <1>2, <1>9, <1>10, <1>11, <1>12, <1>13

\* The place in the list of what the round that starts behind place b meets at
\* its k-th step.
Turn(b, k, n) == IF b + k <= n THEN b + k ELSE b + k - n

LEMMA RoundOfList ==
    ASSUME HeapInv, H!RestartIsListed
    PROVE  \E b \in 1 .. Len(HeapAllocations) + 1 : \A k \in 1 .. Len(HeapAllocations) + 1 :
              /\ Turn(b, k, Len(HeapAllocations) + 1) \in 1 .. Len(HeapAllocations) + 1
              /\ H!Round[k] = H!Ring[Turn(b, k, Len(HeapAllocations) + 1)]
<1>1. PICK n \in Nat \ {0} : n = Len(HeapAllocations) + 1
  BY DEF HeapInv
<1>2. Len(H!Ring) = n /\ DOMAIN H!Ring = 1 .. n
  BY <1>1, RingOfList
<1>3. \E i \in 1 .. n : H!Ring[i] = EntryToRestartSearch
  BY <1>2 DEF H!RestartIsListed, H!ToSet
<1>4. PICK b \in 1 .. n : b = CHOOSE i \in 1 .. n : H!Ring[i] = EntryToRestartSearch
  BY <1>3
<1>5. H!Round = [k \in 1 .. n |-> H!Ring[((b + k - 1) % n) + 1]]
  BY <1>2, <1>4 DEF H!Round
<1>6. ASSUME NEW k \in 1 .. n PROVE Turn(b, k, n) \in 1 .. n /\ H!Round[k] = H!Ring[Turn(b, k, n)]
  <2>1. PICK x \in Nat : x = b + k - 1 /\ x < n + n
    OBVIOUS
  <2>2. x % n = IF x < n THEN x ELSE x - n
    BY <2>1, OnceRound
  <2>3. (x % n) + 1 = Turn(b, k, n) /\ Turn(b, k, n) \in 1 .. n
    BY <2>1, <2>2 DEF Turn
  <2> QED
    BY <1>5, <2>1, <2>3
<1> QED
  BY <1>1, <1>6

\* Where a step of the search that is not skipped is: at two entries of the list,
\* one behind the other; and if they do not follow the entry of the step before,
\* pPreviousHeapEntry lies behind both of them.
LEMMA StepOfSearch ==
    ASSUME HeapInv, H!RestartIsListed, NEW k \in H!Steps, ~H!Skipped(k), H!PreviousHeapEntry(k) # H!NULL
    PROVE  \E p \in 1 .. Len(HeapAllocations) - 1 :
              /\ H!Round[k - 1] = HeapAllocations[p].at /\ H!Round[k] = HeapAllocations[p + 1].at
              /\ \/ H!PreviousHeapEntry(k) = HeapAllocations[p].at
                 \/ \E q \in p + 1 .. Len(HeapAllocations) : H!PreviousHeapEntry(k) = HeapAllocations[q].at
<1>1. PICK l \in Nat : l = Len(HeapAllocations)
  BY DEF HeapInv
<1>2. /\ Len(H!Ring) = l + 1 /\ H!Ring[1] = 0
      /\ \A i \in 1 .. l : H!Ring[i + 1] = HeapAllocations[i].at /\ HeapAllocations[i].at # 0
  BY <1>1, RingOfList, EntriesApart
<1>3. k \in 2 .. l
  BY <1>1, <1>2 DEF H!Steps
<1>4. PICK b \in 1 .. l + 1 : \A j \in 1 .. l + 1 : Turn(b, j, l + 1) \in 1 .. l + 1 /\ H!Round[j] = H!Ring[Turn(b, j, l + 1)]
  BY <1>1, RoundOfList
<1>5. ASSUME NEW j \in 1 .. l + 1
      PROVE  /\ H!Round[j] = 0 <=> Turn(b, j, l + 1) = 1
             /\ Turn(b, j, l + 1) # 1 =>
                   /\ Turn(b, j, l + 1) - 1 \in 1 .. l /\ H!Round[j] = HeapAllocations[Turn(b, j, l + 1) - 1].at
  <2>1. PICK t \in 1 .. l + 1 : t = Turn(b, j, l + 1) /\ H!Round[j] = H!Ring[t]
    BY <1>4
  <2>2. CASE t = 1
    BY <1>2, <2>1, <2>2
  <2>3. CASE t # 1
    <3>1. PICK i \in 1 .. l : i = t - 1 /\ t = i + 1
      BY <2>1, <2>3
    <3>2. H!Ring[t] = HeapAllocations[i].at /\ HeapAllocations[i].at # 0
      BY <1>2, <3>1
    <3> QED
      BY <2>1, <2>3, <3>1, <3>2
  <2> QED
    BY <2>2, <2>3
<1>6. k - 1 \in 1 .. l + 1 /\ k \in 1 .. l + 1 /\ H!Round[k - 1] # 0 /\ H!Round[k] # 0
  BY <1>3 DEF H!Skipped, H!ListHead
<1>7. PICK p \in 1 .. l - 1 : Turn(b, k - 1, l + 1) = p + 1 /\ Turn(b, k, l + 1) = p + 2
  <2>1. Turn(b, k - 1, l + 1) # 1 /\ Turn(b, k, l + 1) # 1
    BY <1>5, <1>6
  <2>2. /\ Turn(b, k - 1, l + 1) = IF b + (k - 1) <= l + 1 THEN b + (k - 1) ELSE b + (k - 1) - (l + 1)
        /\ Turn(b, k, l + 1) = IF b + k <= l + 1 THEN b + k ELSE b + k - (l + 1)
    BY DEF Turn
  <2>3. PICK x \in 1 .. l - 1 : Turn(b, k - 1, l + 1) = x + 1 /\ Turn(b, k, l + 1) = x + 2
    <3>1. CASE b + k <= l + 1
      <4>1. b + k - 2 \in 1 .. l - 1 /\ b + (k - 1) = (b + k - 2) + 1 /\ b + k = (b + k - 2) + 2 /\ b + (k - 1) <= l + 1
        BY <1>3, <2>1, <2>2, <3>1
      <4> QED
        BY <2>2, <3>1, <4>1
    <3>2. CASE b + k > l + 1
      <4>1. ~(b + (k - 1) <= l + 1)
        BY <1>3, <2>1, <2>2, <3>2
      <4>2. PICK x \in 1 .. l - 1 : x = b + k - (l + 1) - 2
        BY <1>3, <2>1, <2>2, <3>2, <4>1
      <4>3. b + (k - 1) - (l + 1) = x + 1 /\ b + k - (l + 1) = x + 2
        BY <1>3, <4>2
      <4> QED
        BY <1>3, <2>2, <3>2, <4>1, <4>3
    <3> QED
      BY <1>3, <3>1, <3>2
  <2> QED
    BY <2>3
<1>8. H!Round[k - 1] = HeapAllocations[p].at /\ H!Round[k] = HeapAllocations[p + 1].at
  <2>1. p + 1 # 1 /\ p + 2 # 1 /\ (p + 1) - 1 = p /\ (p + 2) - 1 = p + 1
    OBVIOUS
  <2> QED
    BY <1>5, <1>6, <1>7, <2>1
<1>9. \/ H!PreviousHeapEntry(k) = HeapAllocations[p].at
      \/ \E q \in p + 1 .. l : H!PreviousHeapEntry(k) = HeapAllocations[q].at
  <2>1. CASE k = 2
    BY <1>8, <2>1 DEF H!PreviousHeapEntry
  <2>2. CASE k # 2
    <3> DEFINE looked == {j \in 2 .. k - 1 : ~H!Skipped(j)}
    <3>1. looked # {} /\ H!PreviousHeapEntry(k) = H!Round[H!Max(looked)]
      BY <2>2 DEF H!PreviousHeapEntry
    <3>2. PICK m \in 2 .. k - 1 : m = H!Max(looked) /\ ~H!Skipped(m) /\ \A j \in looked : m >= j
      <4>1. looked \subseteq 0 .. k /\ k \in Nat
        BY <1>3
      <4>2. H!Max(looked) \in looked /\ \A y \in looked : H!Max(looked) >= y
        BY <3>1, <4>1, GreatestNatural
      <4> QED
        BY <4>2
    <3>3. CASE m = k - 1
      BY <1>8, <3>1, <3>2, <3>3
    <3>4. CASE m # k - 1
      <4>1. H!Skipped(k - 1)
        <5>1. k - 1 \notin looked
          BY <1>3, <3>2, <3>4
        <5> QED
          BY <1>3, <2>2, <5>1
      <4>2. H!Round[k - 2] = 0
        <5>1. (k - 1) - 1 = k - 2
          BY <1>3
        <5> QED
          BY <1>6, <4>1, <5>1 DEF H!Skipped, H!ListHead
      <4>3. m \in 1 .. l + 1 /\ k - 2 \in 1 .. l + 1 /\ H!Round[m] # 0
        BY <1>3, <2>2, <3>2 DEF H!Skipped, H!ListHead
      <4>4. m # k - 2
        BY <4>2, <4>3
      <4>5. Turn(b, k - 2, l + 1) = 1 /\ Turn(b, m, l + 1) # 1
        BY <1>5, <4>2, <4>3
      <4>6. p = 1
        <5>1. Turn(b, k - 1, l + 1) = 2
          BY <1>3, <4>3, <4>5 DEF Turn
        <5> QED
          BY <1>7, <5>1
      <4>7. Turn(b, m, l + 1) # 2
        <5>1. Turn(b, k - 1, l + 1) = 2
          BY <1>7, <4>6
        <5> QED
          BY <1>3, <3>2, <3>4, <4>3, <5>1 DEF Turn
      <4>8. PICK q \in 1 .. l : q = Turn(b, m, l + 1) - 1 /\ H!Round[m] = HeapAllocations[q].at
        BY <1>5, <4>3, <4>5
      <4>9. PICK t \in 1 .. l + 1 : t = Turn(b, m, l + 1)
        BY <1>4, <4>3
      <4>10. q \in p + 1 .. l
        BY <4>5, <4>6, <4>7, <4>8, <4>9
      <4> QED
        BY <3>1, <3>2, <4>8, <4>10
    <3> QED
      BY <3>3, <3>4
  <2> QED
    BY <2>1, <2>2
<1> QED
  BY <1>1, <1>8, <1>9

\* The end of the last entry, and every entry's.
LEMMA EndsBeforeFree ==
    ASSUME HeapInv
    PROVE  /\ FreeAddress \in Nat /\ FreeAddress >= HeaderSize
           /\ \A i \in 1 .. Len(HeapAllocations) : FreeAddress >= H!End(HeapAllocations[i])
<1>1. /\ HeapAllocations \in Seq(HeapEntries) /\ Sorted(HeapAllocations)
      /\ FreeAddress = IF Len(HeapAllocations) = 0 THEN HeaderSize ELSE H!End(HeapAllocations[Len(HeapAllocations)])
  BY DEF HeapInv
<1>2. PICK l \in Nat : l = Len(HeapAllocations)
  <2>1. Len(HeapAllocations) \in Nat
    BY <1>1
  <2> QED
    BY <2>1, Zenon
<1>3. CASE l = 0
  BY <1>1, <1>2, <1>3, HeapNumbers
<1>4. CASE l > 0
  <2>1. PICK e \in HeapEntries : e = HeapAllocations[l] /\ FreeAddress = H!End(e)
    BY <1>1, <1>2, <1>4
  <2>2. e.at \in Nat /\ H!End(e) \in Nat /\ H!End(e) > e.at
    BY EntryNumbers
  <2>3. e.at >= HeaderSize
    BY <1>1, <1>2, <1>4, <2>1 DEF Sorted
  <2>4. ASSUME NEW i \in 1 .. l PROVE FreeAddress >= H!End(HeapAllocations[i])
    <3>1. PICK d \in HeapEntries : d = HeapAllocations[i]
      BY <1>1, <1>2
    <3>2. H!End(d) \in Nat
      BY EntryNumbers
    <3>3. CASE i = l
      BY <2>1, <2>2, <3>3
    <3>4. CASE i < l
      <4>1. e.at >= H!End(d)
        BY <1>1, <1>2, <1>4, <2>1, <3>1, <3>4 DEF Sorted
      <4> QED
        BY <2>1, <2>2, <3>1, <3>2, <4>1
    <3> QED
      BY <3>3, <3>4
  <2> QED
    BY <1>2, <2>1, <2>2, <2>3, <2>4, HeapNumbers
<1> QED
  BY <1>2, <1>3, <1>4

\* An entry that goes into the list behind its first p entries.
LEMMA EntryJoins ==
    ASSUME HeapInv, NEW e \in HeapEntries, NEW p \in 0 .. Len(HeapAllocations),
           Inserted(HeapAllocations, p, e, HeapAllocations'), e.at >= HeaderSize,
           p >= 1 => e.at >= H!End(HeapAllocations[p]),
           p < Len(HeapAllocations) => HeapAllocations[p + 1].at >= H!End(e),
           FreeAddress' = IF p = Len(HeapAllocations) THEN H!End(e) ELSE FreeAddress,
           FreeAddress' <= HeapSizeMaximum,
           HeapSizeRemaining' = HeapSizeRemaining - H!Required(e.size)
    PROVE  HeapInv'
<1>1. /\ HeapAllocations \in Seq(HeapEntries) /\ Sorted(HeapAllocations)
      /\ FreeAddress = IF Len(HeapAllocations) = 0 THEN HeaderSize ELSE H!End(HeapAllocations[Len(HeapAllocations)])
      /\ HeapSizeRemaining \in Int
  BY DEF HeapInv
<1>2. PICK s, t : s = HeapAllocations /\ t = HeapAllocations'
  OBVIOUS
<1>3. s \in Seq(HeapEntries) /\ Sorted(s) /\ p \in 0 .. Len(s) /\ Inserted(s, p, e, t)
  BY <1>1, <1>2
<1>4. Sorted(t)
  BY <1>2, <1>3, InsertedSorted
<1>5. PICK f : Adds(s, f) /\ HeapSizeMaximum - HeaderSize - HeapSizeRemaining = f[Len(s)]
  BY <1>2 DEF HeapInv
<1>6. PICK g : Adds(t, g) /\ g[Len(t)] = f[Len(s)] + H!Required(e.size)
  BY <1>3, <1>5, InsertedAdds
<1>7. PICK r \in Nat : r = H!Required(e.size)
  BY EntryNumbers
<1>8. HeapSizeRemaining' \in Int /\ HeapSizeMaximum - HeaderSize - HeapSizeRemaining' = g[Len(t)]
  BY <1>1, <1>5, <1>6, <1>7, HeapNumbers
<1>9. FreeAddress' = IF Len(t) = 0 THEN HeaderSize ELSE H!End(t[Len(t)])
  <2>1. PICK l \in Nat : l = Len(s)
    <3>1. Len(s) \in Nat
      BY <1>3
    <3> QED
      BY <3>1, Zenon
  <2>2. Len(t) = l + 1 /\ t[p + 1] = e /\ \A i \in p + 2 .. l + 1 : t[i] = s[i - 1]
    BY <1>3, <2>1 DEF Inserted
  <2>3. CASE p = l
    BY <1>2, <2>1, <2>2, <2>3
  <2>4. CASE p # l
    <3>1. l + 1 \in p + 2 .. l + 1 /\ (l + 1) - 1 = l /\ l # 0
      BY <1>3, <2>1, <2>4
    <3>2. t[l + 1] = s[l]
      BY <2>2, <3>1
    <3>3. FreeAddress' = H!End(s[l])
      BY <1>1, <1>2, <2>1, <2>4, <3>1
    <3> QED
      BY <2>1, <2>2, <3>2, <3>3
  <2> QED
    BY <2>3, <2>4
<1>10. t \in Seq(HeapEntries)
  BY <1>3 DEF Inserted
<1> QED
  BY <1>2, <1>4, <1>6, <1>8, <1>9, <1>10 DEF HeapInv

\* ClHeapAllocatePoolWithTag: behind the last allocation.
LEMMA AtEndKeeps ==
    ASSUME HeapInv, NEW size \in AllocationSizes, NEW alignment \in Alignments, H!AllocateAtEnd(size, alignment)
    PROVE  HeapInv'
<1>1. PICK new : new = H!NewEntry(FreeAddress, size, alignment)
  OBVIOUS
<1>2. /\ H!Fits(FreeAddress, size, alignment, H!RemainingSizeUntilEnd)
      /\ HeapAllocations' = Append(HeapAllocations, new) /\ FreeAddress' = H!End(new)
      /\ HeapSizeRemaining' = HeapSizeRemaining - H!Required(size)
  BY <1>1 DEF H!AllocateAtEnd, H!FitsAtEnd
<1>3. /\ FreeAddress \in Nat /\ FreeAddress >= HeaderSize
      /\ \A i \in 1 .. Len(HeapAllocations) : FreeAddress >= H!End(HeapAllocations[i])
  BY EndsBeforeFree
<1>4. size \in Nat /\ alignment \in Nat \ {0} /\ H!RemainingSizeUntilEnd \in Int
  BY <1>3, HeapNumbers DEF H!RemainingSizeUntilEnd
<1>5. /\ new \in HeapEntries /\ new.at >= FreeAddress /\ new.size = size
      /\ H!End(new) <= FreeAddress + H!RemainingSizeUntilEnd
  BY <1>1, <1>2, <1>3, <1>4, NewEntryFits
<1>6. new.at \in Nat /\ H!End(new) \in Nat
  BY <1>5, EntryNumbers
<1>7. FreeAddress' <= HeapSizeMaximum
  <2>1. FreeAddress + H!RemainingSizeUntilEnd = HeapSizeMaximum - EntrySize
    BY <1>3, HeapNumbers DEF H!RemainingSizeUntilEnd
  <2> QED
    BY <1>2, <1>5, <1>6, <2>1, HeapNumbers
<1>8. HeapAllocations \in Seq(HeapEntries)
  BY DEF HeapInv
<1>9. PICK p \in Nat : p = Len(HeapAllocations)
  <2>1. Len(HeapAllocations) \in Nat
    BY <1>8
  <2> QED
    BY <2>1, Zenon
<1>10. Inserted(HeapAllocations, p, new, HeapAllocations')
  BY <1>2, <1>5, <1>8, <1>9, AppendInserts
<1>11. p >= 1 => new.at >= H!End(HeapAllocations[p])
  <2> SUFFICES ASSUME p >= 1 PROVE new.at >= H!End(HeapAllocations[p])
    OBVIOUS
  <2>1. PICK e \in HeapEntries : e = HeapAllocations[p]
    BY <1>8, <1>9
  <2>2. FreeAddress >= H!End(e) /\ H!End(e) \in Nat
    BY <1>3, <1>9, <2>1, EntryNumbers
  <2> QED
    BY <1>3, <1>5, <1>6, <2>1, <2>2
<1>12. new.at >= HeaderSize
  BY <1>3, <1>5, <1>6, HeapNumbers
<1>13. p \in 0 .. Len(HeapAllocations) /\ ~(p < Len(HeapAllocations))
  BY <1>9
<1>14. FreeAddress' = IF p = Len(HeapAllocations) THEN H!End(new) ELSE FreeAddress
  BY <1>2, <1>9
<1> QED
  BY <1>2, <1>5, <1>7, <1>10, <1>11, <1>12, <1>13, <1>14, EntryJoins

\* ClHeapAllocatePoolWithTag: into a gap.  When pPreviousHeapEntry lags behind
\* it is an entry beyond the gap, and the room computed from it is negative.
LEMMA BetweenKeeps ==
    ASSUME HeapInv, NEW size \in AllocationSizes, NEW alignment \in Alignments, H!AllocateBetween(size, alignment)
    PROVE  HeapInv'
<1>1. PICK k : k = H!Min(H!Stops(size, alignment))
  OBVIOUS
<1>2. PICK new : new = H!NewEntry(H!End(H!EntryAt(H!PreviousHeapEntry(k))), size, alignment)
  OBVIOUS
<1>3. PICK after : after = CHOOSE i \in DOMAIN HeapAllocations : HeapAllocations[i].at = H!Round[k - 1]
  OBVIOUS
<1>4. /\ H!RestartIsListed /\ H!Stops(size, alignment) # {} /\ H!PreviousHeapEntry(k) # H!NULL
      /\ HeapAllocations' = H!InsertAt(HeapAllocations, after + 1, new)
      /\ HeapSizeRemaining' = HeapSizeRemaining - H!Required(size) /\ UNCHANGED FreeAddress
  BY <1>1, <1>2, <1>3 DEF H!AllocateBetween
<1>5. k \in H!Steps /\ ~H!Skipped(k) /\ H!FitsBetween(k, size, alignment)
  <2>1. H!Stops(size, alignment) \subseteq Nat
    BY RingOfList DEF H!Stops, H!Steps, HeapInv
  <2>2. k \in H!Stops(size, alignment)
    BY <1>1, <1>4, <2>1, LeastInHeap
  <2> QED
    BY <1>4, <2>2 DEF H!Stops
<1>6. HeapAllocations \in Seq(HeapEntries) /\ DOMAIN HeapAllocations = 1 .. Len(HeapAllocations)
  BY DEF HeapInv
<1>7. PICK l \in Nat : l = Len(HeapAllocations)
  <2>1. Len(HeapAllocations) \in Nat
    BY <1>6
  <2> QED
    BY <2>1, Zenon
<1>8. PICK p \in 1 .. l - 1 :
        /\ H!Round[k - 1] = HeapAllocations[p].at /\ H!Round[k] = HeapAllocations[p + 1].at
        /\ \/ H!PreviousHeapEntry(k) = HeapAllocations[p].at
           \/ \E q \in p + 1 .. l : H!PreviousHeapEntry(k) = HeapAllocations[q].at
  BY <1>4, <1>5, <1>7, StepOfSearch
<1>9. PICK q \in p .. l : H!PreviousHeapEntry(k) = HeapAllocations[q].at
  BY <1>7, <1>8
<1>10. PICK a \in HeapEntries, b \in HeapEntries, d \in HeapEntries :
         a = HeapAllocations[p] /\ b = HeapAllocations[p + 1] /\ d = HeapAllocations[q]
  <2>1. p \in 1 .. l /\ p + 1 \in 1 .. l /\ q \in 1 .. l
    BY <1>7, <1>9
  <2>2. HeapAllocations[p] \in HeapEntries /\ HeapAllocations[p + 1] \in HeapEntries /\ HeapAllocations[q] \in HeapEntries
    BY <1>6, <1>7, <2>1
  <2> QED
    BY <2>2
<1>11. H!EntryAt(H!PreviousHeapEntry(k)) = d
  <2>1. q \in 1 .. Len(HeapAllocations)
    BY <1>7, <1>9
  <2> QED
    BY <1>9, <1>10, <2>1, EntryIsFound
<1>12. /\ a.at \in Nat /\ b.at \in Nat /\ d.at \in Nat /\ H!End(a) \in Nat /\ H!End(b) \in Nat /\ H!End(d) \in Nat
       /\ H!End(a) > a.at /\ H!End(d) > d.at
  BY EntryNumbers
<1>13. size \in Nat /\ alignment \in Nat \ {0} /\ H!Required(size) \in Nat
  BY HeapNumbers DEF H!Required
<1>14. /\ b.at - H!End(d) >= H!Required(size) /\ H!Fits(H!End(d), size, alignment, b.at - H!End(d))
  BY <1>5, <1>8, <1>10, <1>11 DEF H!FitsBetween
<1>15. q = p
  <2> SUFFICES ASSUME q > p PROVE FALSE
    BY <1>9
  <2>1. p + 1 \in 1 .. Len(HeapAllocations) /\ q \in 1 .. Len(HeapAllocations)
    BY <1>7, <1>9
  <2>2. d.at >= b.at
    <3>1. CASE q = p + 1
      BY <1>10, <1>12, <3>1
    <3>2. CASE q > p + 1
      <4>1. HeapAllocations[p + 1].at < HeapAllocations[q].at
        BY <2>1, <3>2, EntriesApart
      <4> QED
        BY <1>10, <1>12, <4>1
    <3> QED
      BY <1>9, <3>1, <3>2
  <2> QED
    BY <1>12, <1>13, <1>14, <2>2
<1>16. d = a /\ H!Fits(H!End(a), size, alignment, b.at - H!End(a)) /\ new = H!NewEntry(H!End(a), size, alignment)
  BY <1>2, <1>10, <1>11, <1>14, <1>15
<1>17. new \in HeapEntries /\ new.at >= H!End(a) /\ new.size = size /\ H!End(new) <= b.at
  <2>1. PICK start \in Nat, available \in Int : start = H!End(a) /\ available = b.at - H!End(a)
    BY <1>12
  <2>2. start + available = b.at
    BY <1>12, <2>1
  <2>3. H!Fits(start, size, alignment, available) /\ new = H!NewEntry(start, size, alignment)
    BY <1>16, <2>1
  <2>4. /\ new \in HeapEntries /\ new.at >= start /\ new.size = size /\ H!End(new) <= start + available
    BY <1>13, <2>3, NewEntryFits
  <2> QED
    BY <2>1, <2>2, <2>4
<1>18. after = p
  <2>1. p \in 1 .. Len(HeapAllocations)
    BY <1>7
  <2>2. \A i \in 1 .. Len(HeapAllocations) : HeapAllocations[i].at = HeapAllocations[p].at => i = p
    BY <2>1, EntriesApart
  <2>3. after = CHOOSE i \in 1 .. Len(HeapAllocations) : HeapAllocations[i].at = HeapAllocations[p].at
    BY <1>3, <1>6, <1>8
  <2> QED
    BY <2>1, <2>2, <2>3
<1>19. p \in 0 .. Len(HeapAllocations) /\ p < Len(HeapAllocations) /\ p # Len(HeapAllocations)
  BY <1>7
<1>20. Inserted(HeapAllocations, p, new, HeapAllocations')
  BY <1>4, <1>6, <1>17, <1>18, <1>19, InsertAtInserts
<1>21. new.at >= HeaderSize
  <2>1. a.at >= HeaderSize
    <3>1. Sorted(HeapAllocations) /\ p \in 1 .. Len(HeapAllocations)
      BY <1>7 DEF HeapInv
    <3> QED
      BY <1>10, <3>1 DEF Sorted
  <2>2. new.at \in Nat
    BY <1>17, EntryNumbers
  <2> QED
    BY <1>12, <1>17, <2>1, <2>2, HeapNumbers
<1>22. FreeAddress' <= HeapSizeMaximum
  BY <1>4 DEF HeapInv
<1> QED
  BY <1>4, <1>10, <1>17, <1>19, <1>20, <1>21, <1>22, EntryJoins

\* ClHeapFreePoolWithTag.
LEMMA FreeKeeps ==
    ASSUME HeapInv, NEW i \in DOMAIN HeapAllocations, H!Free(i) PROVE HeapInv'
<1>1. /\ HeapAllocations \in Seq(HeapEntries) /\ Sorted(HeapAllocations)
      /\ FreeAddress = IF Len(HeapAllocations) = 0 THEN HeaderSize ELSE H!End(HeapAllocations[Len(HeapAllocations)])
      /\ HeapSizeRemaining \in Int /\ FreeAddress <= HeapSizeMaximum
  BY DEF HeapInv
<1>2. PICK s, t : s = HeapAllocations /\ t = HeapAllocations'
  OBVIOUS
<1>3. s \in Seq(HeapEntries) /\ Sorted(s) /\ i \in 1 .. Len(s)
  BY <1>1, <1>2
<1>4. PICK l \in Nat : l = Len(s) /\ i \in 1 .. l
  <2>1. Len(s) \in Nat
    BY <1>3
  <2> QED
    BY <1>3, <2>1, Zenon
<1>5. /\ t = H!RemoveAt(s, i) /\ HeapSizeRemaining' = HeapSizeRemaining + H!Required(s[i].size)
      /\ FreeAddress' = IF H!End(s[i]) = FreeAddress
                        THEN (IF i = 1 THEN HeaderSize ELSE H!End(s[i - 1])) ELSE FreeAddress
  BY <1>2 DEF H!Free
<1>6. Removed(s, i, t)
  BY <1>3, <1>5, RemoveAtRemoves
<1>7. Sorted(t)
  BY <1>3, <1>6, RemovedSorted
<1>8. PICK f : Adds(s, f) /\ HeapSizeMaximum - HeaderSize - HeapSizeRemaining = f[Len(s)]
  BY <1>2 DEF HeapInv
<1>9. PICK g : Adds(t, g) /\ g[Len(t)] = f[Len(s)] - H!Required(s[i].size)
  BY <1>3, <1>6, <1>8, RemovedAdds
<1>10. ASSUME NEW j \in 1 .. l
       PROVE  /\ s[j] \in HeapEntries /\ s[j].at \in Nat /\ H!End(s[j]) \in Nat /\ H!End(s[j]) > s[j].at
              /\ H!Required(s[j].size) \in Nat
  <2>1. s[j] \in HeapEntries
    BY <1>3, <1>4
  <2> QED
    BY <2>1, EntryNumbers
<1>11. HeapSizeRemaining' \in Int /\ HeapSizeMaximum - HeaderSize - HeapSizeRemaining' = g[Len(t)]
  <2>1. PICK r \in Nat : r = H!Required(s[i].size)
    BY <1>4, <1>10
  <2> QED
    BY <1>1, <1>5, <1>8, <1>9, <2>1, HeapNumbers
<1>12. FreeAddress = H!End(s[l]) /\ l \in 1 .. l
  BY <1>1, <1>2, <1>4
<1>13. Len(t) = l - 1 /\ (\A k \in 1 .. i - 1 : t[k] = s[k]) /\ (\A k \in i .. l - 1 : t[k] = s[k + 1])
  BY <1>4, <1>6 DEF Removed
<1>14. /\ FreeAddress' = IF Len(t) = 0 THEN HeaderSize ELSE H!End(t[Len(t)])
       /\ FreeAddress' <= HeapSizeMaximum
  <2>1. CASE i = l
    <3>1. FreeAddress' = IF l = 1 THEN HeaderSize ELSE H!End(s[l - 1])
      BY <1>5, <1>12, <2>1
    <3>2. CASE l = 1
      BY <1>13, <3>1, <3>2, HeapNumbers
    <3>3. CASE l # 1
      <4>1. l - 1 \in 1 .. l /\ l - 1 \in 1 .. i - 1 /\ l - 1 < l /\ l - 1 # 0
        BY <1>4, <2>1, <3>3
      <4>2. t[l - 1] = s[l - 1] /\ s[l].at >= H!End(s[l - 1])
        BY <1>3, <1>4, <1>12, <1>13, <4>1 DEF Sorted
      <4>3. /\ H!End(s[l - 1]) \in Nat /\ s[l].at \in Nat /\ H!End(s[l]) \in Nat /\ H!End(s[l]) > s[l].at
            /\ H!End(s[l]) <= HeapSizeMaximum
        BY <1>1, <1>10, <1>12, <4>1
      <4> QED
        BY <1>13, <3>1, <3>3, <4>1, <4>2, <4>3, HeapNumbers
    <3> QED
      BY <3>2, <3>3
  <2>2. CASE i # l
    <3>1. i < l /\ l - 1 \in i .. l - 1 /\ (l - 1) + 1 = l /\ l - 1 # 0
      BY <1>4, <2>2
    <3>2. s[l].at >= H!End(s[i])
      BY <1>3, <1>4, <1>12, <3>1 DEF Sorted
    <3>3. /\ H!End(s[i]) \in Nat /\ s[l].at \in Nat /\ H!End(s[l]) \in Nat /\ H!End(s[l]) > s[l].at
      BY <1>4, <1>10, <1>12
    <3>4. H!End(s[i]) # FreeAddress
      BY <1>12, <3>2, <3>3
    <3>5. FreeAddress' = FreeAddress /\ t[l - 1] = s[l]
      BY <1>5, <1>13, <3>1, <3>4
    <3> QED
      BY <1>1, <1>12, <1>13, <3>1, <3>5
  <2> QED
    BY <2>1, <2>2
<1>15. t \in Seq(HeapEntries)
  BY <1>6 DEF Removed
<1> QED
  BY <1>2, <1>7, <1>9, <1>11, <1>14, <1>15 DEF HeapInv

\* The inductive invariant of the heap.
THEOREM HeapInvariant == H!HeapSpec => []HeapInv
<1>1. ASSUME H!HeapInit PROVE HeapInv
  <2>1. HeapAllocations = <<>> /\ HeapSizeRemaining = HeapSizeMaximum - HeaderSize /\ FreeAddress = HeaderSize
    BY <1>1 DEF H!HeapInit
  <2>2. HeapAllocations \in Seq(HeapEntries) /\ Len(HeapAllocations) = 0
    BY <2>1
  <2>3. Sorted(HeapAllocations)
    BY <2>2 DEF Sorted
  <2>4. Adds(HeapAllocations, [k \in 0 .. 0 |-> 0]) /\ [k \in 0 .. 0 |-> 0][0] = 0
    BY <2>2 DEF Adds
  <2>5. HeapSizeMaximum - HeaderSize - HeapSizeRemaining = 0 /\ HeapSizeRemaining \in Int /\ FreeAddress <= HeapSizeMaximum
    BY <2>1, HeapNumbers
  <2> QED
    BY <2>1, <2>2, <2>3, <2>4, <2>5 DEF HeapInv
<1>2. HeapInv /\ [H!HeapNext]_(H!heapVars) => HeapInv'
  <2> SUFFICES ASSUME HeapInv, [H!HeapNext]_(H!heapVars) PROVE HeapInv'
    OBVIOUS
  <2>1. ASSUME UNCHANGED <<HeapAllocations, HeapSizeRemaining, FreeAddress>> PROVE HeapInv'
    BY <2>1 DEF HeapInv
  <2>2. ASSUME NEW size \in AllocationSizes, NEW alignment \in Alignments, H!SearchGoesAstray(size, alignment)
        PROVE  HeapInv'
    BY <2>1, <2>2 DEF H!SearchGoesAstray
  <2>3. CASE H!HeapNext
    BY <2>2, <2>3, AtEndKeeps, BetweenKeeps, FreeKeeps DEF H!HeapNext
  <2>4. CASE UNCHANGED H!heapVars
    BY <2>1, <2>4 DEF H!heapVars
  <2> QED
    BY <2>3, <2>4
<1> QED
  BY <1>1, <1>2, PTL DEF H!HeapSpec

\* ClHeapAllocatePoolWithTag and ClHeapFreePoolWithTag: allocations are listed by
\* address, neither overlap nor leave the heap, and FreeAddress and
\* HeapSizeRemaining agree with them, for any sizes, alignments and sequences of
\* calls, up to a search that reads what is no entry any more.
THEOREM AllocationsStayDisjoint == H!HeapSpec => []AllocationsAreDisjoint
<1>1. ASSUME HeapInv PROVE AllocationsAreDisjoint
  <2>1. HeapAllocations \in Seq(HeapEntries) /\ Sorted(HeapAllocations)
    BY <1>1 DEF HeapInv
  <2>2. PICK n \in Nat : n = Len(HeapAllocations)
    <3>1. Len(HeapAllocations) \in Nat
      BY <2>1
    <3> QED
      BY <3>1, Zenon
  <2>3. ASSUME NEW i \in 1 .. n
        PROVE  HeapAllocations[i].at >= (IF i = 1 THEN HeaderSize ELSE H!End(HeapAllocations[i - 1]))
    <3>1. CASE i = 1
      BY <2>1, <2>2, <3>1 DEF Sorted
    <3>2. CASE i # 1
      <4>1. i - 1 \in 1 .. n /\ i - 1 < i
        BY <3>2
      <4> QED
        BY <2>1, <2>2, <3>2, <4>1 DEF Sorted
    <3> QED
      BY <3>1, <3>2
  <2>4. HeapSizeMaximum - HeaderSize - HeapSizeRemaining = H!Occupied[n]
    BY <1>1, <2>1, <2>2, OccupiedAdds DEF HeapInv
  <2>5. FreeAddress = (IF n = 0 THEN HeaderSize ELSE H!End(HeapAllocations[n])) /\ FreeAddress <= HeapSizeMaximum
    BY <1>1, <2>2 DEF HeapInv
  <2> QED
    BY <2>2, <2>3, <2>4, <2>5 DEF AllocationsAreDisjoint, H!AllocationsAreDisjoint
<1> QED
  BY <1>1, HeapInvariant, PTL

-----------------------------------------------------------------------------
(* The memory manager and the heap beside each other.                      *)

\* Beside the heap, which has its own pages, the memory manager does what it
\* does alone, and so does the heap.
THEOREM MemoryBesideHeap == AllSpec => Spec /\ H!HeapSpec
<1>1. AllInit => MemoryInit /\ H!HeapInit
  BY DEF AllInit
<1>2. UNCHANGED heapVars => UNCHANGED H!heapVars
  BY DEF heapVars, H!heapVars
<1>3. [AllNext]_<<object, vars, heapVars>> => [Next]_vars /\ [H!HeapNext]_(H!heapVars)
  BY <1>2 DEF AllNext
<1> QED
  BY <1>1, <1>3, PTL DEF AllSpec, Spec, H!HeapSpec

\* All that the run checks of vmm.c, pmm.c, vm_reservation_space.c and cl_heap.c:
\* reservations are found and apart, mapped pages committed, frames in one place
\* and not lost, allocations of the heap disjoint.
THEOREM MemoryIsSafe ==
    AllSpec => /\ [](ReservationsAreFoundAndDisjoint /\ MappedPagesAreCommitted /\ FramesHaveOnePlace
                       /\ AllocationsAreDisjoint)
               /\ FramesAreLostOnlyByRemappingOrTeardown
<1> QED
  BY MemoryBesideHeap, ReservationsStayApart, MappedStaysCommitted, FramesStayInOnePlace, FramesAreNotLost,
     AllocationsStayDisjoint, PTL
=============================================================================
