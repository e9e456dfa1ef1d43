------------------------ MODULE VmReservationSpace --------------------------
(***************************************************************************)
(* A virtual address reservation space, HAL9000/src/vm_reservation_space.c:*)
(* the list of reservations with their commit bitmaps, and the pointer     *)
(* from which addresses are generated.  Addresses and sizes are in pages,  *)
(* page 1 is StartOfVirtualAddressSpace; the bitmap buffers of the         *)
(* metadata area are counted, one page for each.  Every operation here is  *)
(* what happens under the ReservationLock.                                 *)
(***************************************************************************)
EXTENDS Bitmap, Sequences

CONSTANTS NSlots,            \* entries the reservation list has room for
          NBitmaps,          \* pages the metadata area has for bitmap buffers
          NoFile,            \* a reservation that no file backs
          StateBit, StateWidth   \* bits of a buffer that the State of an entry
                                 \* lying over it takes, 160 and 32

VARIABLES ReservationList, FreeBitmapAddress, FreeVirtualAddressPointer

spaceVars == <<ReservationList, FreeBitmapAddress, FreeVirtualAddressPointer>>

Slots == 1 .. NSlots

\* memzero leaves State 0, which is Free.
ZeroedSlot == [State |-> "Free", StartVa |-> 0, Size |-> 0, PageRights |-> {},
               BackingFile |-> NoFile, Buffer |-> 0, CommitBitmap |-> <<>>]

\* VmReservationSpaceInit and VmReservationSpaceFinishInit.
EmptyList == [s \in Slots |-> IF s = 1 THEN [ZeroedSlot EXCEPT !.State = "Last"] ELSE ZeroedSlot]

VmReservationSpaceInit ==
    /\ ReservationList = EmptyList
    /\ FreeBitmapAddress = 0
    /\ FreeVirtualAddressPointer = 1

\* CHECK_BOUNDS: all of va .. va+n-1 lies in the reservation.
CheckBounds(va, n, r) == r.StartVa <= va /\ va + n <= r.StartVa + r.Size

\* The slots a walk from the start of the list meets before the last one.
BeforeLast == {s \in Slots : \A i \in 1 .. s : ReservationList[i].State # "Last"}

\* _VmFindReservation: the first used entry that holds the whole range, or 0.
FindReservation(va, n) ==
    LET found == {s \in BeforeLast : ReservationList[s].State = "Used" /\ CheckBounds(va, n, ReservationList[s])}
    IN  IF found = {} THEN 0 ELSE Min(found)

\* _VmFindFirstFreeReservation: the first free or last entry, or 0.
FindFirstFree ==
    LET open == {s \in Slots : ReservationList[s].State # "Used"}
    IN  IF open = {} THEN 0 ELSE Min(open)

\* VmmReservationStateLast is 2: what is left of a bitmap when the mark is
\* written over the start of its buffer.
StampedWithLast(b) ==
    [i \in DOMAIN b |-> IF i \in StateBit .. StateBit + StateWidth - 1 THEN i = StateBit + 1 ELSE b[i]]

\* The list with the entry taken: using the last one moves the mark forward,
\* past the end of the list when there is no room.  There the bitmap buffers
\* begin, with the one of the first reservation ever made.
TakeSlot(list, s) ==
    [i \in Slots |->
        IF list[s].State # "Last" THEN list[i]
        ELSE IF i = s + 1 THEN [list[i] EXCEPT !.State = "Last"]
        ELSE IF s = NSlots /\ list[i].State = "Used" /\ list[i].Buffer = 0
             THEN [list[i] EXCEPT !.CommitBitmap = StampedWithLast(list[i].CommitBitmap)]
        ELSE list[i]]

\* The mark has left the list.
Overrun == \A s \in Slots : ReservationList[s].State # "Last"

\* _VmInitializeReservation; the commit bitmap starts clear, in the next buffer.
NewReservation(va, n, rights, file) ==
    [State |-> "Used", StartVa |-> va, Size |-> n, PageRights |-> rights, BackingFile |-> file,
     Buffer |-> FreeBitmapAddress, CommitBitmap |-> BitmapInit(n, FALSE)]

\* _VmCommitReservation and _VmDecommitReservation.
ChangeCommit(r, va, n, Set) ==
    [r EXCEPT !.CommitBitmap = BitmapSetBitsValue(r.CommitBitmap, va - r.StartVa, n, Set)]
IsVaCommited(r, va) == r.CommitBitmap[va - r.StartVa]

\* _VmChangeVaReservationState with VMM_ALLOC_TYPE_RESERVE.
CanReserve(va, n) == FindReservation(va, n) = 0
\* The asserts that the list and the metadata area have room.
RoomToReserve == FindFirstFree # 0 /\ FreeBitmapAddress < NBitmaps
Reserve(list, va, n, rights, file) ==
    LET s == FindFirstFree IN [TakeSlot(list, s) EXCEPT ![s] = NewReservation(va, n, rights, file)]

\* _VmChangeVaReservationState with VMM_ALLOC_TYPE_COMMIT.
CanCommit(va, n, rights) ==
    LET s == FindReservation(va, n) IN s # 0 /\ ReservationList[s].PageRights = rights
Commit(list, s, va, n) == [list EXCEPT ![s] = ChangeCommit(list[s], va, n, TRUE)]

\* VmReservationCanAddressBeAccessed outside the metadata area.
CanAddressBeAccessed(va, rights) ==
    LET s == FindReservation(va, 1)
    IN  s # 0 /\ IsVaCommited(ReservationList[s], va) /\ rights \subseteq ReservationList[s].PageRights
=============================================================================
