------------------------------- MODULE Bitmap -------------------------------
(***************************************************************************)
(* The bitmaps of CommonLib/src/bitmap.c: which frames of physical memory  *)
(* are reserved, which pages of a reservation are committed.  A bitmap of  *)
(* n bits is a function from 0 .. n-1 to BOOLEAN; how the bits are packed  *)
(* into bytes is left out.                                                 *)
(***************************************************************************)
EXTENDS Integers, FiniteSetsExt

MAX_DWORD == -1                 \* what a scan that finds nothing returns

BitmapInit(BitCount, Set) == [i \in 0 .. BitCount - 1 |-> Set]

BitCount(b) == Cardinality(DOMAIN b)

\* BitmapSetBits and BitmapClearBits; the caller keeps Index + Count in bounds.
BitmapSetBitsValue(b, Index, Count, Set) ==
    [i \in DOMAIN b |-> IF i \in Index .. (Index + Count - 1) THEN Set ELSE b[i]]

InBounds(b, Index, Count) == Index < BitCount(b) /\ BitCount(b) - Count >= Index

\* The first Index .. Index + n - 1 below FirstInvalid whose bits all are Set.
BitmapScanInternal(b, StartIndex, FirstInvalid, n, Set) ==
    LET fits == {i \in StartIndex .. (FirstInvalid - n) : \A j \in i .. i + n - 1 : b[j] = Set}
    IN  IF fits = {} THEN MAX_DWORD ELSE Min(fits)

BitmapScanFromTo(b, Index, FirstInvalid, n, Set) ==
    IF n = 0 \/ Index > FirstInvalid \/ FirstInvalid > BitCount(b) THEN MAX_DWORD
    ELSE BitmapScanInternal(b, Index, FirstInvalid, n, Set)

BitmapScanFrom(b, Index, n, Set) == BitmapScanFromTo(b, Index, BitCount(b), n, Set)

\* Mutant. The last bit of the run is not flipped.
BitmapScanFromAndFlipShort(b, Index, n, Set) ==
    LET i == BitmapScanFrom(b, Index, n, Set)
    IN  IF i = MAX_DWORD THEN b ELSE BitmapSetBitsValue(b, i, n - 1, ~Set)

\* The bitmap after BitmapScanFromAndFlip, whose result is BitmapScanFrom.
BitmapScanFromAndFlip(b, Index, n, Set) ==
    LET i == BitmapScanFrom(b, Index, n, Set)
    IN  IF i = MAX_DWORD THEN b ELSE BitmapSetBitsValue(b, i, n, ~Set)
=============================================================================
