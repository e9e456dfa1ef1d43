----------------------------- MODULE FatVolume ------------------------------
(***************************************************************************)
(* What the FAT32 driver keeps on a volume and the searches it makes       *)
(* there: the file allocation table, the FSINFO sector and the root        *)
(* directory (FAT32/src/fat_utils.c and the searches of                    *)
(* fat_operations.c).                                                      *)
(*                                                                         *)
(* The directory is one cluster: the driver never extends one.  An entry   *)
(* is a name, its first cluster and its size in sectors; long names,       *)
(* attributes and dates are left out, and so is what the clusters of the   *)
(* files hold.                                                             *)
(***************************************************************************)
EXTENDS Integers, FiniteSets, FiniteSetsExt, Sequences

CONSTANTS Names,                \* short names, as ConvertFatNameToName gives them
          BPB_RsvdSecCnt, BPB_NumFATs, BPB_FATSz32, BPB_TotSec32,
          SectorsPerCluster,    \* BPB_SecPerClus
          FatEntriesPerSector,  \* BytesPerSector / sizeof(FAT32_ENTRY)
          EntriesPerCluster,    \* directory entries of a cluster
          FAT32_UNKNOWN         \* the largest value of the FSINFO fields

\* FatInitVolume.
ReservedSectors == BPB_RsvdSecCnt
FirstDataSector == BPB_RsvdSecCnt + BPB_NumFATs * BPB_FATSz32
CountOfClusters == (BPB_TotSec32 - FirstDataSector) \div SectorsPerCluster
EntriesPerFat == CountOfClusters + 2
SectorsPerFat == EntriesPerFat \div FatEntriesPerSector

Clusters == 2 .. CountOfClusters + 1
RootCluster == 2                 \* BPB_RootClus
Reserved == 2                    \* entries of the root that create leaves alone

\* The first character of DIR_Name tells what an entry is:
FREE_ALL == "FREE_ALL"          \* it and all after it were never used
FREE_ENTRY == "FREE_ENTRY"      \* the file was deleted
VolumeLabel == "label"          \* what the reserved entries hold

ASSUME FatAssumption ==
    /\ {BPB_RsvdSecCnt, BPB_NumFATs, SectorsPerCluster, FatEntriesPerSector} \subseteq Nat \ {0}
    /\ BPB_FATSz32 \in Nat /\ BPB_TotSec32 \in Nat /\ CountOfClusters \in Nat \ {0}
    /\ EntriesPerCluster \in Nat /\ EntriesPerCluster > Reserved
    /\ FAT32_UNKNOWN \in Nat /\ FAT32_UNKNOWN > 2 * EntriesPerFat + EntriesPerCluster
    /\ Names \intersect {FREE_ALL, FREE_ENTRY, VolumeLabel} = {}

VARIABLES FAT,      \* cluster -> the next one of its chain, Free or EOC
          FsInfo,   \* FSI_Free_Count and FSI_Nxt_Free
          dir       \* the entries of the root directory, in their order

volumeVars == <<FAT, FsInfo, dir>>

Free == 0
FAT32_EOC_MARK == -1

Entry(name, cluster) == [name |-> name, cluster |-> cluster, size |-> 0]
Used(i) == dir[i].name \notin {FREE_ALL, FREE_ENTRY, VolumeLabel}
UsedEntries == {i \in DOMAIN dir : Used(i)}
NoEntries == [i \in 1 .. EntriesPerCluster |-> Entry(FREE_ALL, 0)]     \* a cluster of zeroes

\* A formatted volume: the root directory has one cluster and the clusters
\* after it are free.  The count may be unknown; files may have been deleted.
\* The hint is the next cluster, the last one allocated, or unknown.
FatFormatted ==
    /\ FAT = [c \in Clusters |-> IF c = RootCluster THEN FAT32_EOC_MARK ELSE Free]
    /\ \E count \in {CountOfClusters - 1, FAT32_UNKNOWN},
          hint \in {RootCluster + 1, RootCluster, FAT32_UNKNOWN} :
          FsInfo = [Free_Count |-> count, Nxt_Free |-> hint]
    /\ \E deleted \in Reserved .. EntriesPerCluster :
          dir = [i \in 1 .. EntriesPerCluster |->
                    Entry(IF i <= Reserved THEN VolumeLabel
                          ELSE IF i <= deleted THEN FREE_ENTRY ELSE FREE_ALL, 0)]

-----------------------------------------------------------------------------
(* Sectors and clusters.                                                   *)

IsCluster(c) == c \in Clusters
FirstSectorOfCluster(c) == (c - 2) * SectorsPerCluster + FirstDataSector
ClusterOfSector(s) == (s - FirstDataSector) \div SectorsPerCluster + 2

-----------------------------------------------------------------------------
(* _FirstFreeCluster.  The loop compares a sector of the volume with the   *)
(* number of sectors of a FAT, so it leaves out as many sectors at the end *)
(* of the FAT as there are reserved ones.  The FAT's first two entries     *)
(* are no clusters and never free.                                         *)

SectorIsSearched(c) == ReservedSectors + c \div FatEntriesPerSector < SectorsPerFat
SearchedFrom(first) == {c \in Clusters : c >= first /\ SectorIsSearched(c)}

\* STATUS_UNSUCCESSFUL: no sector was read.
SearchFails(first) == first < EntriesPerFat /\ ~SectorIsSearched(first)

\* Mutant. The first cluster is taken without looking whether it is free.
FirstFreeClusterUnchecked(first) ==
    IF SearchedFrom(first) = {} THEN 0 ELSE Min(SearchedFrom(first))

\* The first free cluster, or 0.
FirstFreeCluster(first) ==
    LET free == {c \in SearchedFrom(first) : FAT[c] = Free}
    IN  IF free = {} THEN 0 ELSE Min(free)

\* The loop of _AddNewClusterToChain that counts what is left.
FreeAfter(c) == Cardinality({d \in SearchedFrom(c + 1) : FAT[d] = Free})

-----------------------------------------------------------------------------
(* Directories.  The loops test for FREE_ALL after they moved on, so never *)
(* the first entry; past the last entry they read what lies behind the     *)
(* buffer, which makes no difference for a chain of one cluster.           *)

Visited(i) == \A j \in 2 .. i : dir[j].name # FREE_ALL

\* FatSearchDirectoryEntry: the first entry with this name, or 0.
FatSearch(name) ==
    LET found == {i \in UsedEntries : Visited(i) /\ dir[i].name = name}
    IN  IF found = {} THEN 0 ELSE Min(found)

\* FatQueryDirectory: the entries it lists.
FatQueryDirectory == {dir[i] : i \in {j \in UsedEntries : Visited(j)}}

\* GetDirEntryFromSector: the first entry with this first cluster, or 0.
GetDirEntryFromSector(cluster) ==
    LET found == {i \in UsedEntries : dir[i].cluster = cluster}
    IN  IF found = {} THEN 0 ELSE Min(found)

\* Step 4 of FatCreateDirectoryEntry: the first entry not in use, or 0.
FreeDirEntry ==
    LET free == {i \in Reserved + 1 .. EntriesPerCluster : ~Used(i)}
    IN  IF free = {} THEN 0 ELSE Min(free)

-----------------------------------------------------------------------------
(* Chains, for the properties.                                             *)

\* Where n links lead from cluster c.
Walk[n \in 0 .. CountOfClusters] ==
    IF n = 0 THEN [c \in Clusters |-> c]
    ELSE [c \in Clusters |-> LET d == Walk[n - 1][c] IN IF IsCluster(d) THEN FAT[d] ELSE d]

ChainOf(c) ==
    IF IsCluster(c) THEN {Walk[n][c] : n \in 0 .. CountOfClusters} \intersect Clusters ELSE {}
=============================================================================
