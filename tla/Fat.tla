-------------------------------- MODULE Fat ---------------------------------
(***************************************************************************)
(* The FAT32 file system: _FatDispatchCreate, _FatDispatchClose and        *)
(* _FatDispatchReadWrite of FAT32/src/fat32.c with FatCreateDirectoryEntry,*)
(* FatReadFile and FatWriteFile, called through IoCreateFile, IoCloseFile, *)
(* IoReadFile and IoWriteFile.                                             *)
(*                                                                         *)
(* IoCallDriver holds the DeviceLock of the file system around a dispatch  *)
(* function, so there is one request at a time (Storage checks this).      *)
(* One step is one write to the volume, with the reads before it.  The     *)
(* machine may lose power between two steps, and each access of the volume *)
(* may fail when memory for it is short.                                   *)
(***************************************************************************)
EXTENDS FatVolume

CONSTANTS Handles,        \* file objects callers may have open
          MaxOffset,      \* bound on the offset of a request, in sectors
          MaxLength,      \* bound on its length
          MaxFaults       \* bound on the faults

\* A creation that fails leaves FSI_Nxt_Free one further: with fewer faults than
\* it has values, it does not come round.
ASSUME FatBounds ==
    /\ MaxOffset \in Nat /\ MaxLength \in Nat \ {0} /\ MaxFaults \in Nat
    /\ MaxFaults + 1 < FAT32_UNKNOWN - EntriesPerFat - EntriesPerCluster

VARIABLES fcb,      \* handle -> first sector of its file; Closed; NoFcb; SectorZero
          request,  \* the request under the DeviceLock
          faults    \* history: how often power was lost or an access failed

vars == <<volumeVars, fcb, request, faults>>

Closed == -1
NoFcb == -2             \* a handle returned although there was no memory for the FCB
SectorZero == 0         \* one returned although the directory was not searched
Idle == [pc |-> "idle"]
Halted == [pc |-> "halted"]      \* an ASSERT of the driver failed

\* The root directory's own chain was taken for a file's.  What a directory of
\* arbitrary data leads to is not followed.
Astray == [pc |-> "astray"]

FatInit ==
    /\ FatFormatted
    /\ fcb = [h \in Handles |-> Closed] /\ request = Idle /\ faults = 0

Goto(l) == request' = [request EXCEPT !.pc = l]
Complete == request' = Idle
Fault == faults < MaxFaults /\ faults' = faults + 1

-----------------------------------------------------------------------------
(* IRP_MJ_CREATE.                                                          *)

\* FatSearch and the FCB.  Without memory for the FCB the status stays SUCCESS;
\* so it does without memory for the search, and any name is found at sector 0.
Open(h, name) ==
    LET i == FatSearch(name)
        ok == i # 0 /\ IsCluster(dir[i].cluster)
    IN  \/ ~ok /\ UNCHANGED <<fcb, faults>>
        \/ ok /\ fcb' = [fcb EXCEPT ![h] = FirstSectorOfCluster(dir[i].cluster)] /\ UNCHANGED faults
        \/ ok /\ fcb' = [fcb EXCEPT ![h] = NoFcb] /\ Fault
        \/ fcb' = [fcb EXCEPT ![h] = SectorZero] /\ Fault

IoOpenFile(h, name) ==
    /\ request = Idle /\ fcb[h] = Closed
    /\ Open(h, name)
    /\ UNCHANGED <<volumeVars, request>>

\* Step 2 of FatCreateDirectoryEntry: only SUCCESS says that the name is taken.
\* An entry without a cluster does not, nor does a search that could not read.
NameIsNotTaken(name) ==
    LET i == FatSearch(name)
        ok == i # 0 /\ IsCluster(dir[i].cluster)
    IN  \/ ~ok /\ UNCHANGED faults
        \/ ok /\ Fault

\* Mutant. The count goes down but the next free cluster stays.
CreateFsInfoSameCluster(h, name) ==
    /\ request = Idle /\ fcb[h] = Closed
    /\ NameIsNotTaken(name) /\ FreeDirEntry # 0 /\ FsInfo.Free_Count # 0
    /\ FsInfo' = [FsInfo EXCEPT !.Free_Count = @ - 1]
    /\ request' = [pc |-> "entry", handle |-> h, name |-> name,
                   index |-> FreeDirEntry, cluster |-> FsInfo.Nxt_Free]
    /\ UNCHANGED <<FAT, dir, fcb>>

\* Steps 1 to 9 of FatCreateDirectoryEntry up to the write of FSINFO.  The
\* cluster FSI_Nxt_Free is taken as it stands.
CreateFsInfo(h, name) ==
    /\ request = Idle /\ fcb[h] = Closed
    /\ NameIsNotTaken(name) /\ FreeDirEntry # 0 /\ FsInfo.Free_Count # 0
    /\ FsInfo' = [Free_Count |-> FsInfo.Free_Count - 1,
                  Nxt_Free |-> (FsInfo.Nxt_Free + 1) % (FAT32_UNKNOWN + 1)]
    /\ request' = [pc |-> "entry", handle |-> h, name |-> name,
                   index |-> FreeDirEntry, cluster |-> FsInfo.Nxt_Free]
    /\ UNCHANGED <<FAT, dir, fcb>>

\* The entry goes into the directory.
CreateEntry ==
    /\ request.pc = "entry"
    /\ dir' = [dir EXCEPT ![request.index] = Entry(request.name, request.cluster)]
    /\ Goto("contents")
    /\ UNCHANGED <<FAT, FsInfo, fcb, faults>>

\* Steps 10 and 11: the new cluster is zeroed, if there is such a cluster, be
\* it the directory's own.
CreateContents ==
    /\ request.pc = "contents"
    /\ \/ request.cluster = RootCluster /\ dir' = NoEntries /\ request' = Astray
       \/ IsCluster(request.cluster) /\ request.cluster # RootCluster /\ Goto("mark") /\ UNCHANGED dir
       \/ ~IsCluster(request.cluster) /\ Complete /\ UNCHANGED dir
    /\ UNCHANGED <<FAT, FsInfo, fcb, faults>>

\* Step 12: the end mark; then _FatDispatchCreate opens the file.
CreateMark ==
    /\ request.pc = "mark"
    /\ FAT' = [FAT EXCEPT ![request.cluster] = FAT32_EOC_MARK]
    /\ Open(request.handle, request.name)
    /\ Complete
    /\ UNCHANGED <<FsInfo, dir>>

-----------------------------------------------------------------------------
(* IRP_MJ_CLOSE, and requests on handles that lead to no file.             *)

IoCloseFile(h) ==
    /\ request = Idle /\ fcb[h] \notin {Closed, NoFcb}
    /\ fcb' = [fcb EXCEPT ![h] = Closed]
    /\ UNCHANGED <<volumeVars, request, faults>>

\* ASSERT(NULL != pFcb).
UseWithoutFcb(h) ==
    /\ request = Idle /\ fcb[h] = NoFcb
    /\ request' = Halted
    /\ UNCHANGED <<volumeVars, fcb, faults>>

\* ASSERT(0 != currentSector).  From a greater offset the seek fails before it.
UseOfSectorZero(h, offset) ==
    /\ request = Idle /\ fcb[h] = SectorZero /\ offset < SectorsPerCluster
    /\ request' = Halted
    /\ UNCHANGED <<volumeVars, fcb, faults>>

-----------------------------------------------------------------------------
(* IRP_MJ_READ and IRP_MJ_WRITE.                                           *)

\* Mutant. Where the request starts in its cluster is forgotten.
LinksFromClusterStart(offset, length) ==
    offset \div SectorsPerCluster + (length - 1) \div SectorsPerCluster

\* How many links lead to the cluster of the last sector.
Links(offset, length) == (offset + length - 1) \div SectorsPerCluster

\* The file sector has to be aligned, although FirstDataSector need not be.
FileSectorIsAligned(h) == fcb[h] % SectorsPerCluster = 0

\* A file whose first cluster is the root directory's: its data goes over the
\* entries, or to a cluster appended to the directory.
WriteToRoot(h, offset) ==
    /\ request = Idle /\ fcb[h] = FirstSectorOfCluster(RootCluster) /\ FileSectorIsAligned(h)
    /\ dir' = IF offset < SectorsPerCluster THEN NoEntries ELSE dir
    /\ request' = Astray
    /\ UNCHANGED <<FAT, FsInfo, fcb, faults>>

IoReadWriteFile(h, kind, offset, length) ==
    /\ request = Idle /\ fcb[h] \notin {Closed, NoFcb, SectorZero}
    /\ kind = "read" \/ fcb[h] # FirstSectorOfCluster(RootCluster) \/ ~FileSectorIsAligned(h)
    /\ request' = IF ~FileSectorIsAligned(h) THEN Halted
                  ELSE [pc |-> kind, base |-> fcb[h], cluster |-> ClusterOfSector(fcb[h]),
                        links |-> Links(offset, length), seek |-> offset \div SectorsPerCluster,
                        end |-> offset + length, new |-> 0]
    /\ UNCHANGED <<volumeVars, fcb, faults>>

\* NextClusterInChain puts the end mark where it finds a zero.
RepairEnd ==
    /\ request.pc \in {"read", "write"} /\ request.links > 0
    /\ FAT[request.cluster] = Free
    /\ FAT' = [FAT EXCEPT ![request.cluster] = FAT32_EOC_MARK]
    /\ UNCHANGED <<FsInfo, dir, fcb, request, faults>>

FollowLink ==
    /\ request.pc \in {"read", "write"} /\ request.links > 0
    /\ IsCluster(FAT[request.cluster])
    /\ request' = [request EXCEPT !.cluster = FAT[@], !.links = @ - 1, !.seek = @ - 1]
    /\ UNCHANGED <<volumeVars, fcb, faults>>

\* FatReadFile at the end of the chain: the data ends here; or the seek fails,
\* by the ASSERT when this was its last link.
ReadPastEnd ==
    /\ request.pc = "read" /\ request.links > 0
    /\ FAT[request.cluster] = FAT32_EOC_MARK
    /\ request' = IF request.seek = 1 THEN Halted ELSE Idle
    /\ UNCHANGED <<volumeVars, fcb, faults>>

\* _AddNewClusterToChain: FSINFO and the search.  When there is no cluster the
\* new FSINFO is written and the caller fails on cluster 0.
NoCluster ==
    LET first == FsInfo.Nxt_Free
        full == [Free_Count |-> 0, Nxt_Free |-> FAT32_UNKNOWN]
    IN  /\ request.pc = "write" /\ request.links > 0
        /\ FAT[request.cluster] = FAT32_EOC_MARK
        /\ \/ FsInfo.Free_Count = 0 /\ FsInfo' = full /\ Complete
           \/ FsInfo.Free_Count # 0 /\ SearchFails(first) /\ Complete /\ UNCHANGED FsInfo
           \/ /\ FsInfo.Free_Count # 0 /\ ~SearchFails(first) /\ FirstFreeCluster(first) = 0
              /\ \/ FsInfo.Free_Count = FAT32_UNKNOWN /\ FsInfo' = full /\ Complete
                 \/ FsInfo.Free_Count # FAT32_UNKNOWN /\ request' = Halted /\ UNCHANGED FsInfo
        /\ UNCHANGED <<FAT, dir, fcb, faults>>

\* The cluster found is marked as the end of a chain.
ReserveCluster ==
    LET found == FirstFreeCluster(FsInfo.Nxt_Free) IN
    /\ request.pc = "write" /\ request.links > 0
    /\ FAT[request.cluster] = FAT32_EOC_MARK
    /\ FsInfo.Free_Count # 0 /\ ~SearchFails(FsInfo.Nxt_Free) /\ found # 0
    /\ FAT' = [FAT EXCEPT ![found] = FAT32_EOC_MARK]
    /\ request' = [request EXCEPT !.pc = "link", !.new = found]
    /\ UNCHANGED <<FsInfo, dir, fcb, faults>>

\* It is linked to the chain.
LinkCluster ==
    /\ request.pc = "link"
    /\ FAT' = [FAT EXCEPT ![request.cluster] = request.new]
    /\ Goto("count")
    /\ UNCHANGED <<FsInfo, dir, fcb, faults>>

\* Mutant. A known count is not decremented.
WriteFsInfoNoCount ==
    /\ request.pc = "count"
    /\ FsInfo' = [Nxt_Free |-> request.new,
                  Free_Count |-> IF FsInfo.Free_Count = FAT32_UNKNOWN
                                 THEN FreeAfter(request.new) ELSE FsInfo.Free_Count]
    /\ request' = [request EXCEPT !.pc = "write", !.cluster = request.new,
                                  !.links = @ - 1, !.seek = @ - 1]
    /\ UNCHANGED <<FAT, dir, fcb, faults>>

\* FSINFO is written, and the caller goes on with the new cluster.
WriteFsInfo ==
    /\ request.pc = "count"
    /\ FsInfo' = [Nxt_Free |-> request.new,
                  Free_Count |-> IF FsInfo.Free_Count = FAT32_UNKNOWN
                                 THEN FreeAfter(request.new) ELSE FsInfo.Free_Count - 1]
    /\ request' = [request EXCEPT !.pc = "write", !.cluster = request.new,
                                  !.links = @ - 1, !.seek = @ - 1]
    /\ UNCHANGED <<FAT, dir, fcb, faults>>

\* Mutant. The size becomes the end of the last write.
FinishReadWriteShrinks ==
    LET i == GetDirEntryFromSector(ClusterOfSector(request.base)) IN
    /\ request.pc \in {"read", "write"} /\ request.links = 0
    /\ IF request.pc = "write" /\ i # 0
       THEN dir' = [dir EXCEPT ![i].size = request.end]
       ELSE UNCHANGED dir
    /\ Complete
    /\ UNCHANGED <<FAT, FsInfo, fcb, faults>>

\* All sectors are transferred.  The entry is found again by the first cluster;
\* after a write it gets the new size.
FinishReadWrite ==
    LET i == GetDirEntryFromSector(ClusterOfSector(request.base)) IN
    /\ request.pc \in {"read", "write"} /\ request.links = 0
    /\ IF request.pc = "write" /\ i # 0
       THEN dir' = [dir EXCEPT ![i].size = Max({@, request.end})]
       ELSE UNCHANGED dir
    /\ Complete
    /\ UNCHANGED <<FAT, FsInfo, fcb, faults>>

-----------------------------------------------------------------------------
(* Faults.                                                                 *)

PowerLoss ==
    /\ request \notin {Halted, Astray}
    /\ request' = Idle /\ fcb' = [h \in Handles |-> Closed] /\ Fault
    /\ UNCHANGED volumeVars

\* An access fails and so does the request, which leaves what it has written.
AccessFails ==
    /\ request.pc \in {"entry", "contents", "mark", "read", "write", "count"}
    /\ Complete /\ Fault
    /\ UNCHANGED <<volumeVars, fcb>>

\* _AddNewClusterToChain writes FSINFO back whatever happened, and the status
\* of that write hides the failure.  If FSINFO could not be read, zeroes are
\* written; without memory for it, ASSERT(NULL != Buffer) fails.  If it is the
\* FAT that could not be read, the caller goes on with the reserved cluster as
\* if it were linked, or with a count that is not finished.
AccessFailsUnnoticed ==
    /\ \/ /\ request.pc = "write" /\ request.links > 0 /\ FAT[request.cluster] = FAT32_EOC_MARK
          /\ \/ FsInfo' = [Free_Count |-> 0, Nxt_Free |-> 0] /\ Complete
             \/ request' = Halted /\ UNCHANGED FsInfo
       \/ /\ request.pc = "count" /\ FsInfo.Free_Count = FAT32_UNKNOWN
          /\ \E count \in 0 .. FreeAfter(request.new) :
                FsInfo' = [Nxt_Free |-> request.new, Free_Count |-> count]
          /\ request' = [request EXCEPT !.pc = "write", !.cluster = request.new,
                                        !.links = @ - 1, !.seek = @ - 1]
       \/ /\ request.pc = "link"
          /\ request' = [request EXCEPT !.pc = "write", !.cluster = request.new,
                                        !.links = @ - 1, !.seek = @ - 1]
          /\ UNCHANGED FsInfo
    /\ Fault
    /\ UNCHANGED <<FAT, dir, fcb>>

-----------------------------------------------------------------------------
FatNext ==
    \/ \E h \in Handles : IoCloseFile(h) \/ UseWithoutFcb(h)
    \/ \E h \in Handles, n \in Names : IoOpenFile(h, n) \/ CreateFsInfo(h, n)
    \/ \E h \in Handles, kind \in {"read", "write"}, o \in 0 .. MaxOffset, l \in 1 .. MaxLength :
          IoReadWriteFile(h, kind, o, l)
    \/ \E h \in Handles, o \in 0 .. MaxOffset : UseOfSectorZero(h, o) \/ WriteToRoot(h, o)
    \/ CreateEntry \/ CreateContents \/ CreateMark
    \/ RepairEnd \/ FollowLink \/ ReadPastEnd
    \/ NoCluster \/ ReserveCluster \/ LinkCluster \/ WriteFsInfo \/ FinishReadWrite
    \/ PowerLoss \/ AccessFails \/ AccessFailsUnnoticed

FatSpec == FatInit /\ [][FatNext]_vars

-----------------------------------------------------------------------------
(* Properties.                                                             *)

\* Whatever was interrupted or failed, every chain ends, and no link leads to a
\* cluster _FirstFreeCluster would hand out again: a cluster is marked before
\* it is linked.
ChainsEnd ==
    \A c \in Clusters :
        /\ ~IsCluster(Walk[CountOfClusters][c])
        /\ IsCluster(FAT[c]) => FAT[FAT[c]] # Free

\* The entry FatSearch finds for the name of another is one that can be opened.
IsHidden(i) ==
    LET j == FatSearch(dir[i].name) IN j # i /\ IsCluster(dir[j].cluster)

\* FatQueryDirectory lists every file, GetDirEntryFromSector, which FatWriteFile
\* uses to store the size, finds it by its first cluster, and FatSearch by its
\* name, unless FatCreateDirectoryEntry gave a name out twice: once for each
\* failed search, or because the first entry of the name has no cluster.
FilesAreFound ==
    request # Astray =>
        /\ \A i \in UsedEntries :
              dir[i] \in FatQueryDirectory /\ GetDirEntryFromSector(dir[i].cluster) = i
        /\ Cardinality({i \in UsedEntries : IsHidden(i)}) <= faults

\* As long as nothing failed, the size in the entry is covered by the chain, so
\* that FatReadFile never meets the end of the chain inside a file.
SizeIsCovered ==
    faults = 0 /\ request # Astray => \A i \in UsedEntries :
        dir[i].size <= SectorsPerCluster * Cardinality(ChainOf(dir[i].cluster))

\* As long as nothing failed, FSI_Free_Count promises no cluster that is not
\* there.  (_FirstFreeCluster need not find it: it searches only a part.)
FreeCountIsBacked ==
    faults = 0 /\ request = Idle /\ FsInfo.Free_Count <= CountOfClusters
        => FsInfo.Free_Count <= Cardinality({c \in Clusters : FAT[c] = Free})

\* FatWriteFile and _AddNewClusterToChain: what the volume claims, in the size of
\* a file and in the count of free clusters, is there.
ClaimsAreBacked == SizeIsCovered /\ FreeCountIsBacked

\* No request, failure or loss of power removes a file, moves it to another
\* first cluster or shrinks it, until FatCreateDirectoryEntry has taken the
\* cluster of the root directory for a file.
FilesPersist ==
    [][request' # Astray => \A i \in UsedEntries :
          /\ dir'[i].name = dir[i].name /\ dir'[i].cluster = dir[i].cluster
          /\ dir'[i].size >= dir[i].size]_vars

\* "we search for the cluster we can use to allocate for the new entry": the
\* chains of two files have no cluster in common.
FilesDoNotShareClusters ==
    \A i, j \in UsedEntries :
        i # j => ChainOf(dir[i].cluster) \intersect ChainOf(dir[j].cluster) = {}
=============================================================================
