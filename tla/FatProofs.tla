------------------------------ MODULE FatProofs -----------------------------
(***************************************************************************)
(* Proofs about the FAT32 file system, for every geometry of the volume    *)
(* and every number of names, handles and faults.                          *)
(***************************************************************************)
EXTENDS Fat, FiniteSetTheorems, WellFoundedInduction, TLAPS

-----------------------------------------------------------------------------
(* The inductive invariant.                                                *)

Creating == request.pc \in {"entry", "contents", "mark"}
Accessing == request.pc \in {"read", "write", "link", "count"}
Growing == request.pc \in {"link", "count"}       \* a cluster is reserved, FSINFO is not written
Link(c) == IsCluster(FAT[c])
FreeClusters == {c \in Clusters : FAT[c] = Free}
One(b) == IF b THEN 1 ELSE 0

\* The order in which FSI_Nxt_Free passes through its values.
Age(c) == IF c = FAT32_UNKNOWN THEN 0 ELSE c + 1

\* FatSearch finds the name in an entry that can be opened.
Taken(name) == FatSearch(name) # 0 /\ IsCluster(dir[FatSearch(name)].cluster)
Hidden == {i \in UsedEntries : IsHidden(i)}

FieldValues == 0 .. FAT32_UNKNOWN
EntryNames == Names \union {FREE_ALL, FREE_ENTRY, VolumeLabel}
FirstSectors ==
    {FirstSectorOfCluster(dir[i].cluster) : i \in {j \in UsedEntries : IsCluster(dir[j].cluster)}}

Creations == [pc : {"entry", "contents", "mark"}, handle : Handles, name : Names,
              index : Reserved + 1 .. EntriesPerCluster, cluster : FieldValues]
Accesses == [pc : {"read", "write", "link", "count"}, base : Int, cluster : Clusters,
             links : Nat, seek : Int, end : Nat \ {0}, new : {0} \union Clusters]

\* Every FCB but those of sector 0 and every access is about the first sector of
\* a file.
FatTypes ==
    /\ FAT \in [Clusters -> Clusters \union {Free, FAT32_EOC_MARK}]
    /\ FsInfo \in [Free_Count : FieldValues, Nxt_Free : FieldValues]
    /\ dir \in [1 .. EntriesPerCluster -> [name : EntryNames, cluster : FieldValues, size : Nat]]
    /\ fcb \in [Handles -> {Closed, NoFcb, SectorZero} \union FirstSectors]
    /\ request \in {Idle, Halted} \union Creations \union Accesses
    /\ Accessing => request.base \in FirstSectors
    /\ faults \in 0 .. MaxFaults

\* The files come one after the other behind the reserved entries, and none lies
\* behind a FREE_ALL.
DirectoryInv ==
    /\ \A i \in 1 .. Reserved : dir[i].name = VolumeLabel
    /\ \A i, j \in DOMAIN dir : i < j /\ dir[i].name = FREE_ALL => dir[j].name = FREE_ALL
    /\ \A i \in UsedEntries : \A j \in Reserved + 1 .. i : Used(j)
    /\ request.pc = "entry" =>
          /\ ~Used(request.index)
          /\ \A i \in 1 .. request.index - 1 : dir[i].name # FREE_ALL
          /\ \A i \in Reserved + 1 .. request.index - 1 : Used(i)
    /\ request.pc \in {"contents", "mark"} =>
          dir[request.index] = Entry(request.name, request.cluster)

\* A file is hidden by another only after a search that failed.
NamesInv == Cardinality(Hidden) + One(request.pc = "entry" /\ Taken(request.name)) <= faults

\* No two files have the same first cluster: FSI_Nxt_Free is behind all of them
\* as long as the count lets a file be created, and does not come round.
FirstClusterInv ==
    /\ \A i, j \in UsedEntries : dir[i].cluster = dir[j].cluster => i = j
    /\ request.pc = "entry" => \A i \in UsedEntries : dir[i].cluster # request.cluster
    /\ Growing => FsInfo.Free_Count # 0 /\ Age(request.new) >= Age(FsInfo.Nxt_Free)
    /\ FsInfo.Free_Count # 0 =>
          /\ \A i \in UsedEntries : Age(dir[i].cluster) < Age(FsInfo.Nxt_Free)
          /\ Creating => Age(request.cluster) < Age(FsInfo.Nxt_Free)
          /\ Age(FsInfo.Nxt_Free) <= EntriesPerFat + 1 + Cardinality(UsedEntries)
                                       + One(request.pc = "entry") + faults

\* The root directory stays one cluster: no request that writes is on it and no
\* chain leads to it.
RootInv ==
    /\ FAT[RootCluster] = FAT32_EOC_MARK
    /\ \A c \in Clusters : FAT[c] # RootCluster
    /\ request.pc \in {"write", "link"} => request.cluster # RootCluster
    /\ Growing => request.new # RootCluster

\* Every set of clusters has one whose link leaves the set.
Acyclic == \A S \in SUBSET Clusters : S # {} => \E c \in S : FAT[c] \notin S

ChainInv ==
    /\ Acyclic
    /\ \A c \in Clusters : Link(c) => FAT[FAT[c]] # Free
    /\ Growing => /\ IsCluster(request.new) /\ request.links > 0
                  /\ FAT[request.new] = FAT32_EOC_MARK /\ request.new # request.cluster
    /\ request.pc = "link" => FAT[request.cluster] = FAT32_EOC_MARK
    /\ request.pc = "count" => FAT[request.cluster] = request.new

\* k links of the table f lead from c to d.
IsPath(f, p, k) == \A i \in 1 .. k : f[p[i - 1]] = p[i]
Leads(f, c, k, d) == \E p \in [0 .. k -> Clusters] : p[0] = c /\ p[k] = d /\ IsPath(f, p, k)

\* The links to the last sector of a size.
LastLink(size) == (size - 1) \div SectorsPerCluster

\* The chain of a file reaches its last sector, and a request has come as far
\* along the chain as its count of links says.
SizeInv ==
    /\ \A i \in UsedEntries :
          dir[i].size > 0 => \E d \in Clusters : Leads(FAT, dir[i].cluster, LastLink(dir[i].size), d)
    /\ Accessing =>
          /\ request.links <= LastLink(request.end)
          /\ Leads(FAT, ClusterOfSector(request.base), LastLink(request.end) - request.links,
                   request.cluster)

\* The end mark of a new file cuts no chain: the cluster FSI_Nxt_Free has no link
\* and those behind it, but for the root directory's, are free.
MarkInv ==
    /\ FsInfo.Free_Count # 0 => \A c \in Clusters :
          /\ Age(c) > Age(FsInfo.Nxt_Free) /\ c # RootCluster
                => FAT[c] = Free \/ (Growing /\ c = request.new)
          /\ c = FsInfo.Nxt_Free /\ Link(c) => request.pc = "count"
    /\ Creating /\ IsCluster(request.cluster) => ~Link(request.cluster)
    /\ \A i \in UsedEntries :
          IsCluster(dir[i].cluster) /\ FAT[dir[i].cluster] = Free
             => request.pc \in {"contents", "mark"} /\ request.index = i
    /\ Accessing => FAT[request.cluster] # Free

\* FSI_Free_Count promises no more than is there; or it was counted down from
\* FAT32_UNKNOWN, by no more than the files and the clusters taken.
CountInv ==
    \/ FsInfo.Free_Count + One(Creating) - One(Growing) <= Cardinality(FreeClusters)
    \/ FsInfo.Free_Count + Cardinality(UsedEntries) + One(request.pc = "entry") + CountOfClusters
          - Cardinality(FreeClusters) >= FAT32_UNKNOWN + One(Growing)

ClaimInv == faults = 0 => SizeInv /\ MarkInv /\ CountInv

FatInv ==
    FatTypes /\ DirectoryInv /\ NamesInv /\ FirstClusterInv /\ RootInv /\ ChainInv /\ ClaimInv

\* What holds even where the root directory's chain was taken for a file's.
TableInv ==
    /\ FAT \in [Clusters -> Clusters \union {Free, FAT32_EOC_MARK}]
    /\ Acyclic /\ \A c \in Clusters : Link(c) => FAT[FAT[c]] # Free

VolumeInv == TableInv /\ (request # Astray => FatInv)

-----------------------------------------------------------------------------
(* Arithmetic and least elements.                                          *)

LEMMA LeastNatural ==
    ASSUME NEW S, S \subseteq Nat, S # {} PROVE Min(S) \in S /\ \A y \in S : Min(S) <= y
<1> DEFINE Less == {p \in Nat \X Nat : p[1] < p[2]}
<1>1. OpToRel(<, Nat) = Less
  BY Zenon DEF OpToRel
<1>2. IsWellFoundedOn(Less, Nat)
  BY <1>1, NatLessThanWellFounded, Zenon
<1>3. \A a, b \in Nat : a < b => <<a, b>> \in Less
  OBVIOUS
<1> HIDE DEF Less
<1>4. PICK x \in S : \A y \in S : ~(<<y, x>> \in Less)
  BY <1>2, WFMin
<1>5. ASSUME NEW y \in S PROVE x <= y
  <2>1. x \in Nat /\ y \in Nat
    OBVIOUS
  <2>2. ~(y < x)
    BY <1>3, <1>4, <2>1, Zenon
  <2> QED
    BY <2>1, <2>2
<1> QED
  BY <1>5 DEF Min

LEMMA MaxOfTwo ==
    ASSUME NEW a \in Int, NEW b \in Int
    PROVE  Max({a, b}) \in {a, b} /\ Max({a, b}) >= a /\ Max({a, b}) >= b
<1>1. \E x \in {a, b} : \A y \in {a, b} : x >= y
  OBVIOUS
<1> QED
  BY <1>1 DEF Max

LEMMA Geometry ==
    ASSUME FatAssumption
    PROVE  /\ CountOfClusters \in Nat \ {0} /\ SectorsPerCluster \in Nat \ {0}
           /\ FirstDataSector \in Nat \ {0}
           /\ Clusters \subseteq Nat /\ Free \notin Clusters /\ FAT32_EOC_MARK \notin Clusters
           /\ Free # FAT32_EOC_MARK
           /\ Clusters = 2 .. CountOfClusters + 1 /\ EntriesPerFat = CountOfClusters + 2
           /\ Clusters \subseteq FieldValues
           /\ IsFiniteSet(Clusters) /\ Cardinality(Clusters) = CountOfClusters
           /\ EntriesPerCluster \in Nat /\ EntriesPerCluster > 2 /\ Reserved = 2
           /\ FAT32_UNKNOWN \in Nat /\ FAT32_UNKNOWN > 2 * EntriesPerFat + EntriesPerCluster
<1>1. CountOfClusters \in Nat \ {0} /\ SectorsPerCluster \in Nat \ {0}
  BY DEF FatAssumption
<1>2. BPB_NumFATs * BPB_FATSz32 \in Nat
  BY DEF FatAssumption
<1>3. FirstDataSector \in Nat \ {0}
  BY <1>2 DEF FatAssumption, FirstDataSector
<1>4. Clusters \subseteq Nat /\ Free \notin Clusters /\ FAT32_EOC_MARK \notin Clusters
      /\ Free # FAT32_EOC_MARK
  BY <1>1 DEF Clusters, Free, FAT32_EOC_MARK
<1>5. IsFiniteSet(2 .. CountOfClusters + 1) /\ Cardinality(2 .. CountOfClusters + 1) = CountOfClusters
  <2>1. CountOfClusters + 1 \in Int /\ ~(2 > CountOfClusters + 1) /\ (CountOfClusters + 1) - 2 + 1 = CountOfClusters
    BY <1>1
  <2> QED
    BY <2>1, FS_Interval, 2 \in Int
<1>6. Clusters \subseteq FieldValues
  BY <1>1 DEF FatAssumption, EntriesPerFat, Clusters, FieldValues
<1> QED
  BY <1>1, <1>3, <1>4, <1>5, <1>6 DEF FatAssumption, EntriesPerFat, Clusters, Reserved

LEMMA SectorRoundTrip ==
    ASSUME FatAssumption, NEW c \in Int PROVE ClusterOfSector(FirstSectorOfCluster(c)) = c
<1>1. SectorsPerCluster \in Nat \ {0} /\ FirstDataSector \in Int
  BY Geometry
<1>2. ASSUME NEW a \in Int, NEW n \in Nat \ {0} PROVE (a * n) \div n = a
  OBVIOUS
<1>3. PICK x \in Int : x = (c - 2) * SectorsPerCluster
  BY <1>1
<1>4. FirstSectorOfCluster(c) - FirstDataSector = x
  BY <1>1, <1>3 DEF FirstSectorOfCluster
<1>5. x \div SectorsPerCluster = c - 2
  BY <1>1, <1>2, <1>3, c - 2 \in Int
<1> QED
  BY <1>4, <1>5 DEF ClusterOfSector

\* The last link of a size leads to the cluster of its last sector.
LEMMA LastLinkCovers ==
    ASSUME FatAssumption, NEW e \in Nat \ {0}
    PROVE  LastLink(e) \in Nat /\ e <= SectorsPerCluster * (LastLink(e) + 1)
<1>1. SectorsPerCluster \in Nat \ {0}
  BY Geometry
<1>2. ASSUME NEW x \in Nat, NEW n \in Nat \ {0}
      PROVE  x \div n \in Nat /\ x + 1 <= n * (x \div n + 1)
  OBVIOUS
<1>3. e - 1 \in Nat /\ e = (e - 1) + 1
  OBVIOUS
<1>4. PICK x \in Nat : x = e - 1
  BY <1>3
<1>5. x \div SectorsPerCluster \in Nat /\ x + 1 <= SectorsPerCluster * (x \div SectorsPerCluster + 1)
  BY <1>1, <1>2
<1> QED
  BY <1>3, <1>4, <1>5 DEF LastLink

-----------------------------------------------------------------------------
(* Chains.  A set of clusters that no link leaves would be a cycle.        *)

\* A path never comes back to a cluster.
LEMMA PathIsInjective ==
    ASSUME FatAssumption, Acyclic, NEW k \in Nat, NEW p \in [0 .. k -> Clusters], IsPath(FAT, p, k),
           NEW i \in 0 .. k, NEW j \in 0 .. k, i < j
    PROVE  p[i] # p[j]
<1> SUFFICES ASSUME p[i] = p[j] PROVE FALSE
  OBVIOUS
<1> DEFINE S == {p[m] : m \in i .. j - 1}
<1>1. S \in SUBSET Clusters /\ p[i] \in S
  OBVIOUS
<1>2. PICK c \in S : FAT[c] \notin S
  BY <1>1 DEF Acyclic
<1>3. PICK m \in i .. j - 1 : c = p[m]
  OBVIOUS
<1>4. m + 1 \in 1 .. k /\ m + 1 - 1 = m
  OBVIOUS
<1>5. FAT[c] = p[m + 1]
  <2>1. PICK n \in 1 .. k : n = m + 1 /\ n - 1 = m
    BY <1>4
  <2> QED
    BY <1>3, <2>1 DEF IsPath
<1>6. p[m + 1] \in S
  <2>1. CASE m + 1 = j
    BY <2>1, <1>1
  <2>2. CASE m + 1 # j
    <3>1. m + 1 \in i .. j - 1
      BY <2>2
    <3> QED
      BY <3>1
  <2> QED
    BY <2>1, <2>2
<1> QED
  BY <1>2, <1>5, <1>6

\* So it is no longer than there are clusters.
LEMMA PathIsShort ==
    ASSUME FatAssumption, Acyclic, NEW k \in Nat, NEW p \in [0 .. k -> Clusters], IsPath(FAT, p, k)
    PROVE  k < CountOfClusters
<1> SUFFICES ASSUME ~(k < CountOfClusters) PROVE FALSE
  OBVIOUS
<1>1. IsFiniteSet(Clusters) /\ Cardinality(Clusters) = CountOfClusters /\ CountOfClusters \in Nat
  BY Geometry
<1>2. IsFiniteSet(0 .. k) /\ Cardinality(0 .. k) = k + 1
  BY FS_Interval, 0 \in Int, k \in Int, ~(0 > k), k - 0 + 1 = k + 1
<1>3. Cardinality(Clusters) < Cardinality(0 .. k)
  BY <1>1, <1>2
<1>4. PICK x, y \in 0 .. k : x # y /\ p[x] = p[y]
  BY <1>1, <1>2, <1>3, FS_PigeonHole
<1>5. x < y \/ y < x
  BY <1>4
<1> QED
  BY <1>4, <1>5, PathIsInjective

\* The recursive function Walk exists: its equation has a solution on 0 .. m
\* for every m, or there would be a least m without one.
LEMMA WalkEquation ==
    ASSUME FatAssumption
    PROVE  /\ \A c \in Clusters : Walk[0][c] = c
           /\ \A n \in 1 .. CountOfClusters, c \in Clusters :
                 Walk[n][c] = IF IsCluster(Walk[n - 1][c]) THEN FAT[Walk[n - 1][c]] ELSE Walk[n - 1][c]
<1> DEFINE First == [c \in Clusters |-> c]
           Further(g) == [c \in Clusters |-> IF IsCluster(g[c]) THEN FAT[g[c]] ELSE g[c]]
           Solves(f, m) == f = [n \in 0 .. m |-> IF n = 0 THEN First ELSE Further(f[n - 1])]
           None == {m \in Nat : ~ \E f : Solves(f, m)}
<1>1. None = {}
  <2> SUFFICES ASSUME None # {} PROVE FALSE
    OBVIOUS
  <2>1. PICK m \in None : \A y \in None : m <= y
    BY LeastNatural, None \subseteq Nat
  <2>2. m \in Nat
    OBVIOUS
  <2>3. CASE m = 0
    <3>1. Solves([n \in 0 .. 0 |-> First], 0)
      <4> HIDE DEF First, Further
      <4> QED
        OBVIOUS
    <3> QED
      BY <2>3, <3>1
  <2>4. CASE m # 0
    <3>1. m - 1 \in Nat /\ ~(m <= m - 1)
      BY <2>2, <2>4
    <3>2. m - 1 \notin None
      BY <2>1, <3>1
    <3>3. PICK f : Solves(f, m - 1)
      BY <3>1, <3>2
    <3> DEFINE g == [n \in 0 .. m |-> IF n = m THEN Further(f[m - 1]) ELSE f[n]]
    <3>4. Solves(g, m)
      <4> HIDE DEF First, Further
      <4>1. \A n \in 0 .. m : g[n] = IF n = 0 THEN First ELSE Further(g[n - 1])
        <5> SUFFICES ASSUME NEW n \in 0 .. m PROVE g[n] = IF n = 0 THEN First ELSE Further(g[n - 1])
          OBVIOUS
        <5>1. CASE n = m
          BY <2>4, <5>1, <2>2
        <5>2. CASE n # m
          <6>1. n \in 0 .. m - 1
            BY <5>2, <2>2
          <6>2. f[n] = IF n = 0 THEN First ELSE Further(f[n - 1])
            BY <3>3, <6>1, Zenon
          <6>3. n # 0 => g[n - 1] = f[n - 1]
            BY <6>1, <2>2
          <6> QED
            BY <6>1, <6>2, <6>3, <5>2
        <5> QED
          BY <5>1, <5>2
      <4> QED
        BY <4>1, Zenon
    <3> QED
      BY <3>4
  <2> QED
    BY <2>3, <2>4
<1>2. CountOfClusters \in Nat
  BY Geometry
<1>3. \E f : Solves(f, CountOfClusters)
  BY <1>1, <1>2
<1>4. Walk = CHOOSE f : Solves(f, CountOfClusters)
  BY DEF Walk
<1>5. Solves(Walk, CountOfClusters)
  BY <1>3, <1>4, Zenon
<1>6. \A n \in 0 .. CountOfClusters : Walk[n] = IF n = 0 THEN First ELSE Further(Walk[n - 1])
  BY <1>5, Zenon
<1>7. Walk[0] = First /\ \A n \in 1 .. CountOfClusters : Walk[n] = Further(Walk[n - 1])
  <2> HIDE DEF First, Further
  <2>1. 0 \in 0 .. CountOfClusters /\ \A n \in 1 .. CountOfClusters : n \in 0 .. CountOfClusters /\ n # 0
    BY <1>2
  <2> QED
    BY <1>6, <2>1, Zenon
<1>8. \A c \in Clusters : Walk[0][c] = c
  BY <1>7
<1>9. ASSUME NEW n \in 1 .. CountOfClusters, NEW c \in Clusters
      PROVE  Walk[n][c] = IF IsCluster(Walk[n - 1][c]) THEN FAT[Walk[n - 1][c]] ELSE Walk[n - 1][c]
  <2>1. Walk[n] = Further(Walk[n - 1])
    BY <1>7, Zenon
  <2> QED
    BY <2>1, Zenon
<1> QED
  BY <1>8, <1>9, Zenon

\* Clusters that Walk meets are on a path.
LEMMA WalkIsPath ==
    ASSUME FatAssumption, NEW c \in Clusters, NEW k \in 0 .. CountOfClusters, IsCluster(Walk[k][c])
    PROVE  [i \in 0 .. k |-> Walk[i][c]] \in [0 .. k -> Clusters] /\ IsPath(FAT, [i \in 0 .. k |-> Walk[i][c]], k)
<1> DEFINE Off == {j \in 0 .. k : Walk[k - j][c] \notin Clusters}
<1>0. CountOfClusters \in Nat
  BY Geometry
<1>1. Off = {}
  <2> SUFFICES ASSUME Off # {} PROVE FALSE
    OBVIOUS
  <2>1. PICK j \in Off : \A y \in Off : j <= y
    BY LeastNatural, Off \subseteq Nat
  <2>2. j # 0
    BY <1>0 DEF IsCluster
  <2>3. j - 1 \in 0 .. k /\ ~(j <= j - 1) /\ k - (j - 1) = (k - j) + 1
    BY <2>2
  <2>4. Walk[(k - j) + 1][c] \in Clusters
    BY <2>1, <2>3
  <2>5. (k - j) + 1 \in 1 .. CountOfClusters /\ ((k - j) + 1) - 1 = k - j
    BY <1>0, <2>2
  <2>6. Walk[(k - j) + 1][c] = Walk[k - j][c]
    BY WalkEquation, <2>5 DEF IsCluster
  <2> QED
    BY <2>4, <2>6
<1>2. ASSUME NEW i \in 0 .. k PROVE Walk[i][c] \in Clusters
  <2>1. k - i \in 0 .. k /\ k - (k - i) = i
    BY <1>0
  <2> QED
    BY <1>1, <2>1
<1>3. ASSUME NEW i \in 1 .. k PROVE FAT[Walk[i - 1][c]] = Walk[i][c]
  <2>1. i - 1 \in 0 .. k /\ i \in 1 .. CountOfClusters
    BY <1>0
  <2> QED
    BY <1>2, <2>1, WalkEquation DEF IsCluster
<1>4. \A i \in 1 .. k : i \in 0 .. k /\ i - 1 \in 0 .. k
  BY <1>0
<1> QED
  BY <1>2, <1>3, <1>4 DEF IsPath

\* And Walk goes along every path.
LEMMA PathIsWalk ==
    ASSUME FatAssumption, NEW k \in 0 .. CountOfClusters, NEW p \in [0 .. k -> Clusters], IsPath(FAT, p, k)
    PROVE  \A i \in 0 .. k : Walk[i][p[0]] = p[i]
<1> DEFINE Off == {i \in 0 .. k : Walk[i][p[0]] # p[i]}
<1>0. CountOfClusters \in Nat
  BY Geometry
<1> SUFFICES ASSUME Off # {} PROVE FALSE
  OBVIOUS
<1>1. PICK i \in Off : \A y \in Off : i <= y
  BY LeastNatural, Off \subseteq Nat
<1>2. p[0] \in Clusters
  BY <1>0
<1>3. i # 0
  BY <1>1, <1>2, WalkEquation
<1>4. i - 1 \in 0 .. k /\ ~(i <= i - 1) /\ i \in 1 .. CountOfClusters /\ i \in 1 .. k
  BY <1>0, <1>3
<1>5. Walk[i - 1][p[0]] = p[i - 1]
  BY <1>1, <1>4
<1>6. Walk[i][p[0]] = FAT[p[i - 1]]
  BY <1>2, <1>4, <1>5, WalkEquation DEF IsCluster
<1>7. FAT[p[i - 1]] = p[i]
  BY <1>4 DEF IsPath
<1> QED
  BY <1>1, <1>6, <1>7

\* The clusters of a path belong to the chain of its first one.
LEMMA PathInChain ==
    ASSUME FatAssumption, Acyclic, NEW c \in Clusters, NEW k \in Nat, NEW d, Leads(FAT, c, k, d)
    PROVE  Cardinality(ChainOf(c)) \in Nat /\ k + 1 <= Cardinality(ChainOf(c))
<1>1. PICK p \in [0 .. k -> Clusters] : p[0] = c /\ IsPath(FAT, p, k)
  BY DEF Leads
<1>2. k \in 0 .. CountOfClusters
  <2>1. k < CountOfClusters
    BY <1>1, PathIsShort
  <2> QED
    BY <2>1, Geometry
<1>3. \A i \in 0 .. k : i \in 0 .. CountOfClusters
  BY <1>2, Geometry
<1>4. \A i \in 0 .. k : p[i] \in ChainOf(c)
  BY <1>1, <1>2, <1>3, PathIsWalk DEF ChainOf, IsCluster
<1>5. IsFiniteSet(ChainOf(c)) /\ Cardinality(ChainOf(c)) \in Nat
  <2>1. ChainOf(c) \in SUBSET Clusters
    BY DEF ChainOf
  <2> QED
    BY <2>1, FS_Subset, FS_CardinalityType, Geometry
<1>6. p \in [0 .. k -> ChainOf(c)]
  BY <1>4
<1>7. IsFiniteSet(0 .. k) /\ Cardinality(0 .. k) = k + 1
  BY FS_Interval, 0 \in Int, k \in Int, ~(0 > k), k - 0 + 1 = k + 1
<1>8. ~(Cardinality(ChainOf(c)) < k + 1)
  <2> SUFFICES ASSUME Cardinality(ChainOf(c)) < k + 1 PROVE FALSE
    OBVIOUS
  <2>0. Cardinality(ChainOf(c)) < Cardinality(0 .. k)
    BY <1>7
  <2>1. PICK x, y \in 0 .. k : x # y /\ p[x] = p[y]
    <3> HIDE DEF ChainOf
    <3> QED
      BY <1>5, <1>6, <1>7, <2>0, FS_PigeonHole
  <2>2. x < y \/ y < x
    BY <2>1
  <2> QED
    BY <1>1, <2>1, <2>2, PathIsInjective
<1> QED
  BY <1>5, <1>8

-----------------------------------------------------------------------------
(* The searches of the driver.                                             *)

LEMMA Searched ==
    ASSUME NEW S, S \subseteq Nat \ {0}, NEW i, i = IF S = {} THEN 0 ELSE Min(S)
    PROVE  /\ i = 0 <=> S = {}
           /\ i # 0 => i \in S /\ \A j \in S : i <= j
<1>1. S # {} => Min(S) \in S /\ \A j \in S : Min(S) <= j
  BY LeastNatural
<1> QED
  BY <1>1

LEMMA FirstFreeClusterIsFree ==
    ASSUME FatAssumption, NEW f \in Nat, FirstFreeCluster(f) # 0
    PROVE  LET c == FirstFreeCluster(f) IN IsCluster(c) /\ c >= f /\ FAT[c] = Free
<1> DEFINE free == {c \in SearchedFrom(f) : FAT[c] = Free}
<1>1. free \subseteq Nat \ {0}
  BY Geometry, 0 \notin Clusters DEF SearchedFrom, Clusters
<1>2. FirstFreeCluster(f) = IF free = {} THEN 0 ELSE Min(free)
  BY DEF FirstFreeCluster
<1>3. FirstFreeCluster(f) \in free
  <2> HIDE DEF free
  <2> QED
    BY <1>1, <1>2, Searched
<1> QED
  BY <1>3 DEF SearchedFrom, IsCluster

LEMMA DirectoryType ==
    ASSUME FatAssumption, FatTypes
    PROVE  /\ DOMAIN dir = 1 .. EntriesPerCluster /\ UsedEntries \subseteq Nat \ {0}
           /\ \A i \in DOMAIN dir : /\ dir[i].name \in EntryNames /\ dir[i].cluster \in FieldValues
                                    /\ dir[i].size \in Nat
                                    /\ dir[i] \in [name : EntryNames, cluster : FieldValues, size : Nat]
           /\ IsFiniteSet(UsedEntries) /\ Cardinality(UsedEntries) \in Nat
           /\ Cardinality(UsedEntries) <= EntriesPerCluster
<1>1. DOMAIN dir = 1 .. EntriesPerCluster
  BY DEF FatTypes
<1>2. \A i \in DOMAIN dir : dir[i] \in [name : EntryNames, cluster : FieldValues, size : Nat]
  BY DEF FatTypes
<1>3. UsedEntries \in SUBSET (1 .. EntriesPerCluster)
  BY <1>1 DEF UsedEntries
<1>4. IsFiniteSet(1 .. EntriesPerCluster) /\ Cardinality(1 .. EntriesPerCluster) = EntriesPerCluster
  BY FS_Interval, Geometry
<1>5. /\ IsFiniteSet(UsedEntries) /\ Cardinality(UsedEntries) \in Nat
      /\ Cardinality(UsedEntries) <= EntriesPerCluster
  <2>1. IsFiniteSet(UsedEntries) /\ Cardinality(UsedEntries) <= Cardinality(1 .. EntriesPerCluster)
    BY <1>3, <1>4, FS_Subset
  <2>2. Cardinality(UsedEntries) \in Nat
    BY <2>1, FS_CardinalityType
  <2> QED
    BY <1>4, <2>1, <2>2
<1> QED
  BY <1>1, <1>2, <1>3, <1>5

\* In a directory without FREE_ALL in front of a file the loops visit every file.
LEMMA UsedIsVisited ==
    ASSUME FatAssumption, FatTypes, DirectoryInv, NEW i \in UsedEntries
    PROVE  Visited(i)
<1>1. DOMAIN dir = 1 .. EntriesPerCluster /\ i \in DOMAIN dir /\ dir[i].name # FREE_ALL
  BY DirectoryType DEF UsedEntries, Used
<1>2. ASSUME NEW j \in 2 .. i PROVE dir[j].name # FREE_ALL
  <2>1. j \in DOMAIN dir /\ (j < i \/ j = i)
    BY <1>1
  <2> QED
    BY <1>1, <2>1 DEF DirectoryInv
<1> QED
  BY <1>2 DEF Visited

LEMMA FatSearchFinds ==
    ASSUME FatAssumption, FatTypes, DirectoryInv, NEW name
    PROVE  /\ FatSearch(name) = 0 <=> \A i \in UsedEntries : dir[i].name # name
           /\ FatSearch(name) # 0 =>
                 /\ FatSearch(name) \in UsedEntries /\ dir[FatSearch(name)].name = name
                 /\ \A i \in UsedEntries : dir[i].name = name => FatSearch(name) <= i
<1> DEFINE found == {i \in UsedEntries : Visited(i) /\ dir[i].name = name}
<1>1. found \subseteq Nat \ {0}
  BY DirectoryType
<1>2. FatSearch(name) = IF found = {} THEN 0 ELSE Min(found)
  BY DEF FatSearch
<1>3. /\ FatSearch(name) = 0 <=> found = {}
      /\ FatSearch(name) # 0 => FatSearch(name) \in found /\ \A i \in found : FatSearch(name) <= i
  <2> HIDE DEF found
  <2> QED
    BY <1>1, <1>2, Searched
<1>4. \A i \in UsedEntries : dir[i].name = name => i \in found
  BY UsedIsVisited
<1>5. found = {} <=> \A i \in UsedEntries : dir[i].name # name
  BY <1>4
<1> QED
  BY <1>3, <1>4, <1>5

\* The same after a step.
LEMMA FatSearchFindsNext ==
    ASSUME FatAssumption, DOMAIN dir' = 1 .. EntriesPerCluster, DirectoryInv', NEW name
    PROVE  /\ FatSearch(name)' = 0 <=> \A i \in UsedEntries' : dir'[i].name # name
           /\ FatSearch(name)' # 0 =>
                 /\ FatSearch(name)' \in UsedEntries' /\ dir'[FatSearch(name)'].name = name
                 /\ \A i \in UsedEntries' : dir'[i].name = name => FatSearch(name)' <= i
<1> DEFINE found == {i \in UsedEntries' : Visited(i)' /\ dir'[i].name = name}
<1>1. UsedEntries' \subseteq 1 .. EntriesPerCluster /\ EntriesPerCluster \in Nat
  BY Geometry DEF UsedEntries
<1>2. found \subseteq Nat \ {0}
  <2>1. 1 .. EntriesPerCluster \subseteq Nat \ {0}
    BY <1>1
  <2> QED
    BY <1>1, <2>1
<1>3. FatSearch(name)' = IF found = {} THEN 0 ELSE Min(found)
  BY DEF FatSearch
<1>4. /\ FatSearch(name)' = 0 <=> found = {}
      /\ FatSearch(name)' # 0 => FatSearch(name)' \in found /\ \A i \in found : FatSearch(name)' <= i
  <2> HIDE DEF found
  <2> QED
    BY <1>2, <1>3, Searched
<1>5. ASSUME NEW i \in UsedEntries' PROVE Visited(i)'
  <2>1. i \in 1 .. EntriesPerCluster /\ dir'[i].name # FREE_ALL
    BY <1>1 DEF UsedEntries, Used
  <2>2. ASSUME NEW j \in 2 .. i PROVE dir'[j].name # FREE_ALL
    <3>1. j \in DOMAIN dir' /\ i \in DOMAIN dir' /\ (j < i \/ j = i)
      BY <1>1, <2>1
    <3> QED
      BY <2>1, <3>1 DEF DirectoryInv
  <2> QED
    BY <2>2 DEF Visited
<1>6. \A i \in UsedEntries' : dir'[i].name = name => i \in found
  BY <1>5
<1>7. found = {} <=> \A i \in UsedEntries' : dir'[i].name # name
  BY <1>6
<1> QED
  BY <1>4, <1>6, <1>7

LEMMA EntryOfSector ==
    ASSUME FatAssumption, FatTypes, NEW c
    PROVE  /\ GetDirEntryFromSector(c) = 0 <=> \A i \in UsedEntries : dir[i].cluster # c
           /\ GetDirEntryFromSector(c) # 0 =>
                 GetDirEntryFromSector(c) \in UsedEntries /\ dir[GetDirEntryFromSector(c)].cluster = c
<1> DEFINE found == {i \in UsedEntries : dir[i].cluster = c}
<1>1. found \subseteq Nat \ {0}
  BY DirectoryType
<1>2. GetDirEntryFromSector(c) = IF found = {} THEN 0 ELSE Min(found)
  BY DEF GetDirEntryFromSector
<1>3. /\ GetDirEntryFromSector(c) = 0 <=> found = {}
      /\ GetDirEntryFromSector(c) # 0 => GetDirEntryFromSector(c) \in found
  <2> HIDE DEF found
  <2> QED
    BY <1>1, <1>2, Searched
<1> QED
  BY <1>3

LEMMA FreeDirEntryIsFree ==
    ASSUME FatAssumption, FatTypes, FreeDirEntry # 0
    PROVE  /\ FreeDirEntry \in Reserved + 1 .. EntriesPerCluster /\ ~Used(FreeDirEntry)
           /\ \A i \in Reserved + 1 .. FreeDirEntry - 1 : Used(i)
<1> DEFINE free == {i \in Reserved + 1 .. EntriesPerCluster : ~Used(i)}
<1>1. free \subseteq Nat \ {0}
  BY DEF Reserved
<1>2. FreeDirEntry = IF free = {} THEN 0 ELSE Min(free)
  BY DEF FreeDirEntry
<1>3. FreeDirEntry \in free /\ \A j \in free : FreeDirEntry <= j
  <2> HIDE DEF free
  <2> QED
    BY <1>1, <1>2, Searched
<1>4. ASSUME NEW i \in Reserved + 1 .. FreeDirEntry - 1 PROVE Used(i)
  <2>1. FreeDirEntry \in Nat /\ FreeDirEntry <= EntriesPerCluster /\ Reserved = 2
    BY <1>3 DEF Reserved
  <2>2. i \in Reserved + 1 .. EntriesPerCluster /\ ~(FreeDirEntry <= i)
    BY <2>1, Geometry
  <2>3. i \notin free
    BY <1>3, <2>2, Zenon
  <2> QED
    BY <2>2, <2>3
<1> QED
  BY <1>3, <1>4

\* The fields of a request go with its step.
LEMMA RequestKinds ==
    ASSUME FatTypes
    PROVE  /\ Creating => request \in Creations /\ ~Accessing
           /\ Accessing => request \in Accesses /\ ~Creating
           /\ request \in {Idle, Halted} => ~Creating /\ ~Accessing
           /\ Growing => Accessing
<1>1. request \in {Idle, Halted} => ~Creating /\ ~Accessing
  BY DEF Idle, Halted, Creating, Accessing
<1>2. request \in Creations => Creating /\ ~Accessing
  BY DEF Creations, Creating, Accessing
<1>3. request \in Accesses => ~Creating /\ Accessing
  BY DEF Accesses, Creating, Accessing
<1>4. Growing => Accessing
  BY DEF Growing, Accessing
<1> QED
  BY <1>1, <1>2, <1>3, <1>4 DEF FatTypes

\* The names of files are no marks.
LEMMA NamesAreUsed ==
    ASSUME FatAssumption
    PROVE  /\ \A n \in Names : n \notin {FREE_ALL, FREE_ENTRY, VolumeLabel}
           /\ VolumeLabel # FREE_ALL /\ FREE_ENTRY # FREE_ALL /\ VolumeLabel # FREE_ENTRY
<1>1. \A n \in Names : n \notin {FREE_ALL, FREE_ENTRY, VolumeLabel}
  BY Zenon DEF FatAssumption
<1>2. VolumeLabel # FREE_ALL /\ FREE_ENTRY # FREE_ALL /\ VolumeLabel # FREE_ENTRY
  BY DEF FREE_ALL, FREE_ENTRY, VolumeLabel
<1> QED
  BY <1>1, <1>2

-----------------------------------------------------------------------------
(* What a step does to the directory: CreateEntry fills an entry that was  *)
(* not in use, FinishReadWrite lets a size grow, the others leave it alone.*)

\* The files have the names, the first clusters and at least the sizes they had.
SameFiles ==
    /\ dir' \in [DOMAIN dir -> [name : EntryNames, cluster : FieldValues, size : Nat]]
    /\ \A i \in DOMAIN dir : /\ dir'[i].name = dir[i].name /\ dir'[i].cluster = dir[i].cluster
                             /\ dir'[i].size \in Nat /\ dir'[i].size >= dir[i].size

LEMMA SameFilesStay ==
    ASSUME SameFiles PROVE UsedEntries' = UsedEntries /\ FirstSectors' = FirstSectors
<1>1. UsedEntries' = UsedEntries
  BY DEF SameFiles, UsedEntries, Used
<1>2. \A i \in UsedEntries : dir'[i].cluster = dir[i].cluster
  BY DEF SameFiles, UsedEntries
<1> QED
  BY <1>1, <1>2 DEF FirstSectors, IsCluster, FirstSectorOfCluster

LEMMA UnchangedFiles ==
    ASSUME FatAssumption, FatTypes, UNCHANGED dir PROVE SameFiles
BY DirectoryType DEF SameFiles, FatTypes

LEMMA FinishKeepsFiles ==
    ASSUME FatAssumption, FatTypes, FinishReadWrite
    PROVE  /\ SameFiles
           /\ request.pc \in {"read", "write"} /\ request.links = 0 /\ request' = Idle
           /\ \A i \in DOMAIN dir :
                 dir'[i].size = dir[i].size \/ (dir'[i].size = request.end
                                                /\ dir[i].cluster = ClusterOfSector(request.base))
<1>1. request.pc \in {"read", "write"} /\ request.links = 0 /\ request' = Idle
  BY DEF FinishReadWrite, Complete
<1>2. request \in Accesses /\ request.end \in Nat
  <2>1. request \in Accesses
    BY <1>1, RequestKinds DEF Accessing
  <2> QED
    BY <2>1 DEF Accesses
<1> DEFINE i == GetDirEntryFromSector(ClusterOfSector(request.base))
<1>3. CASE UNCHANGED dir
  BY <1>1, <1>3, UnchangedFiles
<1>4. CASE i # 0 /\ dir' = [dir EXCEPT ![i].size = Max({@, request.end})]
  <2>1. i \in DOMAIN dir /\ dir[i].cluster = ClusterOfSector(request.base)
    BY <1>4, EntryOfSector DEF UsedEntries
  <2> HIDE DEF i
  <2>2. dir[i].size \in Nat /\ dir[i] \in [name : EntryNames, cluster : FieldValues, size : Nat]
    BY <2>1, DirectoryType
  <2>3. PICK m : m = Max({dir[i].size, request.end})
    OBVIOUS
  <2>4. m \in {dir[i].size, request.end} /\ m >= dir[i].size
    <3>1. PICK s \in Int, e \in Int : s = dir[i].size /\ e = request.end
      BY <1>2, <2>2
    <3>2. Max({s, e}) \in {s, e} /\ Max({s, e}) >= s
      BY MaxOfTwo
    <3> QED
      BY <2>3, <3>1, <3>2
  <2>5. m \in Nat
    BY <1>2, <2>2, <2>4
  <2>6. dir' = [dir EXCEPT ![i] = [dir[i] EXCEPT !.size = m]]
    BY <1>4, <2>3
  <2>7. SameFiles
    <3>1. /\ [dir[i] EXCEPT !.size = m] \in [name : EntryNames, cluster : FieldValues, size : Nat]
          /\ [dir[i] EXCEPT !.size = m].name = dir[i].name
          /\ [dir[i] EXCEPT !.size = m].cluster = dir[i].cluster
          /\ [dir[i] EXCEPT !.size = m].size = m
      BY <2>2, <2>5
    <3>2. DOMAIN dir' = DOMAIN dir /\ dir'[i] = [dir[i] EXCEPT !.size = m]
          /\ \A j \in DOMAIN dir : j # i => dir'[j] = dir[j]
      BY <2>1, <2>6
    <3>3. \A j \in DOMAIN dir : j # i => /\ dir[j].size \in Nat
                                         /\ dir[j] \in [name : EntryNames, cluster : FieldValues, size : Nat]
      BY DirectoryType
    <3>4. dir' \in [DOMAIN dir -> [name : EntryNames, cluster : FieldValues, size : Nat]]
      BY <2>1, <2>6, <3>1, <3>3
    <3> QED
      BY <2>1, <2>4, <2>5, <3>1, <3>2, <3>3, <3>4 DEF SameFiles
  <2>8. \A j \in DOMAIN dir : dir'[j].size = dir[j].size
                              \/ (j = i /\ dir'[j].size = request.end)
    BY <2>1, <2>2, <2>4, <2>6
  <2> QED
    BY <1>1, <2>1, <2>7, <2>8
<1> QED
  BY <1>3, <1>4 DEF FinishReadWrite

LEMMA CreateEntryAddsFile ==
    ASSUME FatAssumption, FatTypes, DirectoryInv, CreateEntry
    PROVE  /\ request \in Creations /\ request.pc = "entry"
           /\ request' = [request EXCEPT !.pc = "contents"]
           /\ request.index \in DOMAIN dir /\ request.index \notin UsedEntries
           /\ dir' = [dir EXCEPT ![request.index] = Entry(request.name, request.cluster)]
           /\ UsedEntries' = UsedEntries \union {request.index}
           /\ FirstSectors \subseteq FirstSectors'
<1>1. request \in Creations /\ request.pc = "entry"
  BY RequestKinds DEF CreateEntry, Creating
<1>2. DOMAIN dir = 1 .. EntriesPerCluster
  BY DirectoryType
<1>3. request.index \in DOMAIN dir /\ request.name \in Names
  BY <1>1, <1>2, Geometry DEF Creations
<1>4. request.index \notin UsedEntries
  BY <1>1 DEF DirectoryInv, UsedEntries
<1>5. dir' = [dir EXCEPT ![request.index] = Entry(request.name, request.cluster)]
  BY DEF CreateEntry
<1>6. request' = [request EXCEPT !.pc = "contents"]
  BY DEF CreateEntry, Goto
<1>7. dir'[request.index].name = request.name
  BY <1>3, <1>5 DEF Entry
<1>8. Used(request.index)'
  BY <1>6, <1>3, <1>7, NamesAreUsed DEF Used
<1>9. UsedEntries' = UsedEntries \union {request.index}
  <2>1. DOMAIN dir' = DOMAIN dir
    BY <1>5
  <2>2. \A i \in DOMAIN dir : i # request.index => dir'[i] = dir[i]
    BY <1>5
  <2>3. request.index \in DOMAIN dir' /\ dir'[request.index].name \notin {FREE_ALL, FREE_ENTRY, VolumeLabel}
    BY <1>3, <1>7, <2>1, NamesAreUsed
  <2> QED
    BY <1>3, <2>1, <2>2, <2>3 DEF UsedEntries, Used
<1>10. FirstSectors \subseteq FirstSectors'
  <2>1. \A i \in UsedEntries : i \in UsedEntries' /\ dir'[i] = dir[i]
    BY <1>4, <1>5, <1>9 DEF UsedEntries
  <2> QED
    BY <2>1 DEF FirstSectors, IsCluster, FirstSectorOfCluster
<1> QED
  BY <1>1, <1>3, <1>4, <1>5, <1>6, <1>9, <1>10

\* Only these two write to the directory.
LEMMA DirectorySteps ==
    ASSUME FatNext, request' # Astray PROVE CreateEntry \/ FinishReadWrite \/ UNCHANGED dir
BY DEF FatNext, IoCloseFile, UseWithoutFcb, UseOfSectorZero, WriteToRoot, IoOpenFile, CreateFsInfo,
       IoReadWriteFile, CreateContents, CreateMark, RepairEnd, FollowLink, ReadPastEnd, NoCluster,
       ReserveCluster, LinkCluster, WriteFsInfo, PowerLoss, AccessFails, AccessFailsUnnoticed,
       volumeVars

\* Every file keeps its name and its first cluster and does not shrink.
LEMMA FilesStay ==
    ASSUME FatAssumption, FatTypes, DirectoryInv, FatNext, request' # Astray
    PROVE  /\ \A i \in UsedEntries : /\ i \in UsedEntries' /\ dir'[i].name = dir[i].name
                                     /\ dir'[i].cluster = dir[i].cluster /\ dir'[i].size >= dir[i].size
           /\ FirstSectors \subseteq FirstSectors'
<1>1. CASE CreateEntry
  <2>1. \A i \in UsedEntries : i \in UsedEntries' /\ dir'[i] = dir[i] /\ dir[i].size \in Nat
    BY <1>1, CreateEntryAddsFile, DirectoryType DEF UsedEntries
  <2> QED
    BY <1>1, <2>1, CreateEntryAddsFile
<1>2. CASE SameFiles
  BY <1>2, SameFilesStay DEF SameFiles, UsedEntries
<1> QED
  BY <1>1, <1>2, DirectorySteps, UnchangedFiles, FinishKeepsFiles

-----------------------------------------------------------------------------
(* Types.                                                                  *)

LEMMA CardinalityOfClusters ==
    ASSUME FatAssumption, NEW S \in SUBSET Clusters
    PROVE  IsFiniteSet(S) /\ Cardinality(S) \in Nat /\ Cardinality(S) <= CountOfClusters
<1>1. IsFiniteSet(S) /\ Cardinality(S) <= Cardinality(Clusters)
  BY Geometry, FS_Subset
<1> QED
  BY <1>1, Geometry, FS_CardinalityType

\* The actions that write to the FAT and to FSINFO.
LEMMA FatSteps ==
    ASSUME FatNext
    PROVE  CreateMark \/ RepairEnd \/ ReserveCluster \/ LinkCluster \/ UNCHANGED FAT
BY DEF FatNext, IoCloseFile, UseWithoutFcb, UseOfSectorZero, WriteToRoot, IoOpenFile, CreateFsInfo,
       IoReadWriteFile, CreateEntry, CreateContents, FollowLink, ReadPastEnd, NoCluster, WriteFsInfo,
       FinishReadWrite, PowerLoss, AccessFails, AccessFailsUnnoticed, volumeVars

LEMMA FsInfoSteps ==
    ASSUME FatNext
    PROVE  \/ \E h \in Handles, n \in Names : CreateFsInfo(h, n)
           \/ NoCluster \/ WriteFsInfo \/ AccessFailsUnnoticed \/ UNCHANGED FsInfo
BY DEF FatNext, IoCloseFile, UseWithoutFcb, UseOfSectorZero, WriteToRoot, IoOpenFile, IoReadWriteFile,
       CreateEntry, CreateContents, CreateMark, RepairEnd, FollowLink, ReadPastEnd, ReserveCluster,
       LinkCluster, FinishReadWrite, PowerLoss, AccessFails, volumeVars

\* A request in the loops of FatReadFile and FatWriteFile.
LEMMA AccessFields ==
    ASSUME FatTypes, Accessing
    PROVE  /\ request \in Accesses /\ request.cluster \in Clusters /\ request.links \in Nat
           /\ request.end \in Nat \ {0} /\ request.new \in {0} \union Clusters
           /\ FAT[request.cluster] \in Clusters \union {Free, FAT32_EOC_MARK}
<1>1. request \in Accesses
  BY RequestKinds
<1>2. request.cluster \in Clusters
  BY <1>1 DEF Accesses
<1> QED
  BY <1>1, <1>2 DEF Accesses, FatTypes

LEMMA CreationFields ==
    ASSUME FatTypes, Creating
    PROVE  /\ request \in Creations /\ request.cluster \in FieldValues /\ request.handle \in Handles
           /\ request.name \in Names /\ request.index \in Reserved + 1 .. EntriesPerCluster
           /\ request.index \in DOMAIN dir
<1>1. request \in Creations
  BY RequestKinds
<1> QED
  BY <1>1 DEF Creations, FatTypes, Reserved

LEMMA TypeOfFat ==
    ASSUME FatAssumption, FatTypes, FatNext, request' # Astray
    PROVE  FAT' \in [Clusters -> Clusters \union {Free, FAT32_EOC_MARK}]
<1>0. FAT \in [Clusters -> Clusters \union {Free, FAT32_EOC_MARK}]
  BY DEF FatTypes
<1>1. CASE CreateMark \/ RepairEnd \/ ReserveCluster
  BY <1>0, <1>1 DEF CreateMark, RepairEnd, ReserveCluster
<1>2. CASE LinkCluster /\ IsCluster(request.new)
  BY <1>0, <1>2 DEF LinkCluster, IsCluster
<1>3. CASE LinkCluster /\ ~IsCluster(request.new)
  <2>1. Accessing
    BY <1>3 DEF LinkCluster, Accessing
  <2>2. request.new = 0
    BY <1>3, <2>1, AccessFields DEF IsCluster
  <2> QED
    BY <1>0, <1>3, <2>2 DEF LinkCluster, Free
<1>4. CASE UNCHANGED FAT
  BY <1>0, <1>4
<1> QED
  BY <1>1, <1>2, <1>3, <1>4, FatSteps

LEMMA TypeOfFsInfo ==
    ASSUME FatAssumption, FatTypes, FirstClusterInv, FatNext, request' # Astray
    PROVE  FsInfo' \in [Free_Count : FieldValues, Nxt_Free : FieldValues]
<1>0. FsInfo \in [Free_Count : FieldValues, Nxt_Free : FieldValues]
      /\ FsInfo.Free_Count \in FieldValues /\ FsInfo.Nxt_Free \in FieldValues
  BY DEF FatTypes
<1>g. 0 \in FieldValues /\ FAT32_UNKNOWN \in FieldValues /\ FAT32_UNKNOWN \in Nat
      /\ \A x \in FieldValues : x # 0 => x - 1 \in FieldValues
  BY Geometry DEF FieldValues
<1>1. ASSUME NEW h \in Handles, NEW n \in Names, CreateFsInfo(h, n)
      PROVE  FsInfo' \in [Free_Count : FieldValues, Nxt_Free : FieldValues]
  <2>1. FsInfo.Free_Count - 1 \in FieldValues
    BY <1>0, <1>1, <1>g DEF CreateFsInfo
  <2>2. (FsInfo.Nxt_Free + 1) % (FAT32_UNKNOWN + 1) \in FieldValues
    <3>1. FsInfo.Nxt_Free + 1 \in Nat /\ FAT32_UNKNOWN + 1 \in Nat \ {0}
      BY <1>0, <1>g DEF FieldValues
    <3>2. ASSUME NEW a \in Nat, NEW b \in Nat \ {0} PROVE a % b \in 0 .. b - 1
      OBVIOUS
    <3>3. (FsInfo.Nxt_Free + 1) % (FAT32_UNKNOWN + 1) \in 0 .. (FAT32_UNKNOWN + 1) - 1
      BY <3>1, <3>2
    <3> QED
      BY <3>3, <1>g DEF FieldValues
  <2> QED
    BY <2>1, <2>2, <1>1 DEF CreateFsInfo
<1>2. CASE NoCluster
  BY <1>0, <1>g, <1>2 DEF NoCluster
<1>3. CASE request.pc = "count"
  <2>1. Growing /\ Accessing
    BY <1>3 DEF Growing, Accessing
  <2>2. FsInfo.Free_Count # 0 /\ request.new \in FieldValues
    BY <2>1, <1>g, AccessFields, Geometry DEF FirstClusterInv
  <2>3. FreeAfter(request.new) \in FieldValues /\ 0 .. FreeAfter(request.new) \subseteq FieldValues
    <3>1. {d \in SearchedFrom(request.new + 1) : FAT[d] = Free} \in SUBSET Clusters
      BY DEF SearchedFrom
    <3>2. FreeAfter(request.new) \in Nat /\ FreeAfter(request.new) <= CountOfClusters
      BY <3>1, CardinalityOfClusters DEF FreeAfter
    <3> QED
      BY <3>2, Geometry DEF FieldValues
  <2>4. CASE WriteFsInfo
    BY <1>0, <1>g, <2>2, <2>3, <2>4 DEF WriteFsInfo
  <2>5. CASE AccessFailsUnnoticed
    BY <1>3, <2>2, <2>3, <2>5 DEF AccessFailsUnnoticed
  <2>6. ASSUME NEW h \in Handles, NEW n \in Names PROVE ~CreateFsInfo(h, n)
    BY <1>3 DEF CreateFsInfo, Idle
  <2>7. ~NoCluster
    BY <1>3 DEF NoCluster
  <2> QED
    BY <1>0, <2>4, <2>5, <2>6, <2>7, FsInfoSteps
<1>4. CASE AccessFailsUnnoticed /\ request.pc # "count"
  BY <1>0, <1>g, <1>4 DEF AccessFailsUnnoticed
<1>5. WriteFsInfo => request.pc = "count"
  BY DEF WriteFsInfo
<1> QED
  BY <1>0, <1>1, <1>2, <1>3, <1>4, <1>5, FsInfoSteps

LEMMA TypeOfDir ==
    ASSUME FatAssumption, FatTypes, DirectoryInv, FatNext, request' # Astray
    PROVE  dir' \in [1 .. EntriesPerCluster -> [name : EntryNames, cluster : FieldValues, size : Nat]]
<1>1. CASE CreateEntry
  <2>1. request.name \in EntryNames /\ request.cluster \in FieldValues
    BY <1>1, CreationFields DEF CreateEntry, Creating, EntryNames
  <2>2. Entry(request.name, request.cluster) \in [name : EntryNames, cluster : FieldValues, size : Nat]
    BY <2>1 DEF Entry
  <2> QED
    BY <1>1, <2>2 DEF CreateEntry, FatTypes
<1>2. CASE SameFiles
  BY <1>2 DEF SameFiles, FatTypes
<1> QED
  BY <1>1, <1>2, DirectorySteps, UnchangedFiles, FinishKeepsFiles

LEMMA TypeOfFcb ==
    ASSUME FatAssumption, FatTypes, DirectoryInv, FatNext, request' # Astray
    PROVE  fcb' \in [Handles -> {Closed, NoFcb, SectorZero} \union FirstSectors']
<1>0. fcb \in [Handles -> {Closed, NoFcb, SectorZero} \union FirstSectors] /\ FirstSectors \subseteq FirstSectors'
  BY FilesStay DEF FatTypes
<1>1. ASSUME NEW h \in Handles, NEW n, Open(h, n)
      PROVE  fcb' \in [Handles -> {Closed, NoFcb, SectorZero} \union FirstSectors]
  <2>1. CASE UNCHANGED fcb
    BY <1>0, <2>1
  <2>2. CASE fcb' = [fcb EXCEPT ![h] = NoFcb] \/ fcb' = [fcb EXCEPT ![h] = SectorZero]
    BY <1>0, <2>2
  <2>3. CASE /\ FatSearch(n) # 0 /\ IsCluster(dir[FatSearch(n)].cluster)
             /\ fcb' = [fcb EXCEPT ![h] = FirstSectorOfCluster(dir[FatSearch(n)].cluster)]
    <3>1. FirstSectorOfCluster(dir[FatSearch(n)].cluster) \in FirstSectors
      BY <2>3, FatSearchFinds DEF FirstSectors
    <3> QED
      BY <1>0, <2>3, <3>1
  <2> QED
    BY <1>1, <2>1, <2>2, <2>3 DEF Open
<1>2. ASSUME NEW h \in Handles, NEW n, IoOpenFile(h, n)
      PROVE  fcb' \in [Handles -> {Closed, NoFcb, SectorZero} \union FirstSectors]
  BY <1>1, <1>2 DEF IoOpenFile
<1>3. CASE CreateMark
  <2>1. request.handle \in Handles
    BY <1>3, CreationFields DEF CreateMark, Creating
  <2> QED
    BY <1>0, <1>1, <1>3, <2>1 DEF CreateMark
<1>4. ASSUME NEW h \in Handles, IoCloseFile(h)
      PROVE  fcb' \in [Handles -> {Closed, NoFcb, SectorZero} \union FirstSectors]
  BY <1>0, <1>4 DEF IoCloseFile
<1>5. CASE PowerLoss
  BY <1>5 DEF PowerLoss
<1>6. CASE UNCHANGED fcb
  BY <1>0, <1>6
<1>7. \/ UNCHANGED fcb \/ PowerLoss \/ CreateMark
      \/ \E h \in Handles : IoCloseFile(h)
      \/ \E h \in Handles, n \in Names : IoOpenFile(h, n)
  BY DEF FatNext, UseWithoutFcb, UseOfSectorZero, WriteToRoot, CreateFsInfo, IoReadWriteFile,
         CreateEntry, CreateContents, RepairEnd, FollowLink, ReadPastEnd, NoCluster, ReserveCluster,
         LinkCluster, WriteFsInfo, FinishReadWrite, AccessFails, AccessFailsUnnoticed
<1> QED
  BY <1>0, <1>2, <1>3, <1>4, <1>5, <1>6, <1>7

LEMMA TypeOfFaults ==
    ASSUME FatBounds, FatTypes, FatNext, request' # Astray
    PROVE  faults' \in 0 .. MaxFaults /\ faults' >= faults
<1>0. faults \in 0 .. MaxFaults /\ MaxFaults \in Nat
  BY DEF FatTypes, FatBounds
<1>1. UNCHANGED faults \/ Fault
  BY DEF FatNext, IoCloseFile, UseWithoutFcb, UseOfSectorZero, WriteToRoot, IoOpenFile, Open,
         CreateFsInfo, NameIsNotTaken, IoReadWriteFile, CreateEntry,
         CreateContents, CreateMark, RepairEnd, FollowLink, ReadPastEnd, NoCluster, ReserveCluster,
         LinkCluster, WriteFsInfo, FinishReadWrite, PowerLoss, AccessFails, AccessFailsUnnoticed
<1> QED
  BY <1>0, <1>1 DEF Fault

\* A request is on one of these ways.  Stops: it is over.
Stops == request' \in {Idle, Halted}
Moves == request' = [request EXCEPT !.pc = "write", !.cluster = request.new, !.links = @ - 1, !.seek = @ - 1]

LEMMA RequestSteps ==
    ASSUME FatNext, request' # Astray
    PROVE  \/ Stops \/ UNCHANGED <<request, FsInfo, dir>>
           \/ \E h \in Handles, n \in Names : CreateFsInfo(h, n)
           \/ CreateEntry
           \/ request.pc = "contents" /\ IsCluster(request.cluster) /\ CreateContents
           \/ \E h \in Handles, kind \in {"read", "write"}, o \in 0 .. MaxOffset, l \in 1 .. MaxLength :
                 FileSectorIsAligned(h) /\ IoReadWriteFile(h, kind, o, l)
           \/ FollowLink \/ ReserveCluster \/ LinkCluster
           \/ request.pc \in {"link", "count"} /\ Moves /\ UNCHANGED <<FAT, dir>>
<1>1. ASSUME NEW h \in Handles
      PROVE  /\ IoCloseFile(h) => UNCHANGED <<request, FsInfo, dir>>
             /\ UseWithoutFcb(h) => Stops
             /\ \A o \in 0 .. MaxOffset : UseOfSectorZero(h, o) => Stops
             /\ \A o \in 0 .. MaxOffset : ~WriteToRoot(h, o)
             /\ \A n \in Names : IoOpenFile(h, n) => UNCHANGED <<request, FsInfo, dir>>
  BY DEF IoCloseFile, UseWithoutFcb, UseOfSectorZero, WriteToRoot, IoOpenFile, Stops, volumeVars
<1>2. ASSUME NEW h \in Handles, NEW kind \in {"read", "write"}, NEW o \in 0 .. MaxOffset,
             NEW l \in 1 .. MaxLength, IoReadWriteFile(h, kind, o, l)
      PROVE  Stops \/ FileSectorIsAligned(h)
  BY <1>2 DEF IoReadWriteFile, Stops
<1>3. CreateContents => Stops \/ (request.pc = "contents" /\ IsCluster(request.cluster))
  BY DEF CreateContents, Complete, Stops
<1>4. /\ CreateMark \/ ReadPastEnd \/ NoCluster \/ FinishReadWrite \/ PowerLoss \/ AccessFails => Stops
      /\ RepairEnd => UNCHANGED <<request, FsInfo, dir>>
  BY DEF CreateMark, RepairEnd, ReadPastEnd, NoCluster, FinishReadWrite, PowerLoss, AccessFails,
         Complete, Stops
<1>5. WriteFsInfo => request.pc \in {"link", "count"} /\ Moves /\ UNCHANGED <<FAT, dir>>
  BY DEF WriteFsInfo, Moves
<1>6. AccessFailsUnnoticed => Stops \/ (request.pc \in {"link", "count"} /\ Moves /\ UNCHANGED <<FAT, dir>>)
  BY DEF AccessFailsUnnoticed, Moves, Complete, Stops
<1>7. CASE \E h \in Handles : IoCloseFile(h) \/ UseWithoutFcb(h)
  BY <1>1, <1>7
<1>8. CASE \E h \in Handles, n \in Names : IoOpenFile(h, n) \/ CreateFsInfo(h, n)
  BY <1>1, <1>8
<1>9. CASE \E h \in Handles, kind \in {"read", "write"}, o \in 0 .. MaxOffset, l \in 1 .. MaxLength :
              IoReadWriteFile(h, kind, o, l)
  BY <1>2, <1>9
<1>10. CASE CreateEntry \/ CreateContents \/ CreateMark \/ RepairEnd \/ FollowLink \/ ReadPastEnd
            \/ NoCluster \/ ReserveCluster \/ LinkCluster \/ WriteFsInfo \/ FinishReadWrite
            \/ PowerLoss \/ AccessFails \/ AccessFailsUnnoticed
  BY <1>3, <1>4, <1>5, <1>6, <1>10
<1>11. CASE \E h \in Handles, o \in 0 .. MaxOffset : UseOfSectorZero(h, o) \/ WriteToRoot(h, o)
  BY <1>1, <1>11
<1> QED
  BY <1>7, <1>8, <1>9, <1>10, <1>11 DEF FatNext

\* What an access starts with.
LEMMA AccessStart ==
    ASSUME FatAssumption, FatBounds, FatTypes,
           NEW h \in Handles, NEW kind \in {"read", "write"}, NEW o \in 0 .. MaxOffset, NEW l \in 1 .. MaxLength,
           FileSectorIsAligned(h), IoReadWriteFile(h, kind, o, l)
    PROVE  /\ request' \in Accesses /\ request'.pc = kind /\ request = Idle
           /\ request'.base \in FirstSectors
           /\ request'.cluster = ClusterOfSector(request'.base)
           /\ request'.links = LastLink(request'.end)
           /\ \E i \in UsedEntries : IsCluster(dir[i].cluster) /\ request'.cluster = dir[i].cluster
           /\ UNCHANGED <<volumeVars, fcb, faults>>
<1>0. Clusters \subseteq Int /\ SectorsPerCluster \in Nat \ {0} /\ FirstDataSector \in Int
  BY Geometry
<1>1. fcb[h] \in FirstSectors
  BY DEF IoReadWriteFile, FatTypes
<1>2. PICK i \in UsedEntries : IsCluster(dir[i].cluster) /\ fcb[h] = FirstSectorOfCluster(dir[i].cluster)
  BY <1>1 DEF FirstSectors
<1>3. dir[i].cluster \in Clusters /\ dir[i].cluster \in Int
  BY <1>0, <1>2 DEF IsCluster
<1>4. ClusterOfSector(fcb[h]) = dir[i].cluster
  BY <1>2, <1>3, SectorRoundTrip
<1>5. fcb[h] \in Int
  <2>1. (dir[i].cluster - 2) * SectorsPerCluster \in Int
    BY <1>0, <1>3
  <2> QED
    BY <1>0, <1>2, <2>1 DEF FirstSectorOfCluster
<1>6. o + l \in Nat \ {0} /\ Links(o, l) = LastLink(o + l)
  BY DEF FatBounds, Links, LastLink
<1>7. LastLink(o + l) \in Nat
  BY <1>6, LastLinkCovers
<1>8. o \div SectorsPerCluster \in Int
  BY <1>0 DEF FatBounds
<1>9. request' = [pc |-> kind, base |-> fcb[h], cluster |-> ClusterOfSector(fcb[h]),
                  links |-> Links(o, l), seek |-> o \div SectorsPerCluster, end |-> o + l, new |-> 0]
  BY DEF IoReadWriteFile
<1>10. request' \in Accesses
  BY <1>3, <1>4, <1>5, <1>6, <1>7, <1>8, <1>9 DEF Accesses
<1> QED
  BY <1>1, <1>2, <1>4, <1>6, <1>9, <1>10 DEF IoReadWriteFile

LEMMA CreationStart ==
    ASSUME FatAssumption, FatTypes, NEW h \in Handles, NEW n \in Names, CreateFsInfo(h, n)
    PROVE  /\ request' \in Creations /\ request'.pc = "entry" /\ request'.index = FreeDirEntry
           /\ request'.cluster = FsInfo.Nxt_Free /\ request'.name = n
           /\ request = Idle /\ FreeDirEntry # 0 /\ FsInfo.Free_Count # 0
           /\ (~Taken(n) /\ UNCHANGED faults) \/ (Taken(n) /\ Fault)
           /\ FsInfo' = [Free_Count |-> FsInfo.Free_Count - 1,
                         Nxt_Free |-> (FsInfo.Nxt_Free + 1) % (FAT32_UNKNOWN + 1)]
           /\ UNCHANGED <<FAT, dir, fcb>>
<1>1. FreeDirEntry \in Reserved + 1 .. EntriesPerCluster
  BY FreeDirEntryIsFree DEF CreateFsInfo
<1>2. FsInfo.Nxt_Free \in FieldValues
  BY DEF FatTypes
<1>3. (~Taken(n) /\ UNCHANGED faults) \/ (Taken(n) /\ Fault)
  BY DEF CreateFsInfo, NameIsNotTaken, Taken
<1> QED
  BY <1>1, <1>2, <1>3 DEF CreateFsInfo, Creations

LEMMA TypeOfRequest ==
    ASSUME FatAssumption, FatBounds, FatTypes, ChainInv, FatNext, request' # Astray
    PROVE  /\ request' \in {Idle, Halted} \union Creations \union Accesses
           /\ Accessing' => request'.base \in FirstSectors
<1>1. CASE Stops
  BY <1>1 DEF Stops, Accessing, Idle, Halted
<1>2. CASE UNCHANGED request
  BY <1>2 DEF FatTypes, Accessing
<1>3. ASSUME NEW h \in Handles, NEW n \in Names, CreateFsInfo(h, n)
      PROVE  request' \in Creations /\ ~Accessing'
  BY <1>3, CreationStart DEF Accessing
<1>4. CASE CreateEntry
  <2>1. request \in Creations /\ request' = [request EXCEPT !.pc = "contents"]
    BY <1>4, CreationFields DEF CreateEntry, Creating, Goto
  <2> QED
    BY <2>1 DEF Creations, Accessing
<1>5. CASE request.pc = "contents" /\ IsCluster(request.cluster) /\ CreateContents
  <2>1. request \in Creations /\ request' = [request EXCEPT !.pc = "mark"]
    BY <1>5, CreationFields DEF CreateContents, Creating, Goto
  <2> QED
    BY <2>1 DEF Creations, Accessing
<1>6. ASSUME NEW h \in Handles, NEW kind \in {"read", "write"}, NEW o \in 0 .. MaxOffset,
             NEW l \in 1 .. MaxLength, FileSectorIsAligned(h), IoReadWriteFile(h, kind, o, l)
      PROVE  request' \in Accesses /\ request'.base \in FirstSectors
  BY <1>6, AccessStart
<1>7. CASE FollowLink
  <2>1. Accessing /\ request.links > 0 /\ FAT[request.cluster] \in Clusters
    BY <1>7 DEF FollowLink, Accessing, IsCluster
  <2>2. request \in Accesses /\ request.links \in Nat /\ request.base \in FirstSectors
    BY <2>1, AccessFields DEF FatTypes
  <2>3. request' = [request EXCEPT !.cluster = FAT[request.cluster], !.links = request.links - 1,
                                   !.seek = request.seek - 1]
    BY <1>7 DEF FollowLink
  <2>4. request.links - 1 \in Nat /\ request.seek - 1 \in Int
    BY <2>1, <2>2 DEF Accesses
  <2> QED
    BY <2>1, <2>2, <2>3, <2>4 DEF Accesses
<1>8. CASE ReserveCluster
  <2>1. Accessing /\ IsCluster(FirstFreeCluster(FsInfo.Nxt_Free))
    BY <1>8, FirstFreeClusterIsFree DEF ReserveCluster, Accessing, FatTypes, FieldValues
  <2>2. request \in Accesses /\ request.base \in FirstSectors
    BY <2>1, AccessFields DEF FatTypes
  <2>3. request' = [request EXCEPT !.pc = "link", !.new = FirstFreeCluster(FsInfo.Nxt_Free)]
    BY <1>8 DEF ReserveCluster
  <2> QED
    BY <2>1, <2>2, <2>3 DEF Accesses, IsCluster
<1>9. CASE LinkCluster
  <2>1. Accessing /\ request' = [request EXCEPT !.pc = "count"]
    BY <1>9 DEF LinkCluster, Accessing, Goto
  <2>2. request \in Accesses /\ request.base \in FirstSectors
    BY <2>1, AccessFields DEF FatTypes
  <2> QED
    BY <2>1, <2>2 DEF Accesses
<1>10. CASE request.pc \in {"link", "count"} /\ Moves
  <2>1. Accessing /\ request.new \in Clusters /\ request.links > 0
    BY <1>10 DEF Growing, Accessing, ChainInv, IsCluster
  <2>2. request \in Accesses /\ request.links \in Nat /\ request.base \in FirstSectors
    BY <2>1, AccessFields DEF FatTypes
  <2>3. request' = [request EXCEPT !.pc = "write", !.cluster = request.new, !.links = request.links - 1,
                                   !.seek = request.seek - 1]
    BY <1>10 DEF Moves
  <2>4. request.links - 1 \in Nat /\ request.seek - 1 \in Int
    BY <2>1, <2>2 DEF Accesses
  <2> QED
    BY <2>1, <2>2, <2>3, <2>4 DEF Accesses
<1> QED
  BY <1>1, <1>2, <1>3, <1>4, <1>5, <1>6, <1>7, <1>8, <1>9, <1>10, RequestSteps

LEMMA TypeStep ==
    ASSUME FatAssumption, FatBounds, FatTypes, DirectoryInv, FirstClusterInv, ChainInv,
           FatNext, request' # Astray
    PROVE  FatTypes'
<1>1. FirstSectors \subseteq FirstSectors'
  BY FilesStay
<1> QED
  BY <1>1, TypeOfFat, TypeOfFsInfo, TypeOfDir, TypeOfFcb, TypeOfRequest, TypeOfFaults DEF FatTypes

-----------------------------------------------------------------------------
(* The directory.                                                          *)

\* How a request comes to the steps of FatCreateDirectoryEntry.
LEMMA CreationSteps ==
    ASSUME FatAssumption, FatBounds, FatTypes, ChainInv, FatNext, request' # Astray, Creating'
    PROVE  \/ UNCHANGED <<request, FsInfo, dir>>
           \/ \E h \in Handles, n \in Names : CreateFsInfo(h, n)
           \/ CreateEntry
           \/ /\ request.pc = "contents" /\ IsCluster(request.cluster) /\ CreateContents
              /\ request \in Creations /\ request' = [request EXCEPT !.pc = "mark"] /\ UNCHANGED volumeVars
<1>1. ~Stops
  BY DEF Stops, Idle, Halted, Creating
<1>2. ~Accessing'
  BY DEF Accessing, Creating
<1>3. CASE request.pc = "contents" /\ IsCluster(request.cluster) /\ CreateContents
  <2>1. request \in Creations
    BY <1>3, CreationFields DEF Creating
  <2>2. request' = [request EXCEPT !.pc = "mark"] /\ UNCHANGED volumeVars
    BY <1>3 DEF CreateContents, Goto, volumeVars
  <2> QED
    BY <1>3, <2>1, <2>2
<1>4. ~(\E h \in Handles, kind \in {"read", "write"}, o \in 0 .. MaxOffset, l \in 1 .. MaxLength :
            FileSectorIsAligned(h) /\ IoReadWriteFile(h, kind, o, l))
  <2> SUFFICES ASSUME NEW h \in Handles, NEW kind \in {"read", "write"}, NEW o \in 0 .. MaxOffset,
                      NEW l \in 1 .. MaxLength, FileSectorIsAligned(h), IoReadWriteFile(h, kind, o, l)
               PROVE  FALSE
    OBVIOUS
  <2>1. request'.pc = kind
    BY AccessStart
  <2> QED
    BY <2>1 DEF Creating
<1>5. ~FollowLink
  <2> SUFFICES ASSUME FollowLink PROVE FALSE
    OBVIOUS
  <2>1. request.pc \in {"read", "write"} /\ Accessing
    BY DEF FollowLink, Accessing
  <2>2. request \in Accesses
    BY <2>1, AccessFields
  <2>3. request'.pc = request.pc
    BY <2>2 DEF FollowLink, Accesses
  <2> QED
    BY <2>1, <2>3 DEF Creating
<1>6. ~ReserveCluster /\ ~LinkCluster
  <2> SUFFICES ASSUME ReserveCluster \/ LinkCluster PROVE FALSE
    OBVIOUS
  <2>1. Accessing
    BY DEF ReserveCluster, LinkCluster, Accessing
  <2>2. request \in Accesses
    BY <2>1, AccessFields
  <2>3. request'.pc \in {"link", "count"}
    BY <2>2 DEF ReserveCluster, LinkCluster, Goto, Accesses
  <2> QED
    BY <2>3 DEF Creating
<1>7. ~(request.pc \in {"link", "count"} /\ Moves)
  <2> SUFFICES ASSUME request.pc \in {"link", "count"}, Moves PROVE FALSE
    OBVIOUS
  <2>1. Accessing
    BY DEF Accessing
  <2>2. request \in Accesses
    BY <2>1, AccessFields
  <2>3. request'.pc = "write"
    BY <2>2 DEF Moves, Accesses
  <2> QED
    BY <2>3 DEF Creating
<1> QED
  BY <1>1, <1>3, <1>4, <1>5, <1>6, <1>7, RequestSteps

LEMMA DirectoryStep ==
    ASSUME FatAssumption, FatBounds, FatTypes, DirectoryInv, ChainInv, FatNext, request' # Astray
    PROVE  DirectoryInv'
<1> DEFINE Labels == \A i \in 1 .. Reserved : dir[i].name = VolumeLabel
           Rest == \A i, j \in DOMAIN dir : i < j /\ dir[i].name = FREE_ALL => dir[j].name = FREE_ALL
           Row == \A i \in UsedEntries : \A j \in Reserved + 1 .. i : Used(j)
<1>0. DOMAIN dir = 1 .. EntriesPerCluster /\ 1 .. Reserved \subseteq DOMAIN dir
  BY DirectoryType, Geometry
<1>1. CASE CreateEntry
  <2>1. /\ request \in Creations /\ request.pc = "entry" /\ request' = [request EXCEPT !.pc = "contents"]
        /\ request.index \in DOMAIN dir /\ request.index \notin UsedEntries
        /\ dir' = [dir EXCEPT ![request.index] = Entry(request.name, request.cluster)]
        /\ UsedEntries' = UsedEntries \union {request.index}
    BY <1>1, CreateEntryAddsFile
  <2>2. request.index \in Reserved + 1 .. EntriesPerCluster /\ request.name \in Names
    BY <2>1 DEF Creations
  <2>3. Labels'
    <3>1. \A i \in 1 .. Reserved : i # request.index
      BY <2>2, Geometry DEF Reserved
    <3> QED
      BY <1>0, <2>1, <3>1 DEF DirectoryInv
  <2>4. dir'[request.index].name = request.name /\ DOMAIN dir' = DOMAIN dir
        /\ \A i \in DOMAIN dir : i # request.index => dir'[i] = dir[i]
    BY <2>1 DEF Entry
  <2>5. request.name # FREE_ALL
    BY <2>2, NamesAreUsed
  <2>6. \A i \in 1 .. request.index - 1 : dir[i].name # FREE_ALL
    BY <2>1 DEF DirectoryInv
  <2>7. Rest'
    <3> SUFFICES ASSUME NEW i \in DOMAIN dir, NEW j \in DOMAIN dir, i < j, dir'[i].name = FREE_ALL
                 PROVE  dir'[j].name = FREE_ALL
      BY <2>4
    <3>1. i # request.index /\ dir[i].name = FREE_ALL
      BY <2>4, <2>5
    <3>2. i > request.index
      <4>1. i \in Nat \ {0} /\ request.index \in Nat \ {0}
        <5>1. 1 .. EntriesPerCluster \subseteq Nat \ {0}
          BY Geometry
        <5> QED
          BY <1>0, <2>1, <5>1
      <4>2. i \notin 1 .. request.index - 1
        BY <2>6, <3>1
      <4> QED
        BY <3>1, <4>1, <4>2
    <3> QED
      BY <1>0, <2>1, <2>4, <3>1, <3>2 DEF DirectoryInv
  <2>8. Row'
    <3>1. \A i \in Reserved + 1 .. request.index - 1 : Used(i)
      BY <2>1 DEF DirectoryInv
    <3>2. \A i : Used(i) /\ i \in DOMAIN dir => i # request.index /\ Used(i)'
      BY <2>1, <2>4 DEF Used, UsedEntries
    <3>3. dir'[request.index].name \notin {FREE_ALL, FREE_ENTRY, VolumeLabel}
      BY <2>2, <2>4, NamesAreUsed
    <3> SUFFICES ASSUME NEW i \in UsedEntries', NEW j \in Reserved + 1 .. i PROVE Used(j)'
      OBVIOUS
    <3>4. CASE i \in UsedEntries
      <4>1. i \in DOMAIN dir /\ j \in DOMAIN dir
        BY <1>0, <3>4 DEF UsedEntries, Reserved
      <4>2. Used(j)
        BY <3>4 DEF DirectoryInv
      <4> QED
        BY <3>2, <4>1, <4>2
    <3>5. CASE i = request.index
      <4>1. CASE j = request.index
        BY <3>3, <4>1 DEF Used
      <4>2. CASE j # request.index
        <5>1. j \in Reserved + 1 .. request.index - 1 /\ j \in DOMAIN dir
          <6>1. i \in 1 .. EntriesPerCluster /\ j \in 3 .. i /\ i # j
            BY <1>0, <2>1, <3>5, <4>2 DEF Reserved
          <6>2. j \in 3 .. i - 1 /\ j \in 1 .. EntriesPerCluster
            BY <6>1, Geometry
          <6> QED
            BY <1>0, <3>5, <6>2 DEF Reserved
        <5> QED
          BY <3>1, <3>2, <5>1
      <4> QED
        BY <4>1, <4>2
    <3> QED
      BY <2>1, <3>4, <3>5
  <2>9. /\ request'.pc = "contents" /\ request'.index = request.index
        /\ request'.name = request.name /\ request'.cluster = request.cluster
    BY <2>1 DEF Creations
  <2>10. dir'[request'.index] = Entry(request'.name, request'.cluster)
    BY <2>1, <2>9
  <2> QED
    BY <2>3, <2>7, <2>8, <2>9, <2>10 DEF DirectoryInv, Entry
<1>2. CASE ~CreateEntry
  <2>0. SameFiles
    BY <1>2, DirectorySteps, UnchangedFiles, FinishKeepsFiles
  <2>1. UsedEntries' = UsedEntries /\ DOMAIN dir' = DOMAIN dir
        /\ \A i \in DOMAIN dir : dir'[i].name = dir[i].name
    BY <2>0, SameFilesStay DEF SameFiles
  <2>2. Labels' /\ Rest'
    BY <1>0, <2>1 DEF DirectoryInv
  <2>3. Row'
    <3> SUFFICES ASSUME NEW i \in UsedEntries, NEW j \in Reserved + 1 .. i PROVE Used(j)'
      BY <2>1
    <3>1. Used(j) /\ j \in DOMAIN dir
      BY <1>0 DEF DirectoryInv, UsedEntries, Reserved
    <3> QED
      BY <2>1, <3>1 DEF Used
  <2>4. CASE ~Creating'
    BY <2>2, <2>3, <2>4 DEF DirectoryInv, Creating
  <2>5. CASE UNCHANGED <<request, FsInfo, dir>>
    BY <2>5 DEF DirectoryInv, UsedEntries, Used, Entry
  <2>6. ASSUME NEW h \in Handles, NEW n \in Names, CreateFsInfo(h, n)
        PROVE  DirectoryInv'
    <3>1. /\ request'.pc = "entry" /\ request'.index = FreeDirEntry /\ request'.name = n
          /\ FreeDirEntry # 0 /\ UNCHANGED dir
      BY <2>6, CreationStart
    <3>2. ~Used(FreeDirEntry) /\ FreeDirEntry \in Reserved + 1 .. EntriesPerCluster
          /\ \A i \in Reserved + 1 .. FreeDirEntry - 1 : Used(i)
      BY <3>1, FreeDirEntryIsFree
    <3>3. ASSUME NEW i \in 1 .. FreeDirEntry - 1 PROVE dir[i].name # FREE_ALL
      <4>1. CASE i \in 1 .. Reserved
        BY <4>1, NamesAreUsed DEF DirectoryInv
      <4>2. CASE i \notin 1 .. Reserved
        <5>1. i \in Reserved + 1 .. FreeDirEntry - 1
          BY <3>2, <4>2 DEF Reserved
        <5> QED
          BY <3>2, <5>1 DEF Used
      <4> QED
        BY <4>1, <4>2
    <3>5. (~Used(request.index))' /\ (\A i \in 1 .. request.index - 1 : dir[i].name # FREE_ALL)'
      BY <3>1, <3>2, <3>3 DEF Used
    <3>6. (\A i \in Reserved + 1 .. request.index - 1 : Used(i))'
      BY <3>1, <3>2 DEF Used
    <3> QED
      BY <2>2, <2>3, <3>1, <3>5, <3>6 DEF DirectoryInv
  <2>7. CASE /\ request.pc = "contents" /\ IsCluster(request.cluster) /\ CreateContents
             /\ request \in Creations /\ request' = [request EXCEPT !.pc = "mark"] /\ UNCHANGED volumeVars
    <3>1. /\ request'.pc = "mark" /\ request'.index = request.index
          /\ request'.name = request.name /\ request'.cluster = request.cluster /\ UNCHANGED dir
      BY <2>7 DEF Creations, volumeVars
    <3>2. dir[request.index] = Entry(request.name, request.cluster)
      BY <2>7 DEF DirectoryInv
    <3> QED
      BY <2>2, <2>3, <3>1, <3>2 DEF DirectoryInv, Entry
  <2> QED
    BY <1>2, <2>4, <2>5, <2>6, <2>7, CreationSteps
<1> QED
  BY <1>1, <1>2

LEMMA Numbers ==
    ASSUME FatAssumption, FatBounds, FatTypes
    PROVE  /\ FsInfo.Nxt_Free \in Nat /\ FsInfo.Free_Count \in Nat /\ FsInfo.Nxt_Free <= FAT32_UNKNOWN
           /\ Cardinality(UsedEntries) \in Nat /\ Cardinality(UsedEntries) <= EntriesPerCluster
           /\ faults \in Nat /\ faults <= MaxFaults /\ MaxFaults \in Nat
           /\ EntriesPerFat \in Nat /\ EntriesPerCluster \in Nat /\ FAT32_UNKNOWN \in Nat
           /\ CountOfClusters \in Nat
           /\ MaxFaults + 1 < FAT32_UNKNOWN - EntriesPerFat - EntriesPerCluster
           /\ \A i \in UsedEntries : dir[i].cluster \in Nat /\ dir[i].size \in Nat
<1>1. /\ FsInfo.Nxt_Free \in 0 .. FAT32_UNKNOWN /\ FsInfo.Free_Count \in 0 .. FAT32_UNKNOWN
      /\ faults \in 0 .. MaxFaults
  BY DEF FatTypes, FieldValues
<1>2. \A i \in UsedEntries : dir[i].cluster \in Nat /\ dir[i].size \in Nat
  BY DirectoryType DEF UsedEntries, FieldValues
<1>3. CountOfClusters \in Nat /\ EntriesPerFat = CountOfClusters + 2
  BY Geometry
<1>4. EntriesPerFat \in Nat /\ EntriesPerCluster \in Nat /\ FAT32_UNKNOWN \in Nat
  BY <1>3, Geometry
<1>5. Cardinality(UsedEntries) \in Nat /\ Cardinality(UsedEntries) <= EntriesPerCluster
  BY DirectoryType
<1> QED
  BY <1>1, <1>2, <1>3, <1>4, <1>5 DEF FatBounds

-----------------------------------------------------------------------------
(* Names: each file that another one hides costs a failed search.          *)

\* What was found is found after a step, and a name that is new in the new entry.
LEMMA SearchStays ==
    ASSUME FatAssumption, FatBounds, FatTypes, DirectoryInv, FatNext, request' # Astray,
           FatTypes', DirectoryInv', NEW name
    PROVE  /\ FatSearch(name) # 0 => FatSearch(name)' = FatSearch(name)
           /\ FatSearch(name)' # 0 /\ FatSearch(name) = 0 =>
                 CreateEntry /\ name = request.name /\ FatSearch(name)' = request.index
<1>0. DOMAIN dir' = 1 .. EntriesPerCluster /\ UsedEntries' \subseteq Nat /\ UsedEntries \subseteq Nat
      /\ DOMAIN dir = 1 .. EntriesPerCluster
  <2>1. DOMAIN dir' = 1 .. EntriesPerCluster
    BY DEF FatTypes
  <2>2. UsedEntries' \subseteq 1 .. EntriesPerCluster
    BY <2>1 DEF UsedEntries
  <2> QED
    BY <2>1, <2>2, DirectoryType, Geometry
<1>1. \A i \in UsedEntries : i \in UsedEntries' /\ dir'[i].name = dir[i].name
  BY FilesStay
<1>2. ASSUME NEW i \in UsedEntries', i \notin UsedEntries
      PROVE  /\ CreateEntry /\ i = request.index /\ dir'[i].name = request.name
             /\ \A j \in UsedEntries : j < i
  <2>1. CreateEntry
    BY <1>2, DirectorySteps, UnchangedFiles, FinishKeepsFiles, SameFilesStay
  <2>2. /\ i = request.index /\ i \in DOMAIN dir /\ request \in Creations /\ request.pc = "entry"
        /\ dir' = [dir EXCEPT ![i] = Entry(request.name, request.cluster)]
    BY <1>2, <2>1, CreateEntryAddsFile
  <2>3. dir'[i].name = request.name /\ ~Used(i) /\ i \in Reserved + 1 .. EntriesPerCluster
    BY <2>2 DEF Entry, DirectoryInv, Creations
  <2>4. ASSUME NEW j \in UsedEntries PROVE j < i
    <3>1. ~(i \in Reserved + 1 .. j)
      BY <2>3 DEF DirectoryInv
    <3>2. j \in Nat /\ i \in Nat
      BY <1>0, <2>2
    <3> QED
      BY <2>3, <3>1, <3>2 DEF Reserved
  <2> QED
    BY <2>1, <2>2, <2>3, <2>4
<1>3. PICK s, z : s = FatSearch(name) /\ z = FatSearch(name)'
  OBVIOUS
<1>4. s # 0 => /\ s \in UsedEntries /\ dir[s].name = name
               /\ \A i \in UsedEntries : dir[i].name = name => s <= i
  BY <1>3, FatSearchFinds
<1>5. z # 0 => /\ z \in UsedEntries' /\ dir'[z].name = name
               /\ \A i \in UsedEntries' : dir'[i].name = name => z <= i
  BY <1>0, <1>3, FatSearchFindsNext
<1>6. ASSUME s # 0 PROVE z = s
  <2>1. z # 0
    <3>1. s \in UsedEntries' /\ dir'[s].name = name
      BY <1>1, <1>4, <1>6
    <3> QED
      BY <1>0, <1>3, <3>1, FatSearchFindsNext
  <2>2. z <= s
    BY <1>1, <1>4, <1>5, <1>6, <2>1
  <2>3. s <= z
    <3>1. CASE z \in UsedEntries
      BY <1>1, <1>4, <1>5, <1>6, <2>1, <3>1
    <3>2. CASE z \notin UsedEntries
      <4>1. s < z
        BY <1>2, <1>4, <1>5, <1>6, <2>1, <3>2
      <4>2. s \in Nat /\ z \in Nat
        BY <1>0, <1>4, <1>5, <1>6, <2>1
      <4> QED
        BY <4>1, <4>2
    <3> QED
      BY <3>1, <3>2
  <2>4. s \in Nat /\ z \in Nat
    BY <1>0, <1>4, <1>5, <1>6, <2>1
  <2> QED
    BY <2>2, <2>3, <2>4
<1>7. ASSUME s = 0, z # 0 PROVE CreateEntry /\ name = request.name /\ z = request.index
  <2>1. z \notin UsedEntries
    BY <1>1, <1>3, <1>5, <1>7, FatSearchFinds
  <2> QED
    BY <1>2, <1>5, <1>7, <2>1
<1> QED
  BY <1>3, <1>6, <1>7

\* A step hides at most the entry it writes.
LEMMA HiddenStays ==
    ASSUME FatAssumption, FatBounds, FatTypes, DirectoryInv, FatNext, request' # Astray,
           FatTypes', DirectoryInv'
    PROVE  /\ Hidden' \subseteq Hidden \union {request.index}
           /\ Hidden' \subseteq Hidden \/ (CreateEntry /\ Taken(request.name))
<1>1. ASSUME NEW i \in Hidden', i \notin Hidden
      PROVE  CreateEntry /\ i = request.index /\ Taken(request.name)
  <2>0. i \in UsedEntries' /\ IsHidden(i)'
    BY <1>1 DEF Hidden
  <2>1. PICK name, z : name = dir'[i].name /\ z = FatSearch(name)'
    OBVIOUS
  <2>2. z # i /\ dir'[z].cluster \in Clusters
    BY <2>0, <2>1 DEF IsHidden, IsCluster, FatSearch
  <2>3. DOMAIN dir' = 1 .. EntriesPerCluster
    BY DEF FatTypes
  <2>4. z # 0 /\ z \in UsedEntries' /\ dir'[z].name = name
    BY <2>0, <2>1, <2>3, FatSearchFindsNext
  <2>5. \A j \in UsedEntries : j \in UsedEntries' /\ dir'[j].name = dir[j].name
                              /\ dir'[j].cluster = dir[j].cluster
    BY FilesStay
  <2>6. CASE i \in UsedEntries
    <3>1. FatSearch(name) # 0 /\ name = dir[i].name
      BY <2>1, <2>5, <2>6, FatSearchFinds
    <3>2. FatSearch(name) = z
      BY <2>1, <3>1, SearchStays
    <3>3. z \in UsedEntries
      BY <3>1, <3>2, FatSearchFinds
    <3>4. IsHidden(i)
      BY <2>2, <2>5, <3>1, <3>2, <3>3 DEF IsHidden, IsCluster
    <3> QED
      BY <1>1, <2>6, <3>4 DEF Hidden
  <2>7. CASE i \notin UsedEntries
    <3>1. CreateEntry
      BY <2>0, <2>7, DirectorySteps, UnchangedFiles, FinishKeepsFiles, SameFilesStay
    <3>2. /\ UsedEntries' = UsedEntries \union {request.index} /\ request.index \in DOMAIN dir
          /\ dir' = [dir EXCEPT ![request.index] = Entry(request.name, request.cluster)]
      BY <3>1, CreateEntryAddsFile
    <3>3. i = request.index /\ name = request.name /\ z \in UsedEntries
      BY <2>0, <2>1, <2>2, <2>4, <2>7, <3>2 DEF Entry
    <3>4. FatSearch(name) = z
      <4>1. FatSearch(name) # 0
        BY <2>4, <2>5, <3>3, FatSearchFinds
      <4> QED
        BY <2>1, <4>1, SearchStays
    <3>5. Taken(request.name)
      BY <2>2, <2>4, <2>5, <3>3, <3>4 DEF Taken, IsCluster
    <3> QED
      BY <3>1, <3>3, <3>5
  <2> QED
    BY <2>6, <2>7
<1> QED
  BY <1>1

LEMMA NamesStep ==
    ASSUME FatAssumption, FatBounds, FatTypes, DirectoryInv, NamesInv, ChainInv, FatNext, request' # Astray,
           FatTypes', DirectoryInv'
    PROVE  NamesInv'
<1> DEFINE h == Cardinality(Hidden)
           e == One(request.pc = "entry" /\ Taken(request.name))
<1>0. IsFiniteSet(Hidden) /\ h \in Nat
  <2>1. Hidden \subseteq UsedEntries /\ IsFiniteSet(UsedEntries)
    BY DirectoryType DEF Hidden
  <2> QED
    BY <2>1, FS_Subset, FS_CardinalityType
<1>1. /\ faults \in Nat /\ faults' \in Nat /\ faults' >= faults /\ h + e <= faults /\ e \in {0, 1}
      /\ e' \in {0, 1}
  <2>1. faults' \in 0 .. MaxFaults /\ faults' >= faults /\ faults \in Nat
    BY TypeOfFaults, Numbers
  <2> QED
    BY <2>1 DEF NamesInv, One
<1>2. CASE CreateEntry
  <2>1. request.pc = "entry" /\ request'.pc = "contents" /\ UNCHANGED faults
    BY <1>2, CreateEntryAddsFile DEF CreateEntry, Creations
  <2>2. e' = 0
    BY <2>1 DEF One
  <2>3. CASE Taken(request.name)
    <3>1. e = 1
      BY <2>1, <2>3 DEF One
    <3>2. PICK x : x = request.index
      OBVIOUS
    <3>3. Hidden' \subseteq Hidden \union {x}
      BY <3>2, HiddenStays
    <3>4. IsFiniteSet(Hidden \union {x}) /\ Cardinality(Hidden \union {x}) <= h + 1
          /\ Cardinality(Hidden \union {x}) \in Nat
      BY <1>0, FS_AddElement
    <3>5. IsFiniteSet(Hidden') /\ Cardinality(Hidden') <= Cardinality(Hidden \union {x})
      BY <3>3, <3>4, FS_Subset
    <3>6. Cardinality(Hidden') \in Nat
      BY <3>5, FS_CardinalityType
    <3>7. Cardinality(Hidden') + 0 <= faults'
      BY <1>0, <1>1, <2>1, <3>1, <3>4, <3>5, <3>6
    <3> QED
      BY <2>2, <3>7 DEF NamesInv
  <2>4. CASE ~Taken(request.name)
    <3>1. Hidden' \subseteq Hidden
      BY <2>4, HiddenStays
    <3>2. IsFiniteSet(Hidden') /\ Cardinality(Hidden') <= h /\ Cardinality(Hidden') \in Nat
      BY <1>0, <3>1, FS_Subset, FS_CardinalityType
    <3>3. Cardinality(Hidden') + 0 <= faults'
      BY <1>0, <1>1, <2>1, <3>2
    <3> QED
      BY <2>2, <3>3 DEF NamesInv
  <2> QED
    BY <2>3, <2>4
<1>3. CASE ~CreateEntry
  <2>1. Hidden' \subseteq Hidden
    BY <1>3, HiddenStays
  <2>2. IsFiniteSet(Hidden') /\ Cardinality(Hidden') <= h /\ Cardinality(Hidden') \in Nat
    BY <1>0, <2>1, FS_Subset, FS_CardinalityType
  <2>3. e' = 0 \/ (e = 1 /\ e' = 1) \/ (request = Idle /\ faults' = faults + 1)
    <3> SUFFICES ASSUME request'.pc = "entry", Taken(request.name)'
                 PROVE  e = 1 \/ (request = Idle /\ faults' = faults + 1)
      BY DEF One
    <3>1. Creating'
      BY DEF Creating
    <3>2. CASE UNCHANGED <<request, FsInfo, dir>>
      <4>1. Taken(request.name)
        BY <3>2 DEF Taken, FatSearch, UsedEntries, Used, Visited
      <4> QED
        BY <3>2, <4>1 DEF One
    <3>3. ASSUME NEW d \in Handles, NEW n \in Names, CreateFsInfo(d, n)
          PROVE  request = Idle /\ faults' = faults + 1
      <4>1. request = Idle /\ request'.name = n /\ UNCHANGED dir
            /\ ((~Taken(n) /\ UNCHANGED faults) \/ (Taken(n) /\ Fault))
        BY <3>3, CreationStart
      <4>2. Taken(n)
        BY <4>1 DEF Taken, FatSearch, UsedEntries, Used, Visited
      <4> QED
        BY <4>1, <4>2 DEF Fault
    <3>4. ~(request \in Creations /\ request' = [request EXCEPT !.pc = "mark"])
      BY DEF Creations
    <3> QED
      BY <1>3, <3>1, <3>2, <3>3, <3>4, CreationSteps
  <2>4. request = Idle => e = 0
    BY DEF Idle, One
  <2>5. Cardinality(Hidden') + e' <= faults'
    BY <1>0, <1>1, <2>2, <2>3, <2>4
  <2> QED
    BY <2>5 DEF NamesInv
<1> QED
  BY <1>2, <1>3

-----------------------------------------------------------------------------
(* First clusters: FSI_Nxt_Free is behind all of them and never comes      *)
(* round.                                                                  *)

LEMMA GrowingSteps ==
    ASSUME FatAssumption, FatBounds, FatTypes, ChainInv, FatNext, request' # Astray, Growing'
    PROVE  UNCHANGED <<request, FsInfo, dir>> \/ ReserveCluster \/ LinkCluster
<1>1. ~Stops
  BY DEF Stops, Idle, Halted, Growing
<1>2. ~Creating'
  BY DEF Growing, Creating
<1>3. ASSUME NEW h \in Handles, NEW n \in Names PROVE ~CreateFsInfo(h, n)
  BY <1>2, CreationStart DEF Creating
<1>4. ~CreateEntry
  <2> SUFFICES ASSUME CreateEntry PROVE FALSE
    OBVIOUS
  <2>1. request \in Creations
    BY CreationFields DEF CreateEntry, Creating
  <2>2. request'.pc = "contents"
    BY <2>1 DEF CreateEntry, Goto, Creations
  <2> QED
    BY <2>2, <1>2 DEF Creating
<1>5. ~(request.pc = "contents" /\ IsCluster(request.cluster) /\ CreateContents)
  <2> SUFFICES ASSUME request.pc = "contents", IsCluster(request.cluster), CreateContents PROVE FALSE
    OBVIOUS
  <2>1. request \in Creations
    BY CreationFields DEF Creating
  <2>2. request'.pc = "mark"
    BY <2>1 DEF CreateContents, Goto, Creations
  <2> QED
    BY <2>2, <1>2 DEF Creating
<1>6. ~(\E h \in Handles, kind \in {"read", "write"}, o \in 0 .. MaxOffset, l \in 1 .. MaxLength :
            FileSectorIsAligned(h) /\ IoReadWriteFile(h, kind, o, l))
  <2> SUFFICES ASSUME NEW h \in Handles, NEW kind \in {"read", "write"}, NEW o \in 0 .. MaxOffset,
                      NEW l \in 1 .. MaxLength, FileSectorIsAligned(h), IoReadWriteFile(h, kind, o, l)
               PROVE  FALSE
    OBVIOUS
  <2>1. request'.pc = kind
    BY AccessStart
  <2> QED
    BY <2>1 DEF Growing
<1>7. ~FollowLink /\ ~(request.pc \in {"link", "count"} /\ Moves)
  <2> SUFFICES ASSUME FollowLink \/ (request.pc \in {"link", "count"} /\ Moves) PROVE FALSE
    OBVIOUS
  <2>1. Accessing
    BY DEF FollowLink, Accessing
  <2>2. request \in Accesses
    BY <2>1, AccessFields
  <2>3. request'.pc \in {"read", "write"}
    BY <2>2 DEF FollowLink, Moves, Accesses
  <2> QED
    BY <2>3 DEF Growing
<1> QED
  BY <1>1, <1>3, <1>4, <1>5, <1>6, <1>7, RequestSteps

\* A creation before the write of its entry ends only by a fault.
LEMMA EntryFails ==
    ASSUME FatNext, request' # Astray, request.pc = "entry", ~CreateEntry PROVE Stops /\ Fault
BY DEF FatNext, IoCloseFile, UseWithoutFcb, UseOfSectorZero, WriteToRoot, IoOpenFile, CreateFsInfo,
       IoReadWriteFile, CreateContents, CreateMark, RepairEnd, FollowLink, ReadPastEnd, NoCluster,
       ReserveCluster, LinkCluster, WriteFsInfo, FinishReadWrite, PowerLoss, AccessFails,
       AccessFailsUnnoticed, Complete, Stops, Idle

LEMMA AgeOrder ==
    ASSUME FatAssumption
    PROVE  /\ \A x \in FieldValues : Age(x) \in Nat
           /\ \A x, y \in FieldValues : Age(x) = Age(y) => x = y
           /\ \A c \in Clusters : Age(c) = c + 1
<1>1. FAT32_UNKNOWN \in Nat /\ FieldValues = 0 .. FAT32_UNKNOWN
  BY Geometry DEF FieldValues
<1>2. \A c \in Clusters : c \in Nat /\ c # FAT32_UNKNOWN
  <2>1. /\ Clusters = 2 .. CountOfClusters + 1 /\ CountOfClusters \in Nat /\ EntriesPerCluster \in Nat
        /\ EntriesPerFat = CountOfClusters + 2 /\ FAT32_UNKNOWN > 2 * EntriesPerFat + EntriesPerCluster
    BY Geometry
  <2> QED
    BY <1>1, <2>1
<1> QED
  BY <1>1, <1>2 DEF Age

LEMMA NextFreeGoesOn ==
    ASSUME FatAssumption, FatBounds, FatTypes, FirstClusterInv,
           NEW h \in Handles, NEW name \in Names, CreateFsInfo(h, name)
    PROVE  /\ Age(FsInfo'.Nxt_Free) = Age(FsInfo.Nxt_Free) + 1
           /\ Age(FsInfo.Nxt_Free) <= EntriesPerFat + 1 + Cardinality(UsedEntries) + faults
<1> DEFINE n == FsInfo.Nxt_Free
           k == Cardinality(UsedEntries)
<1>1. /\ n \in Nat /\ k \in Nat /\ k <= EntriesPerCluster /\ faults \in Nat /\ faults <= MaxFaults
      /\ MaxFaults \in Nat /\ EntriesPerFat \in Nat /\ EntriesPerCluster \in Nat /\ FAT32_UNKNOWN \in Nat
      /\ MaxFaults + 1 < FAT32_UNKNOWN - EntriesPerFat - EntriesPerCluster /\ n <= FAT32_UNKNOWN
  BY Numbers
<1>2. request = Idle /\ FsInfo.Free_Count # 0 /\ FsInfo'.Nxt_Free = (n + 1) % (FAT32_UNKNOWN + 1)
  BY CreationStart
<1>3. One(request.pc = "entry") = 0
  BY <1>2 DEF One, Idle
<1>4. Age(n) <= EntriesPerFat + 1 + k + 0 + faults
  BY <1>2, <1>3 DEF FirstClusterInv
<1>5. Age(n) <= EntriesPerFat + 1 + k + faults
  BY <1>1, <1>4
<1> HIDE DEF n, k
<1>6. CASE n = FAT32_UNKNOWN
  <2>1. ASSUME NEW b \in Nat \ {0} PROVE b % b = 0
    OBVIOUS
  <2>2. (FAT32_UNKNOWN + 1) % (FAT32_UNKNOWN + 1) = 0
    BY <1>1, <2>1, FAT32_UNKNOWN + 1 \in Nat \ {0}
  <2>3. Age(0) = 1 /\ Age(n) = 0
    BY <1>1, <1>6 DEF Age
  <2> QED
    BY <1>2, <1>5, <1>6, <2>2, <2>3 DEF n, k
<1>7. CASE n # FAT32_UNKNOWN
  <2>1. Age(n) = n + 1
    BY <1>7 DEF Age
  <2>2. n + 1 < FAT32_UNKNOWN
    BY <1>1, <1>5, <2>1
  <2>3. ASSUME NEW a \in Nat, NEW b \in Nat, a < b PROVE a % b = a
    BY <2>3
  <2>4. (n + 1) % (FAT32_UNKNOWN + 1) = n + 1
    BY <1>1, <2>2, <2>3, n + 1 \in Nat, FAT32_UNKNOWN + 1 \in Nat
  <2>5. Age(n + 1) = (n + 1) + 1
    BY <1>1, <2>2 DEF Age
  <2> QED
    BY <1>2, <1>5, <2>1, <2>4, <2>5 DEF n, k
<1> QED
  BY <1>6, <1>7

LEMMA FirstClusterStep ==
    ASSUME FatAssumption, FatBounds, FatTypes, DirectoryInv, FirstClusterInv, ChainInv,
           FatNext, request' # Astray
    PROVE  FirstClusterInv'
<1> DEFINE n == FsInfo.Nxt_Free
           k == Cardinality(UsedEntries)
<1>0. /\ n \in Nat /\ FsInfo.Free_Count \in Nat /\ k \in Nat
      /\ faults \in Nat /\ faults' \in Nat /\ faults' >= faults /\ EntriesPerFat \in Nat
      /\ Age(n) \in Nat /\ \A i \in UsedEntries : Age(dir[i].cluster) \in Nat
  <2>2. n \in FieldValues /\ \A i \in UsedEntries : dir[i].cluster \in FieldValues
    BY DirectoryType DEF FatTypes, UsedEntries
  <2>3. Age(n) \in Nat /\ \A i \in UsedEntries : Age(dir[i].cluster) \in Nat
    BY <2>2, AgeOrder
  <2>1. faults' \in 0 .. MaxFaults /\ faults' >= faults
    BY TypeOfFaults
  <2> QED
    BY <2>1, <2>3, Numbers
<1>1. ASSUME NEW h \in Handles, NEW name \in Names, CreateFsInfo(h, name)
      PROVE  FirstClusterInv'
  <2>1. /\ request'.pc = "entry" /\ request'.cluster = n /\ request = Idle /\ FsInfo.Free_Count # 0
        /\ UNCHANGED dir
    BY <1>1, CreationStart
  <2>2. Age(n) <= EntriesPerFat + 1 + k + faults /\ Age(FsInfo'.Nxt_Free) = Age(n) + 1
    BY <1>1, NextFreeGoesOn
  <2>4. UsedEntries' = UsedEntries
    BY <2>1 DEF UsedEntries, Used
  <2>5. \A i \in UsedEntries : Age(dir[i].cluster) < Age(n)
    BY <2>1 DEF FirstClusterInv
  <2>6. k' = k
    BY <2>4
  <2>7. Age(FsInfo'.Nxt_Free) <= EntriesPerFat + 1 + k + 1 + faults'
    BY <1>0, <2>2
  <2>8. ~Growing' /\ One(request.pc = "entry")' = 1
    BY <2>1 DEF Growing, One
  <2>9. \A i \in UsedEntries : Age(dir'[i].cluster) < Age(FsInfo'.Nxt_Free) /\ dir'[i].cluster # n
    BY <1>0, <2>1, <2>2, <2>5
  <2>10. Age(request'.cluster) < Age(FsInfo'.Nxt_Free)
    BY <1>0, <2>1, <2>2
  <2>11. \A i, j \in UsedEntries : dir'[i].cluster = dir'[j].cluster => i = j
    BY <2>1 DEF FirstClusterInv
  <2> QED
    BY <2>1, <2>4, <2>6, <2>7, <2>8, <2>9, <2>10, <2>11 DEF FirstClusterInv
<1>2. CASE CreateEntry
  <2>1. /\ request \in Creations /\ request.pc = "entry" /\ request' = [request EXCEPT !.pc = "contents"]
        /\ request.index \in DOMAIN dir /\ request.index \notin UsedEntries
        /\ dir' = [dir EXCEPT ![request.index] = Entry(request.name, request.cluster)]
        /\ UsedEntries' = UsedEntries \union {request.index} /\ UNCHANGED <<FsInfo, faults>>
    BY <1>2, CreateEntryAddsFile DEF CreateEntry
  <2>2. request'.pc = "contents" /\ request'.cluster = request.cluster /\ Creating
    BY <2>1 DEF Creations, Creating
  <2>3. dir'[request.index].cluster = request.cluster /\ \A i \in UsedEntries : dir'[i] = dir[i]
    BY <2>1 DEF Entry, UsedEntries
  <2>4. k' = k + 1
    BY <2>1, DirectoryType, FS_AddElement
  <2>5. \A i \in UsedEntries : dir[i].cluster # request.cluster
    BY <2>1 DEF FirstClusterInv
  <2>6. (\A i, j \in UsedEntries : dir[i].cluster = dir[j].cluster => i = j)'
    BY <2>1, <2>3, <2>5 DEF FirstClusterInv
  <2>7. ~Growing' /\ One(request.pc = "entry")' = 0 /\ One(request.pc = "entry") = 1
    BY <2>1, <2>2 DEF Growing, One
  <2>8. FsInfo.Free_Count # 0 =>
          /\ \A i \in UsedEntries' : Age(dir'[i].cluster) < Age(n)
          /\ Age(request'.cluster) < Age(n) /\ Age(n) <= EntriesPerFat + 1 + k' + 0 + faults
    BY <1>0, <2>1, <2>2, <2>3, <2>4, <2>7 DEF FirstClusterInv
  <2> QED
    BY <1>0, <2>1, <2>2, <2>4, <2>6, <2>7, <2>8 DEF FirstClusterInv
<1>3. CASE request.pc = "count" /\ (WriteFsInfo \/ AccessFailsUnnoticed)
  <2>1. Growing /\ Accessing /\ Moves /\ UNCHANGED <<FAT, dir>> /\ FsInfo'.Nxt_Free = request.new
    BY <1>3 DEF WriteFsInfo, AccessFailsUnnoticed, Growing, Accessing, Moves
  <2>2. FsInfo.Free_Count # 0 /\ Age(request.new) >= Age(n) /\ request.new \in Clusters
    BY <2>1 DEF FirstClusterInv, ChainInv, IsCluster
  <2>3. request'.pc = "write"
    BY <2>1, AccessFields DEF Moves, Accesses
  <2>4. UsedEntries' = UsedEntries
    BY <2>1 DEF UsedEntries, Used
  <2>5. Age(request.new) \in Nat /\ Age(request.new) <= EntriesPerFat
    <3>1. Clusters = 2 .. CountOfClusters + 1 /\ EntriesPerFat = CountOfClusters + 2 /\ CountOfClusters \in Nat
      BY Geometry
    <3>2. Age(request.new) = request.new + 1
      BY <2>2, AgeOrder
    <3> QED
      BY <2>2, <3>1, <3>2
  <2>6. ~Growing' /\ ~Creating' /\ One(request.pc = "entry")' = 0
    BY <2>3 DEF Growing, Creating, One
  <2>7. \A i \in UsedEntries : Age(dir[i].cluster) < Age(n)
    BY <2>2 DEF FirstClusterInv
  <2>8. \A i \in UsedEntries : Age(dir'[i].cluster) < Age(request.new)
    BY <1>0, <2>1, <2>2, <2>5, <2>7
  <2>9. k' = k /\ Age(request.new) <= EntriesPerFat + 1 + k + 0 + faults'
    BY <1>0, <2>4, <2>5
  <2>10. \A i, j \in UsedEntries : dir'[i].cluster = dir'[j].cluster => i = j
    BY <2>1 DEF FirstClusterInv
  <2> QED
    BY <1>0, <2>1, <2>3, <2>4, <2>6, <2>8, <2>9, <2>10 DEF FirstClusterInv
<1>4. CASE /\ ~CreateEntry /\ ~(request.pc = "count" /\ (WriteFsInfo \/ AccessFailsUnnoticed))
           /\ \A h \in Handles, name \in Names : ~CreateFsInfo(h, name)
  <2>0. SameFiles
    BY <1>4, DirectorySteps, UnchangedFiles, FinishKeepsFiles
  <2>1. UsedEntries' = UsedEntries /\ \A i \in UsedEntries : dir'[i].cluster = dir[i].cluster
    BY <2>0, SameFilesStay DEF SameFiles, UsedEntries
  <2>2. FsInfo'.Free_Count = 0 \/ UNCHANGED FsInfo
    BY <1>4, FsInfoSteps DEF NoCluster, AccessFailsUnnoticed, WriteFsInfo
  <2>3. (\A i, j \in UsedEntries : dir[i].cluster = dir[j].cluster => i = j)'
    BY <2>1 DEF FirstClusterInv
  <2>4. request'.pc = "entry" => UNCHANGED request
    <3> SUFFICES ASSUME request'.pc = "entry" PROVE UNCHANGED request
      OBVIOUS
    <3>1. Creating'
      BY DEF Creating
    <3>2. ~(request \in Creations /\ request' = [request EXCEPT !.pc = "mark"])
      BY DEF Creations
    <3> QED
      BY <1>4, <3>1, <3>2, CreationSteps
  <2>5. (request.pc = "entry" => \A i \in UsedEntries : dir[i].cluster # request.cluster)'
    BY <2>1, <2>4 DEF FirstClusterInv
  <2>6. Growing' => FsInfo'.Free_Count # 0 /\ Age(request'.new) >= Age(FsInfo'.Nxt_Free)
    <3> SUFFICES ASSUME Growing' PROVE FsInfo'.Free_Count # 0 /\ Age(request'.new) >= Age(FsInfo'.Nxt_Free)
      OBVIOUS
    <3>1. CASE UNCHANGED <<request, FsInfo, dir>>
      BY <3>1 DEF FirstClusterInv, Growing
    <3>2. CASE ReserveCluster
      <4>1. Accessing /\ FsInfo.Free_Count # 0 /\ FirstFreeCluster(n) # 0 /\ UNCHANGED FsInfo
        BY <3>2 DEF ReserveCluster, Accessing
      <4>2. Age(FirstFreeCluster(n)) >= Age(n)
        <5>1. PICK f : f = FirstFreeCluster(n)
          OBVIOUS
        <5>2. f \in Clusters /\ f >= n
          BY <1>0, <4>1, <5>1, FirstFreeClusterIsFree DEF IsCluster
        <5>3. Age(f) = f + 1 /\ f \in Nat /\ FAT32_UNKNOWN \in Nat
          BY <5>2, AgeOrder, Geometry
        <5>4. Age(n) <= n + 1
          BY <1>0, <5>3 DEF Age
        <5> QED
          BY <1>0, <5>1, <5>2, <5>3, <5>4
      <4>3. request'.new = FirstFreeCluster(n)
        BY <3>2, <4>1, AccessFields DEF ReserveCluster, Accesses
      <4> QED
        BY <4>1, <4>2, <4>3
    <3>3. CASE LinkCluster
      <4>1. Accessing /\ Growing /\ UNCHANGED FsInfo /\ request' = [request EXCEPT !.pc = "count"]
        BY <3>3 DEF LinkCluster, Accessing, Growing, Goto
      <4>2. request'.new = request.new
        BY <4>1, AccessFields DEF Accesses
      <4> QED
        BY <4>1, <4>2 DEF FirstClusterInv
    <3> QED
      BY <3>1, <3>2, <3>3, GrowingSteps
  <2>7. Creating' => request'.cluster = request.cluster /\ Creating
    <3> SUFFICES ASSUME Creating' PROVE request'.cluster = request.cluster /\ Creating
      OBVIOUS
    <3>1. UNCHANGED request \/ (request.pc = "contents" /\ request \in Creations
                                /\ request' = [request EXCEPT !.pc = "mark"])
      BY <1>4, CreationSteps
    <3> QED
      BY <3>1 DEF Creating, Creations
  <2>8. One(request.pc = "entry") + faults <= One(request.pc = "entry")' + faults'
    <3>1. CASE request.pc = "entry"
      <4>1. faults' = faults + 1
        BY <1>4, <3>1, EntryFails DEF Fault
      <4> QED
        BY <1>0, <3>1, <4>1 DEF One
    <3>2. CASE request.pc # "entry"
      <4>1. One(request.pc = "entry") = 0 /\ One(request.pc = "entry")' \in {0, 1}
        BY <3>2 DEF One
      <4> QED
        BY <1>0, <4>1
    <3> QED
      BY <3>1, <3>2
  <2>9. FsInfo'.Free_Count # 0 =>
          /\ \A i \in UsedEntries' : Age(dir'[i].cluster) < Age(FsInfo'.Nxt_Free)
          /\ Creating' => Age(request'.cluster) < Age(FsInfo'.Nxt_Free)
          /\ Age(FsInfo'.Nxt_Free) <= EntriesPerFat + 1 + k' + One(request.pc = "entry")' + faults'
    <3> SUFFICES ASSUME FsInfo'.Free_Count # 0
                 PROVE  /\ \A i \in UsedEntries' : Age(dir'[i].cluster) < Age(FsInfo'.Nxt_Free)
                        /\ Creating' => Age(request'.cluster) < Age(FsInfo'.Nxt_Free)
                        /\ Age(FsInfo'.Nxt_Free) <= EntriesPerFat + 1 + k' + One(request.pc = "entry")' + faults'
      OBVIOUS
    <3>1. UNCHANGED FsInfo /\ FsInfo.Free_Count # 0 /\ k' = k
      BY <2>1, <2>2
    <3>2. \A i \in UsedEntries' : Age(dir'[i].cluster) < Age(FsInfo'.Nxt_Free)
      BY <2>1, <3>1 DEF FirstClusterInv
    <3>3. Creating' => Age(request'.cluster) < Age(FsInfo'.Nxt_Free)
      BY <2>7, <3>1 DEF FirstClusterInv
    <3>4. Age(n) <= EntriesPerFat + 1 + k + One(request.pc = "entry") + faults
      BY <3>1 DEF FirstClusterInv
    <3>5. One(request.pc = "entry") \in Nat /\ One(request.pc = "entry")' \in Nat
      BY DEF One
    <3>6. Age(n) <= EntriesPerFat + 1 + k + One(request.pc = "entry")' + faults'
      BY <1>0, <2>8, <3>4, <3>5
    <3> QED
      BY <3>1, <3>2, <3>3, <3>6
  <2> QED
    BY <2>3, <2>5, <2>6, <2>9 DEF FirstClusterInv
<1> QED
  BY <1>1, <1>2, <1>3, <1>4

-----------------------------------------------------------------------------
(* Chains: a cluster is marked as the end before it is linked.             *)

\* An end mark put anywhere makes no cycle and leaves no link to a free cluster.
LEMMA EndMarkKeepsChains ==
    ASSUME FatAssumption, FatTypes, ChainInv, NEW x \in Clusters, FAT' = [FAT EXCEPT ![x] = FAT32_EOC_MARK]
    PROVE  Acyclic' /\ (\A c \in Clusters : Link(c) => FAT[FAT[c]] # Free)'
<1>0. /\ FAT \in [Clusters -> Clusters \union {Free, FAT32_EOC_MARK}]
      /\ FAT32_EOC_MARK \notin Clusters /\ FAT32_EOC_MARK # Free
  BY Geometry DEF FatTypes
<1>1. \A c \in Clusters : FAT'[c] = FAT[c] \/ FAT'[c] = FAT32_EOC_MARK
  BY <1>0
<1>2. Acyclic'
  BY <1>0, <1>1 DEF Acyclic, ChainInv
<1>3. ASSUME NEW c \in Clusters, FAT'[c] \in Clusters PROVE FAT'[FAT'[c]] # Free
  <2>1. FAT'[c] = FAT[c] /\ FAT[FAT[c]] # Free
    BY <1>0, <1>1, <1>3 DEF ChainInv, Link, IsCluster
  <2> QED
    BY <1>0, <1>1, <1>3, <2>1
<1> QED
  BY <1>2, <1>3 DEF Link, IsCluster

\* A link to a cluster at the end of another chain makes no cycle.
LEMMA LinkKeepsChains ==
    ASSUME FatAssumption, FatTypes, ChainInv, NEW x \in Clusters, NEW y \in Clusters, x # y,
           FAT[y] = FAT32_EOC_MARK, FAT' = [FAT EXCEPT ![x] = y]
    PROVE  Acyclic' /\ (\A c \in Clusters : Link(c) => FAT[FAT[c]] # Free)'
<1>0. /\ FAT \in [Clusters -> Clusters \union {Free, FAT32_EOC_MARK}]
      /\ FAT32_EOC_MARK \notin Clusters /\ FAT32_EOC_MARK # Free /\ Free \notin Clusters
  BY Geometry DEF FatTypes
<1>1. FAT'[x] = y /\ FAT'[y] = FAT32_EOC_MARK /\ \A c \in Clusters : c # x => FAT'[c] = FAT[c]
  BY <1>0
<1>2. Acyclic'
  <2> SUFFICES ASSUME NEW S \in SUBSET Clusters, S # {} PROVE \E c \in S : FAT'[c] \notin S
    BY DEF Acyclic
  <2>1. CASE y \in S
    BY <1>0, <1>1, <2>1
  <2>2. CASE y \notin S
    <3>1. PICK c \in S : FAT[c] \notin S
      BY DEF ChainInv, Acyclic
    <3> QED
      BY <1>1, <2>2, <3>1
  <2> QED
    BY <2>1, <2>2
<1>3. ASSUME NEW c \in Clusters, FAT'[c] \in Clusters PROVE FAT'[FAT'[c]] # Free
  <2>1. CASE FAT'[c] = x
    BY <1>0, <1>1, <2>1
  <2>2. CASE FAT'[c] # x /\ c = x
    BY <1>0, <1>1, <2>2
  <2>3. CASE FAT'[c] # x /\ c # x
    BY <1>1, <1>3, <2>3 DEF ChainInv, Link, IsCluster
  <2> QED
    BY <2>1, <2>2, <2>3
<1> QED
  BY <1>2, <1>3 DEF Link, IsCluster

LEMMA ChainStep ==
    ASSUME FatAssumption, FatBounds, FatTypes, DirectoryInv, ChainInv, FatNext, request' # Astray
    PROVE  ChainInv'
<1> DEFINE Whole == Acyclic /\ \A c \in Clusters : Link(c) => FAT[FAT[c]] # Free
<1>0. FAT \in [Clusters -> Clusters \union {Free, FAT32_EOC_MARK}] /\ FAT32_EOC_MARK # Free
  BY Geometry DEF FatTypes
<1>1. CASE ReserveCluster
  <2>1. Accessing /\ FirstFreeCluster(FsInfo.Nxt_Free) # 0 /\ FsInfo.Nxt_Free \in Nat
    BY <1>1 DEF ReserveCluster, Accessing, FatTypes, FieldValues
  <2>2. PICK f : f = FirstFreeCluster(FsInfo.Nxt_Free)
    OBVIOUS
  <2>3. f \in Clusters /\ FAT[f] = Free
    BY <2>1, <2>2, FirstFreeClusterIsFree DEF IsCluster
  <2>4. /\ FAT' = [FAT EXCEPT ![f] = FAT32_EOC_MARK] /\ FAT[request.cluster] = FAT32_EOC_MARK
        /\ request' = [request EXCEPT !.pc = "link", !.new = f] /\ request.links > 0
    BY <1>1, <2>2 DEF ReserveCluster
  <2>5. Whole'
    BY <2>3, <2>4, EndMarkKeepsChains
  <2>6. /\ request'.pc = "link" /\ request'.new = f /\ request'.cluster = request.cluster
        /\ request'.links = request.links /\ request.cluster \in Clusters
    BY <2>1, <2>4, AccessFields DEF Accesses
  <2>7. request.cluster # f
    BY <1>0, <2>3, <2>4
  <2>8. FAT'[f] = FAT32_EOC_MARK /\ FAT'[request.cluster] = FAT32_EOC_MARK
    BY <1>0, <2>3, <2>4, <2>6, <2>7
  <2> QED
    BY <2>3, <2>4, <2>5, <2>6, <2>7, <2>8 DEF ChainInv, IsCluster
<1>2. CASE LinkCluster
  <2>1. /\ request.pc = "link" /\ Growing /\ Accessing /\ request' = [request EXCEPT !.pc = "count"]
        /\ FAT' = [FAT EXCEPT ![request.cluster] = request.new]
    BY <1>2 DEF LinkCluster, Growing, Accessing, Goto
  <2>2. /\ request.cluster \in Clusters /\ request.new \in Clusters /\ FAT[request.new] = FAT32_EOC_MARK
        /\ request.new # request.cluster /\ request.links > 0
    BY <2>1, AccessFields DEF ChainInv, IsCluster
  <2>3. Whole'
    BY <2>1, <2>2, LinkKeepsChains
  <2>4. /\ request'.pc = "count" /\ request'.new = request.new /\ request'.cluster = request.cluster
        /\ request'.links = request.links
    BY <2>1, AccessFields DEF Accesses
  <2>5. FAT'[request.cluster] = request.new /\ FAT'[request.new] = FAT32_EOC_MARK
    BY <1>0, <2>1, <2>2
  <2> QED
    BY <2>2, <2>3, <2>4, <2>5 DEF ChainInv, IsCluster
<1>3. CASE ~ReserveCluster /\ ~LinkCluster
  <2>1. Whole'
    <3>1. CASE UNCHANGED FAT
      BY <3>1 DEF ChainInv, Acyclic, Link, IsCluster
    <3>2. CASE CreateMark
      <4>1. request.pc = "mark" /\ FAT' = [FAT EXCEPT ![request.cluster] = FAT32_EOC_MARK]
        BY <3>2 DEF CreateMark
      <4>2. CASE request.cluster \in Clusters
        BY <4>1, <4>2, EndMarkKeepsChains
      <4>3. CASE request.cluster \notin Clusters
        <5>1. UNCHANGED FAT
          BY <1>0, <4>1, <4>3
        <5> QED
          BY <3>1, <5>1
      <4> QED
        BY <4>2, <4>3
    <3>3. CASE RepairEnd
      <4>1. Accessing /\ FAT' = [FAT EXCEPT ![request.cluster] = FAT32_EOC_MARK]
        BY <3>3 DEF RepairEnd, Accessing
      <4> QED
        BY <4>1, AccessFields, EndMarkKeepsChains
    <3> QED
      BY <1>3, <3>1, <3>2, <3>3, FatSteps
  <2>2. Growing' => UNCHANGED request /\ UNCHANGED FAT
    <3> SUFFICES ASSUME Growing' PROVE UNCHANGED request /\ UNCHANGED FAT
      OBVIOUS
    <3>1. UNCHANGED request
      BY <1>3, GrowingSteps
    <3>2. ~CreateMark /\ ~RepairEnd
      BY <3>1 DEF Growing, CreateMark, RepairEnd
    <3> QED
      BY <1>3, <3>1, <3>2, FatSteps
  <2> QED
    BY <2>1, <2>2 DEF ChainInv, Growing, IsCluster
<1> QED
  BY <1>1, <1>2, <1>3

\* The root directory: a write to its cluster is where the driver goes astray.
LEMMA RootStep ==
    ASSUME FatAssumption, FatBounds, FatTypes, ChainInv, RootInv, FatNext, request' # Astray
    PROVE  RootInv'
<1>0. /\ FAT \in [Clusters -> Clusters \union {Free, FAT32_EOC_MARK}] /\ FAT32_EOC_MARK # Free
      /\ RootCluster \in Clusters /\ FAT32_EOC_MARK \notin Clusters
  BY Geometry DEF FatTypes, RootCluster
<1>1. FAT'[RootCluster] = FAT32_EOC_MARK /\ \A c \in Clusters : FAT'[c] # RootCluster
  <2>1. ASSUME NEW x, FAT' = [FAT EXCEPT ![x] = FAT32_EOC_MARK]
        PROVE  FAT'[RootCluster] = FAT32_EOC_MARK /\ \A c \in Clusters : FAT'[c] # RootCluster
    BY <1>0, <2>1 DEF RootInv
  <2>2. CASE LinkCluster
    <3>1. /\ Accessing /\ request.cluster # RootCluster /\ request.new # RootCluster
          /\ FAT' = [FAT EXCEPT ![request.cluster] = request.new]
      BY <2>2 DEF LinkCluster, RootInv, Growing, Accessing
    <3> QED
      BY <1>0, <3>1 DEF RootInv
  <2>3. CASE CreateMark \/ RepairEnd \/ ReserveCluster
    <3>1. \E x : FAT' = [FAT EXCEPT ![x] = FAT32_EOC_MARK]
      BY <2>3 DEF CreateMark, RepairEnd, ReserveCluster
    <3> QED
      BY <2>1, <3>1
  <2>4. CASE UNCHANGED FAT
    BY <2>4 DEF RootInv
  <2> QED
    BY <2>2, <2>3, <2>4, FatSteps
<1> DEFINE Kept == /\ request'.pc \in {"write", "link"} => request'.cluster # RootCluster
                   /\ request'.pc \in {"link", "count"} => request'.new # RootCluster
<1> SUFFICES Kept
  BY <1>1 DEF RootInv, Growing
<1>2. CASE Stops
  BY <1>2 DEF Stops, Idle, Halted
<1>3. CASE UNCHANGED <<request, FsInfo, dir>>
  BY <1>3 DEF RootInv, Growing
<1>4. CASE Creating'
  BY <1>4 DEF Creating
<1>5. ASSUME NEW h \in Handles, NEW kind \in {"read", "write"}, NEW o \in 0 .. MaxOffset,
             NEW l \in 1 .. MaxLength, FileSectorIsAligned(h), IoReadWriteFile(h, kind, o, l)
      PROVE  Kept
  <2>1. /\ request'.pc = kind /\ request'.cluster = ClusterOfSector(request'.base)
        /\ request'.base \in FirstSectors
    BY <1>5, AccessStart
  <2>2. request'.base = fcb[h] /\ (kind = "read" \/ fcb[h] # FirstSectorOfCluster(RootCluster))
    BY <1>5 DEF IoReadWriteFile
  <2>3. PICK c \in Clusters : request'.base = FirstSectorOfCluster(c)
    BY <2>1 DEF FirstSectors, IsCluster
  <2>4. ClusterOfSector(request'.base) = c
    <3>1. c \in Int
      BY Geometry
    <3> QED
      BY <2>3, <3>1, SectorRoundTrip
  <2> QED
    BY <2>1, <2>2, <2>3, <2>4
<1>6. CASE FollowLink
  <2>1. Accessing /\ request.pc \in {"read", "write"}
        /\ request' = [request EXCEPT !.cluster = FAT[request.cluster], !.links = request.links - 1,
                                      !.seek = request.seek - 1]
    BY <1>6 DEF FollowLink, Accessing
  <2>2. /\ request'.pc = request.pc /\ request'.cluster = FAT[request.cluster]
        /\ request.cluster \in Clusters
    BY <2>1, AccessFields DEF Accesses
  <2> QED
    BY <2>1, <2>2 DEF RootInv
<1>7. CASE ReserveCluster
  <2>1. PICK f : f = FirstFreeCluster(FsInfo.Nxt_Free)
    OBVIOUS
  <2>2. /\ Accessing /\ request.pc = "write" /\ f # 0 /\ FsInfo.Nxt_Free \in Nat
        /\ request' = [request EXCEPT !.pc = "link", !.new = f]
    BY <1>7, <2>1 DEF ReserveCluster, Accessing, FatTypes, FieldValues
  <2>3. f # RootCluster
    BY <1>0, <2>1, <2>2, FirstFreeClusterIsFree DEF RootInv
  <2>4. request'.pc = "link" /\ request'.cluster = request.cluster /\ request'.new = f
    BY <2>2, AccessFields DEF Accesses
  <2> QED
    BY <2>2, <2>3, <2>4 DEF RootInv
<1>8. CASE LinkCluster
  <2>1. Accessing /\ Growing /\ request' = [request EXCEPT !.pc = "count"]
    BY <1>8 DEF LinkCluster, Accessing, Growing, Goto
  <2>2. request'.pc = "count" /\ request'.new = request.new
    BY <2>1, AccessFields DEF Accesses
  <2> QED
    BY <2>1, <2>2 DEF RootInv
<1>9. CASE request.pc \in {"link", "count"} /\ Moves
  <2>1. Accessing /\ Growing
    BY <1>9 DEF Accessing, Growing
  <2>2. request'.pc = "write" /\ request'.cluster = request.new
    BY <1>9, <2>1, AccessFields DEF Moves, Accesses
  <2> QED
    BY <2>1, <2>2 DEF RootInv
<1>10. ASSUME NEW h \in Handles, NEW n \in Names, CreateFsInfo(h, n) PROVE Creating'
  BY <1>10, CreationStart DEF Creating
<1>11. CASE CreateEntry
  <2>1. request \in Creations /\ request' = [request EXCEPT !.pc = "contents"]
    BY <1>11, CreationFields DEF CreateEntry, Goto, Creating
  <2> QED
    BY <1>4, <2>1 DEF Creations, Creating
<1>12. CASE request.pc = "contents" /\ IsCluster(request.cluster) /\ CreateContents
  <2>1. request \in Creations /\ request' = [request EXCEPT !.pc = "mark"]
    BY <1>12, CreationFields DEF CreateContents, Goto, Creating
  <2> QED
    BY <1>4, <2>1 DEF Creations, Creating
<1> QED
  BY <1>2, <1>3, <1>4, <1>5, <1>6, <1>7, <1>8, <1>9, <1>10, <1>11, <1>12, RequestSteps

-----------------------------------------------------------------------------
(* Sizes and counts, as long as nothing fails.                             *)

\* The steps that are no faults.  Quiet: a request is refused or over, or a
\* handle is opened or closed.
Quiet ==
    /\ request' \in {Idle, Halted} /\ ~Creating /\ ~Growing
    /\ UNCHANGED <<FAT, dir, faults>>
    /\ FsInfo'.Free_Count = 0 \/ UNCHANGED FsInfo

LEMMA FaultlessSteps ==
    ASSUME FatBounds, FatTypes, FatNext, request' # Astray, faults' = 0
    PROVE  /\ faults = 0
           /\ \/ \E h \in Handles, n \in Names : CreateFsInfo(h, n)
              \/ CreateEntry \/ CreateContents \/ CreateMark
              \/ \E h \in Handles, kind \in {"read", "write"}, o \in 0 .. MaxOffset, l \in 1 .. MaxLength :
                    FileSectorIsAligned(h) /\ IoReadWriteFile(h, kind, o, l)
              \/ RepairEnd \/ FollowLink \/ ReserveCluster \/ LinkCluster \/ WriteFsInfo \/ FinishReadWrite
              \/ Quiet
<1>1. faults = 0 /\ ~Fault
  <2>1. faults \in Nat
    BY DEF FatTypes, FatBounds
  <2> QED
    BY <2>1, TypeOfFaults DEF Fault, FatTypes, FatBounds
<1>2. ASSUME NEW h \in Handles PROVE IoCloseFile(h) \/ UseWithoutFcb(h) => Quiet
  BY DEF IoCloseFile, UseWithoutFcb, UseOfSectorZero, WriteToRoot, Quiet, volumeVars, Idle, Halted,
         Creating, Growing
<1>3. ASSUME NEW h \in Handles, NEW n \in Names, IoOpenFile(h, n) PROVE Quiet
  BY <1>1, <1>3 DEF IoOpenFile, Open, Quiet, volumeVars, Idle, Halted, Creating, Growing
<1>4. ASSUME NEW h \in Handles, NEW kind \in {"read", "write"}, NEW o \in 0 .. MaxOffset,
             NEW l \in 1 .. MaxLength, IoReadWriteFile(h, kind, o, l), ~FileSectorIsAligned(h)
      PROVE  Quiet
  BY <1>4 DEF IoReadWriteFile, Quiet, volumeVars, Idle, Halted, Creating, Growing
<1>5. ReadPastEnd \/ NoCluster => Quiet
  BY DEF ReadPastEnd, NoCluster, Quiet, volumeVars, Complete, Creating, Growing
<1>6. ~PowerLoss /\ ~AccessFails /\ ~AccessFailsUnnoticed
  BY <1>1 DEF PowerLoss, AccessFails, AccessFailsUnnoticed
<1>7. CASE \E h \in Handles : IoCloseFile(h) \/ UseWithoutFcb(h)
  BY <1>1, <1>2, <1>7
<1>8. CASE \E h \in Handles, n \in Names : IoOpenFile(h, n) \/ CreateFsInfo(h, n)
  BY <1>1, <1>3, <1>8
<1>9. CASE \E h \in Handles, kind \in {"read", "write"}, o \in 0 .. MaxOffset, l \in 1 .. MaxLength :
              IoReadWriteFile(h, kind, o, l)
  BY <1>1, <1>4, <1>9
<1>10. ASSUME NEW h \in Handles, NEW o \in 0 .. MaxOffset
       PROVE  (UseOfSectorZero(h, o) => Quiet) /\ ~WriteToRoot(h, o)
  BY DEF UseOfSectorZero, WriteToRoot, Quiet, volumeVars, Idle, Halted, Creating, Growing
<1>11. CASE \E h \in Handles, o \in 0 .. MaxOffset : UseOfSectorZero(h, o) \/ WriteToRoot(h, o)
  BY <1>1, <1>10, <1>11
<1> QED
  BY <1>1, <1>5, <1>6, <1>7, <1>8, <1>9, <1>11 DEF FatNext

LEMMA LeadsHere ==
    ASSUME NEW f, NEW c \in Clusters PROVE Leads(f, c, 0, c)
<1> DEFINE p == [i \in 0 .. 0 |-> c]
<1>1. p \in [0 .. 0 -> Clusters] /\ p[0] = c /\ IsPath(f, p, 0)
  BY DEF IsPath
<1> QED
  BY <1>1 DEF Leads

LEMMA LeadsOn ==
    ASSUME NEW f, NEW c, NEW k \in Nat, NEW d, Leads(f, c, k, d), f[d] \in Clusters
    PROVE  Leads(f, c, k + 1, f[d])
<1>1. PICK p \in [0 .. k -> Clusters] : p[0] = c /\ p[k] = d /\ IsPath(f, p, k)
  BY DEF Leads
<1> DEFINE q == [i \in 0 .. k + 1 |-> IF i = k + 1 THEN f[d] ELSE p[i]]
<1>2. q \in [0 .. k + 1 -> Clusters] /\ q[0] = c /\ q[k + 1] = f[d] /\ q[k] = d
      /\ \A i \in 0 .. k : q[i] = p[i]
  BY <1>1
<1>3. ASSUME NEW i \in 1 .. k + 1 PROVE f[q[i - 1]] = q[i]
  <2>1. CASE i = k + 1
    <3>1. i - 1 = k
      BY <2>1
    <3> QED
      BY <1>2, <2>1, <3>1
  <2>2. CASE i # k + 1
    <3>1. i \in 1 .. k /\ i \in 0 .. k /\ i - 1 \in 0 .. k
      BY <2>2
    <3>2. f[p[i - 1]] = p[i]
      BY <1>1, <3>1 DEF IsPath
    <3> QED
      BY <1>2, <3>1, <3>2
  <2> QED
    BY <2>1, <2>2
<1> HIDE DEF q
<1>4. IsPath(f, q, k + 1)
  BY <1>3 DEF IsPath
<1> QED
  BY <1>2, <1>4 DEF Leads

\* A path stays as long as its links do.
LEMMA LeadsStay ==
    ASSUME NEW f, NEW g, \A x \in Clusters : f[x] \in Clusters => g[x] = f[x],
           NEW c, NEW k \in Nat, NEW d, Leads(f, c, k, d)
    PROVE  Leads(g, c, k, d)
<1>1. PICK p \in [0 .. k -> Clusters] : p[0] = c /\ p[k] = d /\ IsPath(f, p, k)
  BY DEF Leads
<1>2. ASSUME NEW i \in 1 .. k PROVE g[p[i - 1]] = p[i]
  <2>1. i - 1 \in 0 .. k /\ i \in 0 .. k
    OBVIOUS
  <2>2. f[p[i - 1]] = p[i] /\ p[i - 1] \in Clusters /\ p[i] \in Clusters
    BY <1>1, <2>1 DEF IsPath
  <2> QED
    BY <2>2
<1>3. IsPath(g, p, k)
  BY <1>2 DEF IsPath
<1> QED
  BY <1>1, <1>3 DEF Leads

\* No step without a fault changes a link or frees a cluster.
LEMMA LinksStay ==
    ASSUME FatAssumption, FatTypes, ChainInv, MarkInv, FatNext, request' # Astray
    PROVE  /\ \A c \in Clusters : FAT[c] \in Clusters => FAT'[c] = FAT[c]
           /\ \A c \in Clusters : FAT'[c] = Free => FAT[c] = Free
<1>0. FAT \in [Clusters -> Clusters \union {Free, FAT32_EOC_MARK}] /\ FAT32_EOC_MARK # Free
      /\ Free \notin Clusters /\ FAT32_EOC_MARK \notin Clusters
  BY Geometry DEF FatTypes
<1>1. CASE CreateMark
  <2>1. Creating /\ FAT' = [FAT EXCEPT ![request.cluster] = FAT32_EOC_MARK]
    BY <1>1 DEF CreateMark, Creating
  <2>2. request.cluster \in Clusters => FAT[request.cluster] \notin Clusters
    BY <2>1 DEF MarkInv, Link, IsCluster
  <2> QED
    BY <1>0, <2>1, <2>2
<1>2. CASE RepairEnd
  BY <1>0, <1>2 DEF RepairEnd
<1>3. CASE ReserveCluster
  <2>1. FsInfo.Nxt_Free \in Nat
    BY DEF FatTypes, FieldValues
  <2>2. FAT[FirstFreeCluster(FsInfo.Nxt_Free)] = Free
    BY <1>3, <2>1, FirstFreeClusterIsFree DEF ReserveCluster
  <2> QED
    BY <1>0, <1>3, <2>2 DEF ReserveCluster
<1>4. CASE LinkCluster
  <2>1. Growing /\ request.pc = "link" /\ FAT' = [FAT EXCEPT ![request.cluster] = request.new]
    BY <1>4 DEF LinkCluster, Growing
  <2>2. FAT[request.cluster] = FAT32_EOC_MARK /\ request.new \in Clusters
    BY <2>1 DEF ChainInv, IsCluster
  <2> QED
    BY <1>0, <2>1, <2>2
<1>5. CASE UNCHANGED FAT
  BY <1>5
<1> QED
  BY <1>1, <1>2, <1>3, <1>4, <1>5, FatSteps

\* What an access does with its request while nothing fails.
LEMMA AccessSteps ==
    ASSUME FatAssumption, FatBounds, FatTypes, ChainInv, FatNext, request' # Astray, faults' = 0, Accessing'
    PROVE  \/ \E h \in Handles, kind \in {"read", "write"}, o \in 0 .. MaxOffset, l \in 1 .. MaxLength :
                 FileSectorIsAligned(h) /\ IoReadWriteFile(h, kind, o, l)
           \/ Accessing /\ RepairEnd /\ UNCHANGED request
           \/ Accessing /\ (ReserveCluster \/ LinkCluster)
              /\ request'.cluster = request.cluster /\ request'.links = request.links
              /\ request'.base = request.base /\ request'.end = request.end
           \/ Accessing /\ (FollowLink \/ WriteFsInfo) /\ UNCHANGED <<FAT, dir>> /\ request.links > 0
              /\ request'.cluster = FAT[request.cluster] /\ FAT[request.cluster] \in Clusters
              /\ request'.links = request.links - 1
              /\ request'.base = request.base /\ request'.end = request.end
<1>1. ~Stops /\ ~Creating'
  BY DEF Stops, Idle, Halted, Accessing, Creating
<1>2. ASSUME NEW h \in Handles, NEW n \in Names PROVE ~CreateFsInfo(h, n)
  BY <1>1, CreationStart DEF Creating
<1>3. ~CreateEntry /\ ~CreateContents
  <2> SUFFICES ASSUME CreateEntry \/ CreateContents PROVE FALSE
    OBVIOUS
  <2>1. request \in Creations
    BY CreationFields DEF CreateEntry, CreateContents, Creating
  <2>2. request'.pc \in {"contents", "mark"} \/ Stops
    BY <2>1 DEF CreateEntry, CreateContents, Goto, Complete, Creations, Stops
  <2> QED
    BY <1>1, <2>2 DEF Creating
<1>4. ~CreateMark /\ ~FinishReadWrite /\ ~Quiet
  BY <1>1 DEF CreateMark, FinishReadWrite, Quiet, Complete, Stops
<1>5. CASE RepairEnd
  BY <1>5 DEF RepairEnd, Accessing
<1>6. CASE ReserveCluster \/ LinkCluster
  <2>1. Accessing
    BY <1>6 DEF ReserveCluster, LinkCluster, Accessing
  <2> QED
    BY <1>6, <2>1, AccessFields DEF ReserveCluster, LinkCluster, Goto, Accesses
<1>7. CASE FollowLink
  <2>1. Accessing /\ request.links > 0 /\ FAT[request.cluster] \in Clusters /\ UNCHANGED <<FAT, dir>>
        /\ request' = [request EXCEPT !.cluster = FAT[request.cluster], !.links = request.links - 1,
                                      !.seek = request.seek - 1]
    BY <1>7 DEF FollowLink, Accessing, IsCluster, volumeVars
  <2> QED
    BY <1>7, <2>1, AccessFields DEF Accesses
<1>8. CASE WriteFsInfo
  <2>1. Accessing /\ Growing /\ request.pc = "count" /\ UNCHANGED <<FAT, dir>>
        /\ request' = [request EXCEPT !.pc = "write", !.cluster = request.new, !.links = request.links - 1,
                                      !.seek = request.seek - 1]
    BY <1>8 DEF WriteFsInfo, Accessing, Growing
  <2>2. request.links > 0 /\ FAT[request.cluster] = request.new /\ request.new \in Clusters
    BY <2>1 DEF ChainInv, IsCluster
  <2> QED
    BY <1>8, <2>1, <2>2, AccessFields DEF Accesses
<1> QED
  BY <1>2, <1>3, <1>4, <1>5, <1>6, <1>7, <1>8, FaultlessSteps

LEMMA SizeStep ==
    ASSUME FatAssumption, FatBounds, FatTypes, DirectoryInv, ChainInv, SizeInv, MarkInv,
           FatNext, request' # Astray, faults' = 0
    PROVE  SizeInv'
<1>0. \A c \in Clusters : FAT[c] \in Clusters => FAT'[c] = FAT[c]
  BY LinksStay
<1>1. ASSUME NEW c, NEW k \in Nat, NEW d, Leads(FAT, c, k, d) PROVE Leads(FAT', c, k, d)
  BY <1>0, <1>1, LeadsStay
<1>2. \A i \in UsedEntries : dir[i].size \in Nat
  BY Numbers
<1>3. ASSUME NEW s \in Nat, s > 0 PROVE LastLink(s) \in Nat
  BY <1>3, LastLinkCovers
<1>4. ASSUME NEW i \in UsedEntries', dir'[i].size > 0
      PROVE  \E d \in Clusters : Leads(FAT', dir'[i].cluster, LastLink(dir'[i].size), d)
  <2>1. CASE i \in UsedEntries /\ dir'[i].size = dir[i].size /\ dir'[i].cluster = dir[i].cluster
    <3>1. PICK d \in Clusters : Leads(FAT, dir[i].cluster, LastLink(dir[i].size), d)
      BY <1>4, <2>1 DEF SizeInv
    <3>2. LastLink(dir[i].size) \in Nat
      BY <1>2, <1>3, <1>4, <2>1
    <3>3. Leads(FAT', dir[i].cluster, LastLink(dir[i].size), d)
      BY <1>1, <3>1, <3>2
    <3> QED
      BY <2>1, <3>3
  <2>2. CASE CreateEntry
    <3>1. /\ request.index \in DOMAIN dir /\ request.index \notin UsedEntries
          /\ dir' = [dir EXCEPT ![request.index] = Entry(request.name, request.cluster)]
          /\ UsedEntries' = UsedEntries \union {request.index}
      BY <2>2, CreateEntryAddsFile
    <3>2. i # request.index
      BY <1>4, <3>1 DEF Entry
    <3>3. i \in UsedEntries /\ dir'[i] = dir[i]
      BY <3>1, <3>2 DEF UsedEntries
    <3> QED
      BY <2>1, <3>3
  <2>3. CASE FinishReadWrite
    <3>1. /\ SameFiles /\ request.pc \in {"read", "write"} /\ request.links = 0 /\ i \in UsedEntries
          /\ dir'[i].size = dir[i].size \/ (dir'[i].size = request.end
                                            /\ dir[i].cluster = ClusterOfSector(request.base))
      BY <2>3, FinishKeepsFiles, SameFilesStay DEF UsedEntries
    <3>2. dir'[i].cluster = dir[i].cluster
      BY <3>1 DEF SameFiles, UsedEntries
    <3>3. Accessing
      BY <3>1 DEF Accessing
    <3>4. /\ Leads(FAT, ClusterOfSector(request.base), LastLink(request.end) - 0, request.cluster)
          /\ request.end \in Nat \ {0} /\ request.cluster \in Clusters
      BY <3>1, <3>3, AccessFields DEF SizeInv
    <3>5. LastLink(request.end) \in Nat /\ LastLink(request.end) - 0 = LastLink(request.end)
      BY <3>4, LastLinkCovers
    <3>6. Leads(FAT', ClusterOfSector(request.base), LastLink(request.end), request.cluster)
      BY <1>1, <3>4, <3>5
    <3> QED
      BY <2>1, <3>1, <3>2, <3>4, <3>6
  <2>4. CASE UNCHANGED dir
    <3>1. i \in UsedEntries
      BY <2>4, UnchangedFiles, SameFilesStay
    <3> QED
      BY <2>1, <2>4, <3>1
  <2> QED
    BY <2>2, <2>3, <2>4, DirectorySteps
<1>5. ASSUME Accessing'
      PROVE  /\ request'.links <= LastLink(request'.end)
             /\ Leads(FAT', ClusterOfSector(request'.base), LastLink(request'.end) - request'.links, request'.cluster)
  <2>0. ASSUME Accessing
        PROVE  /\ request.links \in Nat /\ LastLink(request.end) \in Nat
               /\ request.links <= LastLink(request.end) /\ LastLink(request.end) - request.links \in Nat
               /\ Leads(FAT, ClusterOfSector(request.base), LastLink(request.end) - request.links, request.cluster)
    <3>1. request.links \in Nat /\ request.end \in Nat \ {0}
      BY <2>0, AccessFields
    <3>2. LastLink(request.end) \in Nat
      BY <3>1, LastLinkCovers
    <3>3. request.links <= LastLink(request.end)
      BY <2>0 DEF SizeInv
    <3>4. Leads(FAT, ClusterOfSector(request.base), LastLink(request.end) - request.links, request.cluster)
      BY <2>0 DEF SizeInv
    <3> QED
      BY <3>1, <3>2, <3>3, <3>4
  <2>1. ASSUME NEW h \in Handles, NEW kind \in {"read", "write"}, NEW o \in 0 .. MaxOffset,
               NEW l \in 1 .. MaxLength, FileSectorIsAligned(h), IoReadWriteFile(h, kind, o, l)
        PROVE  /\ request'.links <= LastLink(request'.end)
               /\ Leads(FAT', ClusterOfSector(request'.base), LastLink(request'.end) - request'.links, request'.cluster)
    <3>1. /\ request' \in Accesses /\ request'.cluster = ClusterOfSector(request'.base)
          /\ request'.links = LastLink(request'.end)
      BY <2>1, AccessStart
    <3>2. request'.cluster \in Clusters /\ request'.links \in Nat
      BY <3>1 DEF Accesses
    <3>3. LastLink(request'.end) - request'.links = 0 /\ request'.links <= LastLink(request'.end)
      BY <3>1, <3>2
    <3>4. Leads(FAT', request'.cluster, 0, request'.cluster)
      BY <3>2, LeadsHere
    <3> QED
      BY <3>1, <3>3, <3>4
  <2>2. CASE Accessing /\ UNCHANGED request
    BY <1>1, <2>0, <2>2
  <2>3. CASE /\ Accessing /\ request'.cluster = request.cluster /\ request'.links = request.links
             /\ request'.base = request.base /\ request'.end = request.end
    BY <1>1, <2>0, <2>3
  <2>4. CASE /\ Accessing /\ UNCHANGED <<FAT, dir>> /\ request.links > 0
             /\ request'.cluster = FAT[request.cluster] /\ FAT[request.cluster] \in Clusters
             /\ request'.links = request.links - 1
             /\ request'.base = request.base /\ request'.end = request.end
    <3>1. PICK m \in Nat : m = LastLink(request.end) - request.links
      BY <2>0, <2>4
    <3>2. Leads(FAT, ClusterOfSector(request.base), m + 1, FAT[request.cluster])
      BY <2>0, <2>4, <3>1, LeadsOn
    <3>3. m + 1 = LastLink(request'.end) - request'.links /\ request'.links <= LastLink(request'.end)
      BY <2>0, <2>4, <3>1
    <3> QED
      BY <2>4, <3>2, <3>3
  <2> QED
    BY <1>5, <2>1, <2>2, <2>3, <2>4, AccessSteps
<1> QED
  BY <1>4, <1>5 DEF SizeInv

\* The clusters behind FSI_Nxt_Free stay free until one of them is reserved.
LEMMA BehindStep ==
    ASSUME FatAssumption, FatBounds, FatTypes, FirstClusterInv, RootInv, ChainInv, MarkInv,
           FatNext, request' # Astray, faults' = 0, FsInfo'.Free_Count # 0, NEW c \in Clusters
    PROVE  /\ Age(c) > Age(FsInfo'.Nxt_Free) /\ c # RootCluster
                 => FAT'[c] = Free \/ (Growing' /\ c = request'.new)
           /\ c = FsInfo'.Nxt_Free /\ FAT'[c] \in Clusters => request'.pc = "count"
<1> DEFINE n == FsInfo.Nxt_Free
           Goal == /\ Age(c) > Age(FsInfo'.Nxt_Free) /\ c # RootCluster
                         => FAT'[c] = Free \/ (Growing' /\ c = request'.new)
                   /\ c = FsInfo'.Nxt_Free /\ FAT'[c] \in Clusters => request'.pc = "count"
<1>0. /\ Age(n) \in Nat /\ Age(c) \in Nat
      /\ FAT \in [Clusters -> Clusters \union {Free, FAT32_EOC_MARK}] /\ FAT32_EOC_MARK # Free
      /\ Free \notin Clusters /\ FAT32_EOC_MARK \notin Clusters
  <2>1. Age(c) \in Nat
    <3>1. Age(c) = c + 1 /\ c \in Nat
      BY AgeOrder, Geometry
    <3> QED
      BY <3>1
  <2>2. Age(n) \in Nat
    BY AgeOrder DEF FatTypes
  <2> QED
    BY <2>1, <2>2, Geometry DEF FatTypes
<1>i. FsInfo.Free_Count # 0 =>
          /\ Age(c) > Age(n) /\ c # RootCluster => FAT[c] = Free \/ (Growing /\ c = request.new)
          /\ c = n /\ FAT[c] \in Clusters => request.pc = "count"
  BY DEF MarkInv, Link, IsCluster
<1>r. FAT[RootCluster] = FAT32_EOC_MARK
  BY DEF RootInv
<1>1. ASSUME NEW h \in Handles, NEW name \in Names, CreateFsInfo(h, name) PROVE Goal
  <2>1. /\ FsInfo.Free_Count # 0 /\ request = Idle /\ UNCHANGED FAT
        /\ Age(FsInfo'.Nxt_Free) = Age(n) + 1
    BY <1>1, CreationStart, NextFreeGoesOn
  <2>2. ~Growing
    BY <2>1 DEF Idle, Growing
  <2>3. Age(c) > Age(n) /\ c # RootCluster => FAT'[c] = Free
    BY <1>i, <2>1, <2>2
  <2>4. Age(c) >= Age(FsInfo'.Nxt_Free) => Age(c) > Age(n)
    BY <1>0, <2>1
  <2>5. c = FsInfo'.Nxt_Free => Age(c) >= Age(FsInfo'.Nxt_Free)
    BY <1>0
  <2>6. Age(c) > Age(FsInfo'.Nxt_Free) => Age(c) > Age(n)
    BY <1>0, <2>1
  <2> QED
    BY <1>0, <1>r, <2>1, <2>3, <2>4, <2>5, <2>6
<1>2. CASE CreateMark
  <2>1. /\ Creating /\ ~Growing /\ request.pc # "count" /\ UNCHANGED FsInfo
        /\ FAT' = [FAT EXCEPT ![request.cluster] = FAT32_EOC_MARK]
    BY <1>2 DEF CreateMark, Creating, Growing
  <2>2. Age(request.cluster) < Age(n)
    BY <2>1 DEF FirstClusterInv
  <2>3. Age(c) >= Age(n) => FAT'[c] = FAT[c]
    <3>1. Age(c) >= Age(n) => c # request.cluster
      BY <1>0, <2>2
    <3> QED
      BY <1>0, <2>1, <3>1
  <2> QED
    BY <1>0, <1>i, <2>1, <2>3
<1>3. CASE ReserveCluster
  <2>1. /\ Accessing /\ request.pc = "write" /\ UNCHANGED FsInfo
        /\ FirstFreeCluster(n) # 0
    BY <1>3 DEF ReserveCluster, Accessing
  <2>2. PICK f : f = FirstFreeCluster(n)
    OBVIOUS
  <2>3. /\ FAT' = [FAT EXCEPT ![f] = FAT32_EOC_MARK]
        /\ request' = [request EXCEPT !.pc = "link", !.new = f]
    BY <1>3, <2>2 DEF ReserveCluster
  <2>4. request'.pc = "link" /\ request'.new = f
    BY <2>1, <2>3, AccessFields DEF Accesses
  <2>5. Growing' /\ ~Growing
    BY <2>1, <2>4 DEF Growing
  <2>6. (c = f /\ FAT'[c] = FAT32_EOC_MARK) \/ FAT'[c] = FAT[c]
    BY <1>0, <2>3
  <2> QED
    BY <1>0, <1>i, <2>1, <2>4, <2>5, <2>6
<1>4. CASE LinkCluster
  <2>1. /\ Accessing /\ Growing /\ request.pc = "link" /\ UNCHANGED FsInfo
        /\ FAT' = [FAT EXCEPT ![request.cluster] = request.new]
        /\ request' = [request EXCEPT !.pc = "count"]
    BY <1>4 DEF LinkCluster, Accessing, Growing, Goto
  <2>2. /\ request'.pc = "count" /\ request'.new = request.new
    BY <2>1, AccessFields DEF Accesses
  <2>3. Growing'
    BY <2>2 DEF Growing
  <2>4. FAT[request.cluster] = FAT32_EOC_MARK /\ request.new # request.cluster
    BY <2>1 DEF ChainInv
  <2>5. c = request.cluster => ~(Age(c) > Age(n) /\ c # RootCluster)
    BY <1>0, <1>i, <2>1, <2>4
  <2>6. c # request.cluster => FAT'[c] = FAT[c]
    BY <1>0, <2>1
  <2> QED
    BY <1>i, <2>1, <2>2, <2>3, <2>5, <2>6
<1>5. CASE WriteFsInfo
  <2>1. Growing /\ UNCHANGED FAT /\ FsInfo'.Nxt_Free = request.new
    BY <1>5 DEF WriteFsInfo, Growing
  <2>2. /\ FsInfo.Free_Count # 0 /\ Age(request.new) >= Age(n) /\ request.new \in Clusters
        /\ FAT[request.new] = FAT32_EOC_MARK
    BY <2>1 DEF FirstClusterInv, ChainInv, IsCluster
  <2>3. Age(request.new) \in Nat
    <3>1. Age(request.new) = request.new + 1 /\ request.new \in Nat
      BY <2>2, AgeOrder, Geometry
    <3> QED
      BY <3>1
  <2>4. Age(c) > Age(request.new) => Age(c) > Age(n) /\ c # request.new
    BY <1>0, <2>2, <2>3
  <2> QED
    BY <1>0, <1>i, <2>1, <2>2, <2>4
<1>6. ASSUME UNCHANGED <<FAT, FsInfo>>, ~Growing PROVE Goal
  BY <1>i, <1>6 DEF Growing
<1>7. CASE CreateEntry \/ CreateContents \/ FollowLink \/ FinishReadWrite \/ Quiet
  <2>1. UNCHANGED <<FAT, FsInfo>> /\ ~Growing
    BY <1>7 DEF CreateEntry, CreateContents, FollowLink, FinishReadWrite, Quiet, volumeVars, Growing
  <2> QED
    BY <1>6, <2>1
<1>8. ASSUME NEW h \in Handles, NEW kind \in {"read", "write"}, NEW o \in 0 .. MaxOffset,
             NEW l \in 1 .. MaxLength, FileSectorIsAligned(h), IoReadWriteFile(h, kind, o, l)
      PROVE  Goal
  <2>1. UNCHANGED <<FAT, FsInfo>> /\ ~Growing
    BY <1>8, AccessStart DEF Growing, Idle, volumeVars
  <2> QED
    BY <1>6, <2>1
<1>9. ~RepairEnd
  BY DEF RepairEnd, MarkInv, Accessing
<1> QED
  BY <1>1, <1>2, <1>3, <1>4, <1>5, <1>7, <1>8, <1>9, FaultlessSteps

LEMMA MarkStep ==
    ASSUME FatAssumption, FatBounds, FatTypes, DirectoryInv, FirstClusterInv, RootInv, ChainInv, MarkInv,
           FatNext, request' # Astray, faults' = 0
    PROVE  MarkInv'
<1>0. \A c \in Clusters : FAT'[c] = Free => FAT[c] = Free
  BY LinksStay
<1>g. FAT \in [Clusters -> Clusters \union {Free, FAT32_EOC_MARK}] /\ FAT32_EOC_MARK # Free /\ Free \notin Clusters
  BY Geometry DEF FatTypes
<1>1. FsInfo'.Free_Count # 0 => \A c \in Clusters :
          /\ Age(c) > Age(FsInfo'.Nxt_Free) /\ c # RootCluster
                => FAT'[c] = Free \/ (Growing' /\ c = request'.new)
          /\ c = FsInfo'.Nxt_Free /\ Link(c)' => request'.pc = "count"
  BY BehindStep DEF Link, IsCluster
<1>2. ASSUME Creating', request'.cluster \in Clusters PROVE FAT'[request'.cluster] \notin Clusters
  <2>1. ASSUME NEW h \in Handles, NEW n \in Names, CreateFsInfo(h, n)
        PROVE  FAT'[request'.cluster] \notin Clusters
    <3>1. /\ request'.cluster = FsInfo.Nxt_Free /\ request = Idle /\ FsInfo.Free_Count # 0 /\ UNCHANGED FAT
      BY <2>1, CreationStart
    <3> QED
      BY <1>2, <3>1 DEF MarkInv, Link, IsCluster, Idle
  <2>2. ASSUME Creating, request'.cluster = request.cluster, UNCHANGED FAT
        PROVE  FAT'[request'.cluster] \notin Clusters
    BY <1>2, <2>2 DEF MarkInv, Link, IsCluster
  <2>3. CASE CreateEntry
    <3>1. /\ request \in Creations /\ request' = [request EXCEPT !.pc = "contents"] /\ UNCHANGED FAT /\ Creating
      BY <2>3, CreateEntryAddsFile DEF CreateEntry, Creating
    <3> QED
      BY <2>2, <3>1 DEF Creations
  <2>4. CASE /\ request.pc = "contents" /\ request \in Creations /\ request' = [request EXCEPT !.pc = "mark"]
             /\ UNCHANGED volumeVars
    BY <2>2, <2>4 DEF Creating, Creations, volumeVars
  <2>5. CASE UNCHANGED <<request, FsInfo, dir>>
    <3>1. ~CreateMark /\ ~RepairEnd /\ ~ReserveCluster /\ ~LinkCluster
      BY <1>2, <2>5 DEF CreateMark, Complete, Idle, RepairEnd, ReserveCluster, LinkCluster, Creating
    <3> QED
      BY <1>2, <2>2, <2>5, <3>1, FatSteps DEF Creating
  <2> QED
    BY <1>2, <2>1, <2>3, <2>4, <2>5, CreationSteps
<1>3. ASSUME NEW i \in UsedEntries', dir'[i].cluster \in Clusters, FAT'[dir'[i].cluster] = Free
      PROVE  request'.pc \in {"contents", "mark"} /\ request'.index = i
  <2>1. CASE CreateEntry
    <3>1. /\ request \in Creations /\ request.pc = "entry" /\ request' = [request EXCEPT !.pc = "contents"]
          /\ request.index \in DOMAIN dir
          /\ dir' = [dir EXCEPT ![request.index] = Entry(request.name, request.cluster)]
          /\ UsedEntries' = UsedEntries \union {request.index} /\ UNCHANGED FAT
      BY <2>1, CreateEntryAddsFile DEF CreateEntry
    <3>2. i # request.index => i \in UsedEntries /\ dir'[i] = dir[i]
      BY <3>1 DEF UsedEntries
    <3>3. i = request.index
      BY <1>3, <3>1, <3>2 DEF MarkInv, IsCluster
    <3> QED
      BY <3>1, <3>3 DEF Creations
  <2>2. CASE ~CreateEntry
    <3>0. SameFiles
      BY <2>2, DirectorySteps, UnchangedFiles, FinishKeepsFiles
    <3>1. i \in UsedEntries /\ dir'[i].cluster = dir[i].cluster
      BY <3>0, SameFilesStay DEF SameFiles, UsedEntries
    <3>2. request.pc \in {"contents", "mark"} /\ request.index = i
      BY <1>0, <1>3, <3>1 DEF MarkInv, IsCluster
    <3>3. Creating /\ ~Growing /\ request # Idle
      BY <3>2 DEF Creating, Growing, Idle
    <3>4. request.cluster = dir[i].cluster /\ request \in Creations
      BY <3>2, <3>3, CreationFields DEF DirectoryInv, Entry
    <3>5. CASE CreateContents
      <4>1. IsCluster(request.cluster)
        BY <1>3, <3>1, <3>4 DEF IsCluster
      <4>2. request' = [request EXCEPT !.pc = "mark"]
        BY <3>5, <4>1 DEF CreateContents, Goto
      <4> QED
        BY <3>2, <3>4, <4>2 DEF Creations
    <3>6. CASE CreateMark
      <4>1. FAT'[request.cluster] = FAT32_EOC_MARK
        BY <1>3, <1>g, <3>1, <3>4, <3>6 DEF CreateMark
      <4> QED
        BY <1>3, <1>g, <3>1, <3>4, <4>1
    <3>7. /\ ~RepairEnd /\ ~FollowLink /\ ~ReserveCluster /\ ~LinkCluster /\ ~WriteFsInfo
          /\ ~FinishReadWrite /\ ~Quiet
      BY <3>2, <3>3 DEF RepairEnd, FollowLink, ReserveCluster, LinkCluster, WriteFsInfo,
         FinishReadWrite, Quiet
    <3>8. ASSUME NEW h \in Handles PROVE /\ \A n \in Names : ~CreateFsInfo(h, n)
                                         /\ \A kind, o, l : ~IoReadWriteFile(h, kind, o, l)
      BY <3>3 DEF CreateFsInfo, IoReadWriteFile
    <3> QED
      BY <2>2, <3>5, <3>6, <3>7, <3>8, FaultlessSteps
  <2> QED
    BY <2>1, <2>2
<1>4. ASSUME Accessing' PROVE FAT'[request'.cluster] # Free
  <2>1. ASSUME NEW h \in Handles, NEW kind \in {"read", "write"}, NEW o \in 0 .. MaxOffset,
               NEW l \in 1 .. MaxLength, FileSectorIsAligned(h), IoReadWriteFile(h, kind, o, l)
        PROVE  FAT'[request'.cluster] # Free
    <3>1. /\ request = Idle /\ UNCHANGED FAT
          /\ \E i \in UsedEntries : IsCluster(dir[i].cluster) /\ request'.cluster = dir[i].cluster
      BY <2>1, AccessStart DEF volumeVars
    <3> QED
      BY <3>1 DEF MarkInv, Idle
  <2>2. ASSUME Accessing, request'.cluster = request.cluster PROVE FAT'[request'.cluster] # Free
    <3>1. request.cluster \in Clusters /\ FAT[request.cluster] # Free
      BY <2>2, AccessFields DEF MarkInv
    <3> QED
      BY <1>0, <2>2, <3>1
  <2>3. CASE /\ Accessing /\ UNCHANGED <<FAT, dir>>
             /\ request'.cluster = FAT[request.cluster] /\ FAT[request.cluster] \in Clusters
    <3>1. request.cluster \in Clusters
      BY <2>3, AccessFields
    <3> QED
      BY <2>3, <3>1 DEF ChainInv, Link, IsCluster
  <2> QED
    BY <1>4, <2>1, <2>2, <2>3, AccessSteps
<1> QED
  BY <1>1, <1>2, <1>3, <1>4 DEF MarkInv, Link, IsCluster

\* How many clusters are free.
LEMMA FreeClustersNumber ==
    ASSUME FatAssumption, FatTypes
    PROVE  /\ IsFiniteSet(FreeClusters) /\ Cardinality(FreeClusters) \in Nat
           /\ Cardinality(FreeClusters) <= CountOfClusters
BY CardinalityOfClusters, FreeClusters \in SUBSET Clusters DEF FreeClusters

LEMMA MarkTakesOne ==
    ASSUME FatAssumption, FatTypes, NEW x, FAT' = [FAT EXCEPT ![x] = FAT32_EOC_MARK]
    PROVE  Cardinality(FreeClusters') = Cardinality(FreeClusters) - (IF x \in FreeClusters THEN 1 ELSE 0)
<1>1. FAT \in [Clusters -> Clusters \union {Free, FAT32_EOC_MARK}] /\ FAT32_EOC_MARK # Free
  BY Geometry DEF FatTypes
<1>2. FreeClusters' = FreeClusters \ {x}
  BY <1>1 DEF FreeClusters
<1>3. IsFiniteSet(FreeClusters) /\ Cardinality(FreeClusters) \in Nat
  BY FreeClustersNumber
<1> QED
  BY <1>2, <1>3, FS_RemoveElement

LEMMA CountStep ==
    ASSUME FatAssumption, FatBounds, FatTypes, DirectoryInv, FirstClusterInv, ChainInv, MarkInv, CountInv,
           FatNext, request' # Astray, faults' = 0
    PROVE  CountInv'
<1> DEFINE fc == FsInfo.Free_Count
           k == Cardinality(UsedEntries)
           F == Cardinality(FreeClusters)
           N == CountOfClusters
           U == FAT32_UNKNOWN
<1>0. /\ fc \in Nat /\ k \in Nat /\ F \in Nat /\ F <= N /\ N \in Nat /\ U \in Nat
  BY Numbers, FreeClustersNumber
<1>i. \/ fc + One(Creating) - One(Growing) <= F
      \/ fc + k + One(request.pc = "entry") + N - F >= U + One(Growing)
  BY DEF CountInv
<1>g. UNCHANGED FAT => F' = F
  BY DEF FreeClusters
<1>k. UNCHANGED dir => k' = k
  BY UnchangedFiles, SameFilesStay
<1> HIDE DEF F, k
<1>1. ASSUME NEW h \in Handles, NEW n \in Names, CreateFsInfo(h, n) PROVE CountInv'
  <2>1. /\ request'.pc = "entry" /\ request = Idle /\ fc # 0 /\ FsInfo'.Free_Count = fc - 1
        /\ UNCHANGED <<FAT, dir>>
    BY <1>1, CreationStart
  <2>2. /\ One(Creating)' = 1 /\ One(Growing)' = 0 /\ One(request.pc = "entry")' = 1
        /\ One(Creating) = 0 /\ One(Growing) = 0 /\ One(request.pc = "entry") = 0
    BY <2>1 DEF Creating, Growing, One, Idle
  <2>3. \/ (fc - 1) + 1 - 0 <= F
        \/ (fc - 1) + k + 1 + N - F >= U + 0
    BY <1>0, <1>i, <2>2
  <2> QED
    BY <1>g, <1>k, <2>1, <2>2, <2>3 DEF CountInv, k, F
<1>2. CASE CreateEntry
  <2>1. /\ request \in Creations /\ request.pc = "entry" /\ request' = [request EXCEPT !.pc = "contents"]
        /\ request.index \notin UsedEntries /\ UsedEntries' = UsedEntries \union {request.index}
        /\ UNCHANGED <<FAT, FsInfo>>
    BY <1>2, CreateEntryAddsFile DEF CreateEntry
  <2>2. request'.pc = "contents"
    BY <2>1 DEF Creations
  <2>3. k' = k + 1
    BY <2>1, DirectoryType, FS_AddElement DEF k
  <2>4. /\ One(Creating)' = 1 /\ One(Growing)' = 0 /\ One(request.pc = "entry")' = 0
        /\ One(Creating) = 1 /\ One(Growing) = 0 /\ One(request.pc = "entry") = 1
    BY <2>1, <2>2 DEF Creating, Growing, One
  <2>5. \/ fc + 1 - 0 <= F
        \/ fc + k' + 0 + N - F >= U + 0
    BY <1>0, <1>i, <2>3, <2>4
  <2> QED
    BY <1>g, <2>1, <2>4, <2>5 DEF CountInv, k, F
<1>3. CASE CreateMark
  <2>1. /\ request.pc = "mark" /\ request' = Idle /\ UNCHANGED <<FsInfo, dir>>
        /\ FAT' = [FAT EXCEPT ![request.cluster] = FAT32_EOC_MARK]
    BY <1>3 DEF CreateMark, Complete
  <2>2. F' = F \/ F' = F - 1
    <3>1. PICK x : x = request.cluster
      OBVIOUS
    <3>2. Cardinality(FreeClusters') = Cardinality(FreeClusters) - (IF x \in FreeClusters THEN 1 ELSE 0)
      BY <2>1, <3>1, MarkTakesOne
    <3> QED
      BY <1>0, <3>2 DEF F
  <2>3. /\ One(Creating)' = 0 /\ One(Growing)' = 0 /\ One(request.pc = "entry")' = 0
        /\ One(Creating) = 1 /\ One(Growing) = 0 /\ One(request.pc = "entry") = 0
    BY <2>1 DEF Creating, Growing, One, Idle
  <2>4. \/ fc + 0 - 0 <= F'
        \/ fc + k + 0 + N - F' >= U + 0
    BY <1>0, <1>i, <2>2, <2>3
  <2> QED
    BY <1>k, <2>1, <2>3, <2>4 DEF CountInv, k, F
<1>4. CASE ReserveCluster
  <2>1. /\ Accessing /\ request.pc = "write" /\ FirstFreeCluster(FsInfo.Nxt_Free) # 0
        /\ UNCHANGED <<FsInfo, dir>>
    BY <1>4 DEF ReserveCluster, Accessing
  <2>2. PICK f : f = FirstFreeCluster(FsInfo.Nxt_Free)
    OBVIOUS
  <2>3. /\ FAT' = [FAT EXCEPT ![f] = FAT32_EOC_MARK]
        /\ request' = [request EXCEPT !.pc = "link", !.new = f]
    BY <1>4, <2>2 DEF ReserveCluster
  <2>4. f \in FreeClusters
    BY <2>1, <2>2, Numbers, FirstFreeClusterIsFree DEF FreeClusters, IsCluster
  <2>5. F' = F - 1
    BY <1>0, <2>3, <2>4, MarkTakesOne DEF F
  <2>6. request'.pc = "link"
    BY <2>1, <2>3, AccessFields DEF Accesses
  <2>7. /\ One(Creating)' = 0 /\ One(Growing)' = 1 /\ One(request.pc = "entry")' = 0
        /\ One(Creating) = 0 /\ One(Growing) = 0 /\ One(request.pc = "entry") = 0
    BY <2>1, <2>6 DEF Creating, Growing, One
  <2>8. \/ fc + 0 - 1 <= F'
        \/ fc + k + 0 + N - F' >= U + 1
    BY <1>0, <1>i, <2>5, <2>7
  <2> QED
    BY <1>k, <2>1, <2>7, <2>8 DEF CountInv, k, F
<1>5. CASE LinkCluster
  <2>1. /\ Accessing /\ Growing /\ request.pc = "link" /\ UNCHANGED <<FsInfo, dir>>
        /\ FAT' = [FAT EXCEPT ![request.cluster] = request.new]
        /\ request' = [request EXCEPT !.pc = "count"]
    BY <1>5 DEF LinkCluster, Accessing, Growing, Goto
  <2>2. request'.pc = "count" /\ request.cluster \in Clusters
    BY <2>1, AccessFields DEF Accesses
  <2>3. FreeClusters' = FreeClusters
    <3>1. FAT[request.cluster] = FAT32_EOC_MARK /\ request.new \in Clusters
      BY <2>1 DEF ChainInv, IsCluster
    <3>2. FAT \in [Clusters -> Clusters \union {Free, FAT32_EOC_MARK}] /\ FAT32_EOC_MARK # Free
          /\ Free \notin Clusters
      BY Geometry DEF FatTypes
    <3> QED
      BY <2>1, <3>1, <3>2 DEF FreeClusters
  <2>4. /\ One(Creating)' = 0 /\ One(Growing)' = 1 /\ One(request.pc = "entry")' = 0
        /\ One(Creating) = 0 /\ One(Growing) = 1 /\ One(request.pc = "entry") = 0
    BY <2>1, <2>2 DEF Creating, Growing, One
  <2>5. F' = F
    BY <2>3 DEF F
  <2> QED
    BY <1>i, <1>k, <2>1, <2>4, <2>5 DEF CountInv, k, F
<1>6. CASE WriteFsInfo
  <2>1. /\ Accessing /\ Growing /\ request.pc = "count" /\ Moves /\ UNCHANGED <<FAT, dir>>
        /\ FsInfo'.Free_Count = IF fc = U THEN FreeAfter(request.new) ELSE fc - 1
    BY <1>6 DEF WriteFsInfo, Accessing, Growing, Moves
  <2>2. request'.pc = "write"
    BY <2>1, AccessFields DEF Moves, Accesses
  <2>3. /\ One(Creating)' = 0 /\ One(Growing)' = 0 /\ One(request.pc = "entry")' = 0
        /\ One(Creating) = 0 /\ One(Growing) = 1 /\ One(request.pc = "entry") = 0
    BY <2>1, <2>2 DEF Creating, Growing, One
  <2>4. FreeAfter(request.new) <= F /\ FreeAfter(request.new) \in Nat
    <3>1. {d \in SearchedFrom(request.new + 1) : FAT[d] = Free} \in SUBSET FreeClusters
      BY DEF SearchedFrom, FreeClusters
    <3>2. IsFiniteSet(FreeClusters)
      BY FreeClustersNumber
    <3>3. /\ IsFiniteSet({d \in SearchedFrom(request.new + 1) : FAT[d] = Free})
          /\ FreeAfter(request.new) <= F
      BY <3>1, <3>2, FS_Subset DEF FreeAfter, F
    <3> QED
      BY <3>3, FS_CardinalityType DEF FreeAfter
  <2>5. \/ FsInfo'.Free_Count + 0 - 0 <= F
        \/ FsInfo'.Free_Count + k + 0 + N - F >= U + 0
    <3>1. CASE fc = U
      BY <1>0, <2>1, <2>4, <3>1
    <3>2. CASE fc # U
      <4>1. FsInfo'.Free_Count = fc - 1
        BY <2>1, <3>2
      <4>2. fc + 0 - 1 <= F \/ fc + k + 0 + N - F >= U + 1
        BY <1>i, <2>3
      <4> QED
        BY <1>0, <4>1, <4>2
    <3> QED
      BY <3>1, <3>2
  <2> QED
    BY <1>g, <1>k, <2>1, <2>3, <2>5 DEF CountInv, k, F
<1>7. ASSUME UNCHANGED FAT, SameFiles, FsInfo'.Free_Count = 0 \/ UNCHANGED FsInfo,
             ~Growing, ~Growing', request.pc # "entry", request'.pc # "entry", Creating' => Creating
      PROVE  CountInv'
  <2>1. k' = k /\ F' = F
    BY <1>7, <1>g, SameFilesStay DEF k
  <2>2. /\ One(Growing)' = 0 /\ One(request.pc = "entry")' = 0 /\ One(Creating)' \in {0, 1}
        /\ One(Growing) = 0 /\ One(request.pc = "entry") = 0 /\ One(Creating) \in {0, 1}
        /\ One(Creating)' <= One(Creating)
    BY <1>7 DEF One
  <2>3. CASE FsInfo'.Free_Count = 0 /\ One(Creating)' = 0
    <3>1. FsInfo'.Free_Count + One(Creating)' - One(Growing)' <= F'
      BY <1>0, <2>1, <2>2, <2>3
    <3> QED
      BY <3>1 DEF CountInv, F
  <2>4. CASE UNCHANGED FsInfo
    <3>1. \/ fc + One(Creating)' - 0 <= F
          \/ fc + k + 0 + N - F >= U + 0
      BY <1>0, <1>i, <2>2
    <3> QED
      BY <2>1, <2>2, <2>4, <3>1 DEF CountInv, k, F
  <2>5. CASE FsInfo'.Free_Count = 0 /\ One(Creating)' = 1
    <3>1. ~NoCluster /\ ~WriteFsInfo /\ ~AccessFailsUnnoticed
      <4>1. Creating /\ ~Accessing
        BY <1>7, <2>5, RequestKinds DEF One
      <4> QED
        BY <4>1 DEF NoCluster, WriteFsInfo, AccessFailsUnnoticed, Accessing
    <3>2. ASSUME NEW h \in Handles, NEW n \in Names PROVE ~CreateFsInfo(h, n)
      BY <1>7, CreationStart
    <3> QED
      BY <2>4, <3>1, <3>2, FsInfoSteps
  <2> QED
    BY <1>7, <2>2, <2>3, <2>4, <2>5
<1>8. CASE CreateContents
  <2>1. request.pc = "contents" /\ UNCHANGED <<FAT, FsInfo, dir>> /\ Creating
    BY <1>8 DEF CreateContents, volumeVars, Creating
  <2>2. request'.pc \in {"idle", "mark"}
    BY <1>8, <2>1, CreationFields DEF CreateContents, Goto, Complete, Idle, Creations
  <2> QED
    BY <1>7, <2>1, <2>2, UnchangedFiles DEF Growing
<1>9. CASE FinishReadWrite
  <2>1. request.pc \in {"read", "write"} /\ UNCHANGED <<FAT, FsInfo>> /\ request'.pc = "idle" /\ SameFiles
    BY <1>9, FinishKeepsFiles DEF FinishReadWrite, Complete, Idle
  <2> QED
    BY <1>7, <2>1 DEF Growing, Creating
<1>10. CASE Quiet
  <2>1. /\ ~Growing /\ ~Creating /\ UNCHANGED <<FAT, dir>> /\ request'.pc \in {"idle", "halted"}
        /\ FsInfo'.Free_Count = 0 \/ UNCHANGED FsInfo
    BY <1>10 DEF Quiet, Idle, Halted
  <2> QED
    BY <1>7, <2>1, UnchangedFiles DEF Growing, Creating
<1>11. CASE FollowLink
  <2>1. request.pc \in {"read", "write"} /\ Accessing /\ UNCHANGED <<FAT, FsInfo, dir>>
    BY <1>11 DEF FollowLink, volumeVars, Accessing
  <2>2. request'.pc = request.pc
    BY <1>11, <2>1, AccessFields DEF FollowLink, Accesses
  <2> QED
    BY <1>7, <2>1, <2>2, UnchangedFiles DEF Growing, Creating
<1>12. ASSUME NEW h \in Handles, NEW kind \in {"read", "write"}, NEW o \in 0 .. MaxOffset,
              NEW l \in 1 .. MaxLength, FileSectorIsAligned(h), IoReadWriteFile(h, kind, o, l)
       PROVE  CountInv'
  <2>1. request.pc = "idle" /\ request'.pc \in {"read", "write"} /\ UNCHANGED <<FAT, FsInfo, dir>>
    BY <1>12, AccessStart DEF Idle, volumeVars
  <2> QED
    BY <1>7, <2>1, UnchangedFiles DEF Growing, Creating
<1>13. ~RepairEnd
  BY DEF RepairEnd, MarkInv, Accessing
<1> QED
  BY <1>1, <1>2, <1>3, <1>4, <1>5, <1>6, <1>8, <1>9, <1>10, <1>11, <1>12, <1>13, FaultlessSteps

-----------------------------------------------------------------------------
(* The invariant.                                                          *)

\* A formatted volume.
LEMMA FatInvInit ==
    ASSUME FatAssumption, FatBounds, FatInit PROVE FatInv
<1>1. PICK count \in {CountOfClusters - 1, FAT32_UNKNOWN},
           hint \in {RootCluster + 1, RootCluster, FAT32_UNKNOWN} :
          FsInfo = [Free_Count |-> count, Nxt_Free |-> hint]
  BY DEF FatInit, FatFormatted
<1>2. PICK deleted \in Reserved .. EntriesPerCluster :
          dir = [i \in 1 .. EntriesPerCluster |->
                    Entry(IF i <= Reserved THEN VolumeLabel
                          ELSE IF i <= deleted THEN FREE_ENTRY ELSE FREE_ALL, 0)]
  BY DEF FatInit, FatFormatted
<1>3. /\ FAT = [c \in Clusters |-> IF c = RootCluster THEN FAT32_EOC_MARK ELSE Free]
      /\ fcb = [h \in Handles |-> Closed] /\ request = Idle /\ faults = 0
  BY DEF FatInit, FatFormatted
<1>4. /\ CountOfClusters \in Nat \ {0} /\ FAT32_UNKNOWN \in Nat /\ EntriesPerCluster \in Nat
      /\ EntriesPerFat = CountOfClusters + 2 /\ Clusters = 2 .. CountOfClusters + 1
      /\ FAT32_UNKNOWN > 2 * EntriesPerFat + EntriesPerCluster /\ EntriesPerCluster > 2
  BY Geometry
<1>5. /\ Free \notin Clusters /\ FAT32_EOC_MARK \notin Clusters /\ Free # FAT32_EOC_MARK
      /\ IsFiniteSet(Clusters) /\ Cardinality(Clusters) = CountOfClusters
  BY Geometry
<1>6. ~Creating /\ ~Growing /\ ~Accessing /\ request.pc = "idle"
  BY <1>3 DEF Idle, Creating, Growing, Accessing
<1>7. /\ DOMAIN dir = 1 .. EntriesPerCluster
      /\ \A i \in DOMAIN dir : /\ dir[i].name = IF i <= Reserved THEN VolumeLabel
                                                ELSE IF i <= deleted THEN FREE_ENTRY ELSE FREE_ALL
                               /\ dir[i].cluster = 0 /\ dir[i].size = 0
  BY <1>2 DEF Entry
<1>8. UsedEntries = {}
  BY <1>7 DEF UsedEntries, Used
<1>9. FatTypes
  <2>1. FAT \in [Clusters -> Clusters \union {Free, FAT32_EOC_MARK}]
    BY <1>3
  <2>2. count \in FieldValues /\ hint \in FieldValues
    BY <1>4 DEF FieldValues, RootCluster
  <2>3. FsInfo \in [Free_Count : FieldValues, Nxt_Free : FieldValues]
    BY <1>1, <2>2
  <2>4. {VolumeLabel, FREE_ENTRY, FREE_ALL} \subseteq EntryNames /\ 0 \in FieldValues
    BY <1>4 DEF EntryNames, FieldValues
  <2>5. dir \in [1 .. EntriesPerCluster -> [name : EntryNames, cluster : FieldValues, size : Nat]]
    BY <1>2, <2>4 DEF Entry
  <2>6. fcb \in [Handles -> {Closed, NoFcb, SectorZero} \union FirstSectors] /\ faults \in 0 .. MaxFaults
    BY <1>3 DEF FatBounds
  <2> QED
    BY <1>3, <1>6, <2>1, <2>3, <2>5, <2>6 DEF FatTypes
<1>10. DirectoryInv
  <2>1. \A i \in 1 .. Reserved : dir[i].name = VolumeLabel
    BY <1>4, <1>7 DEF Reserved
  <2>2. ASSUME NEW i \in DOMAIN dir, NEW j \in DOMAIN dir, i < j, dir[i].name = FREE_ALL
        PROVE  dir[j].name = FREE_ALL
    <3>1. ~(i <= Reserved) /\ ~(i <= deleted)
      BY <1>7, <2>2, NamesAreUsed
    <3>2. ~(j <= Reserved) /\ ~(j <= deleted)
      BY <1>4, <1>7, <2>2, <3>1 DEF Reserved
    <3> QED
      BY <1>7, <3>2
  <2> QED
    BY <1>6, <1>8, <2>1, <2>2 DEF DirectoryInv
<1>11. FirstClusterInv
  <2>1. Cardinality(UsedEntries) = 0 /\ One(request.pc = "entry") = 0
    BY <1>6, <1>8, FS_EmptySet DEF One
  <2>2. Age(FsInfo.Nxt_Free) <= EntriesPerFat + 1 + 0 + 0 + 0
    BY <1>1, <1>4 DEF RootCluster, Age
  <2> QED
    BY <1>3, <1>6, <1>8, <2>1, <2>2 DEF FirstClusterInv
<1>12. \A c \in Clusters : FAT[c] \notin Clusters
  BY <1>3, <1>5
<1>13. ChainInv
  <2>1. Acyclic
    BY <1>12 DEF Acyclic
  <2> QED
    BY <1>6, <1>12, <2>1 DEF ChainInv, Link, IsCluster
<1>14. SizeInv
  BY <1>6, <1>8 DEF SizeInv
<1>15. MarkInv
  <2>1. \A c \in Clusters : c # RootCluster => FAT[c] = Free
    BY <1>3
  <2> QED
    BY <1>6, <1>8, <1>12, <2>1 DEF MarkInv, Link, IsCluster
<1>16. CountInv
  <2>1. One(Creating) = 0 /\ One(Growing) = 0 /\ One(request.pc = "entry") = 0
    BY <1>6 DEF One
  <2>2. Cardinality(UsedEntries) = 0
    BY <1>8, FS_EmptySet
  <2>3. RootCluster \in Clusters
    BY <1>4 DEF RootCluster
  <2>4. FreeClusters = Clusters \ {RootCluster}
    BY <1>3, <1>5 DEF FreeClusters
  <2>5. Cardinality(FreeClusters) = CountOfClusters - 1
    BY <1>5, <2>3, <2>4, FS_RemoveElement
  <2>6. FsInfo.Free_Count = count
    BY <1>1
  <2> QED
    BY <1>4, <2>1, <2>2, <2>5, <2>6 DEF CountInv
<1>17. NamesInv
  <2>1. Hidden = {} /\ One(request.pc = "entry" /\ Taken(request.name)) = 0
    BY <1>6, <1>8 DEF Hidden, One
  <2> QED
    BY <1>3, <2>1, FS_EmptySet DEF NamesInv
<1>18. RootInv
  <2>1. RootCluster \in Clusters
    BY <1>4 DEF RootCluster
  <2> QED
    BY <1>3, <1>6, <1>12, <2>1 DEF RootInv
<1> QED
  BY <1>9, <1>10, <1>11, <1>13, <1>14, <1>15, <1>16, <1>17, <1>18 DEF FatInv, ClaimInv

LEMMA ClaimStep ==
    ASSUME FatAssumption, FatBounds, FatInv, FatNext, request' # Astray PROVE ClaimInv'
<1> SUFFICES ASSUME faults' = 0 PROVE (SizeInv /\ MarkInv /\ CountInv)'
  BY DEF ClaimInv
<1>1. faults = 0
  BY FaultlessSteps DEF FatInv
<1>2. SizeInv /\ MarkInv /\ CountInv
  BY <1>1 DEF FatInv, ClaimInv
<1> QED
  BY <1>2, SizeStep, MarkStep, CountStep DEF FatInv

LEMMA FatInvStutter ==
    ASSUME FatInv, UNCHANGED vars PROVE FatInv'
<1>1. /\ FAT' = FAT /\ FsInfo' = FsInfo /\ dir' = dir /\ fcb' = fcb /\ request' = request /\ faults' = faults
  BY DEF vars, volumeVars
<1>2. UsedEntries' = UsedEntries /\ FirstSectors' = FirstSectors
  BY <1>1 DEF UsedEntries, Used, FirstSectors
<1>3. FatTypes'
  BY <1>1, <1>2 DEF FatInv, FatTypes, Accessing
<1>4. DirectoryInv'
  BY <1>1, <1>2 DEF FatInv, DirectoryInv, Used
<1>5. FirstClusterInv'
  BY <1>1, <1>2 DEF FatInv, FirstClusterInv, Growing, Creating
<1>6. ChainInv'
  BY <1>1 DEF FatInv, ChainInv, Acyclic, Link, Growing
<1>7. ClaimInv'
  BY <1>1, <1>2 DEF FatInv, ClaimInv, SizeInv, MarkInv, CountInv, Accessing, Growing, Creating, Link,
     FreeClusters
<1>8. NamesInv'
  <2>1. Hidden' = Hidden
    BY <1>1, <1>2 DEF Hidden, IsHidden, FatSearch, Visited
  <2>2. Taken(request.name)' <=> Taken(request.name)
    BY <1>1, <1>2 DEF Taken, FatSearch, Visited
  <2> QED
    BY <1>1, <2>1, <2>2 DEF FatInv, NamesInv, One
<1>9. RootInv'
  BY <1>1 DEF FatInv, RootInv, Growing
<1> QED
  BY <1>3, <1>4, <1>5, <1>6, <1>7, <1>8, <1>9 DEF FatInv

\* The step that goes astray leaves the table alone, and there is none after it.
LEMMA AstrayStep ==
    /\ FatNext /\ request' = Astray => UNCHANGED FAT
    /\ FatNext => request # Astray
<1>1. FatNext => request # Astray
  BY DEF FatNext, Astray, Idle, Halted, IoCloseFile, UseWithoutFcb, UseOfSectorZero, WriteToRoot, IoOpenFile,
         CreateFsInfo, IoReadWriteFile, CreateEntry, CreateContents, CreateMark, RepairEnd, FollowLink,
         ReadPastEnd, NoCluster, ReserveCluster, LinkCluster, WriteFsInfo, FinishReadWrite, PowerLoss,
         AccessFails, AccessFailsUnnoticed
<1>2. ASSUME FatNext, request' = Astray PROVE UNCHANGED FAT
  <2>1. ~CreateMark
    BY <1>2 DEF CreateMark, Complete, Idle, Astray
  <2>2. ~RepairEnd
    BY <1>1, <1>2 DEF RepairEnd
  <2>3. ~ReserveCluster /\ ~LinkCluster
    BY <1>2 DEF ReserveCluster, LinkCluster, Goto, Astray
  <2> QED
    BY <1>2, <2>1, <2>2, <2>3, FatSteps
<1> QED
  BY <1>1, <1>2

\* FAT32/src/fat32.c and fat_operations.c: whatever requests, faults and losses
\* of power come, the table has no cycle and no link to a free cluster, and the
\* whole invariant holds until the root directory is taken for a file.
THEOREM FatIsConsistent == FatSpec => []VolumeInv
<1> USE FatAssumption, FatBounds
<1>0. FatInv => TableInv
  BY DEF FatInv, FatTypes, ChainInv, TableInv
<1>1. FatInit => VolumeInv
  BY <1>0, FatInvInit DEF VolumeInv
<1>2. VolumeInv /\ [FatNext]_vars => VolumeInv'
  <2>1. ASSUME FatInv, FatNext, request' # Astray PROVE FatInv'
    <3>1. FatTypes' /\ DirectoryInv'
      BY <2>1, TypeStep, DirectoryStep DEF FatInv
    <3> QED
      BY <2>1, <3>1, NamesStep, FirstClusterStep, RootStep, ChainStep, ClaimStep DEF FatInv
  <2>2. ASSUME TableInv, UNCHANGED FAT PROVE TableInv'
    BY <2>2 DEF TableInv, Acyclic, Link, IsCluster
  <2>3. FatInv' => TableInv'
    BY DEF FatInv, FatTypes, ChainInv, TableInv
  <2>4. CASE VolumeInv /\ FatNext
    BY <2>1, <2>2, <2>3, <2>4, AstrayStep DEF VolumeInv
  <2>5. CASE VolumeInv /\ UNCHANGED vars
    BY <2>2, <2>5, FatInvStutter DEF VolumeInv, vars, volumeVars
  <2> QED
    BY <2>4, <2>5
<1> QED
  BY <1>1, <1>2, PTL DEF FatSpec

-----------------------------------------------------------------------------
(* What it means.                                                          *)

\* ChainsEnd: a walk of as many links as there are clusters would be a path
\* with more clusters than there are.
THEOREM ChainsAlwaysEnd == FatSpec => []ChainsEnd
<1> USE FatAssumption, FatBounds
<1>1. VolumeInv => ChainsEnd
  <2> SUFFICES ASSUME TableInv, NEW c \in Clusters
               PROVE  /\ ~IsCluster(Walk[CountOfClusters][c])
                      /\ IsCluster(FAT[c]) => FAT[FAT[c]] # Free
    BY DEF ChainsEnd, VolumeInv
  <2>1. IsCluster(FAT[c]) => FAT[FAT[c]] # Free
    BY DEF TableInv, Link
  <2>2. ASSUME IsCluster(Walk[CountOfClusters][c]) PROVE FALSE
    <3>1. CountOfClusters \in Nat /\ CountOfClusters \in 0 .. CountOfClusters
      BY Geometry
    <3>2. PICK p \in [0 .. CountOfClusters -> Clusters] : IsPath(FAT, p, CountOfClusters)
      BY <2>2, <3>1, WalkIsPath
    <3>3. CountOfClusters < CountOfClusters
      BY <3>1, <3>2, PathIsShort DEF TableInv
    <3> QED
      BY <3>1, <3>3
  <2> QED
    BY <2>1, <2>2
<1> QED
  BY <1>1, FatIsConsistent, PTL

\* FilesAreFound: FatQueryDirectory and GetDirEntryFromSector see every entry that
\* is in use, and each one that FatSearch does not see cost a failed search.
THEOREM FilesAreAlwaysFound == FatSpec => []FilesAreFound
<1> USE FatAssumption, FatBounds
<1>1. VolumeInv => FilesAreFound
  <2> SUFFICES ASSUME FatInv
               PROVE  /\ \A i \in UsedEntries : /\ dir[i] \in FatQueryDirectory
                                                /\ GetDirEntryFromSector(dir[i].cluster) = i
                      /\ Cardinality(Hidden) <= faults
    BY DEF FilesAreFound, VolumeInv, Hidden
  <2>0. FatTypes /\ DirectoryInv /\ FirstClusterInv /\ NamesInv
    BY DEF FatInv
  <2>1. ASSUME NEW i \in UsedEntries PROVE dir[i] \in FatQueryDirectory
    BY <2>0, UsedIsVisited DEF FatQueryDirectory
  <2>2. ASSUME NEW i \in UsedEntries PROVE GetDirEntryFromSector(dir[i].cluster) = i
    BY <2>0, EntryOfSector DEF FirstClusterInv
  <2>3. Cardinality(Hidden) <= faults
    <3>1. Hidden \subseteq UsedEntries /\ IsFiniteSet(UsedEntries)
      BY <2>0, DirectoryType DEF Hidden
    <3>2. Cardinality(Hidden) \in Nat /\ faults \in Nat
      BY <2>0, <3>1, FS_Subset, FS_CardinalityType, Numbers
    <3>3. PICK e \in {0, 1} : Cardinality(Hidden) + e <= faults
      BY <2>0 DEF NamesInv, One
    <3> QED
      BY <3>2, <3>3
  <2> QED
    BY <2>1, <2>2, <2>3
<1> QED
  BY <1>1, FatIsConsistent, PTL

\* ClaimsAreBacked: the size of a file is covered by its chain, and a count that
\* can be one is not larger than what is free.
THEOREM ClaimsAreAlwaysBacked == FatSpec => []ClaimsAreBacked
<1> USE FatAssumption, FatBounds
<1>1. VolumeInv => SizeIsCovered
  <2> SUFFICES ASSUME FatInv, faults = 0, NEW i \in UsedEntries
               PROVE  dir[i].size <= SectorsPerCluster * Cardinality(ChainOf(dir[i].cluster))
    BY DEF SizeIsCovered, VolumeInv
  <2>0. /\ FatTypes /\ Acyclic /\ SizeInv /\ dir[i].size \in Nat /\ dir[i].cluster \in Nat
        /\ SectorsPerCluster \in Nat \ {0}
    BY Numbers, Geometry DEF FatInv, ClaimInv, ChainInv
  <2>1. PICK z \in Nat : z = Cardinality(ChainOf(dir[i].cluster))
    <3>1. ChainOf(dir[i].cluster) \in SUBSET Clusters
      BY DEF ChainOf
    <3> QED
      BY <3>1, CardinalityOfClusters
  <2>2. CASE dir[i].size = 0
    <3>1. \A a, b \in Nat : 0 <= a * b
      OBVIOUS
    <3> QED
      BY <2>0, <2>1, <2>2, <3>1
  <2>3. CASE dir[i].size # 0
    <3>1. PICK k : k = LastLink(dir[i].size)
      OBVIOUS
    <3>2. k \in Nat /\ dir[i].size <= SectorsPerCluster * (k + 1)
      BY <2>0, <2>3, <3>1, LastLinkCovers
    <3>3. PICK d \in Clusters : Leads(FAT, dir[i].cluster, k, d)
      BY <2>0, <2>3, <3>1 DEF SizeInv
    <3>4. dir[i].cluster \in Clusters
      <4>1. PICK p \in [0 .. k -> Clusters] : p[0] = dir[i].cluster
        BY <3>3 DEF Leads
      <4> QED
        BY <3>2, <4>1
    <3>5. k + 1 <= z
      BY <2>0, <2>1, <3>2, <3>3, <3>4, PathInChain
    <3>6. SectorsPerCluster * (k + 1) <= SectorsPerCluster * z
      <4>1. \A a, x, y \in Nat : x <= y => a * x <= a * y
        OBVIOUS
      <4> QED
        BY <2>0, <3>2, <3>5, <4>1, k + 1 \in Nat
    <3>7. SectorsPerCluster * (k + 1) \in Int /\ SectorsPerCluster * z \in Int
      BY <2>0, <3>2
    <3> QED
      BY <2>0, <2>1, <3>2, <3>6, <3>7
  <2> QED
    BY <2>2, <2>3
<1>2. VolumeInv => FreeCountIsBacked
  <2> SUFFICES ASSUME FatInv, faults = 0, request = Idle, FsInfo.Free_Count <= CountOfClusters
               PROVE  FsInfo.Free_Count <= Cardinality(FreeClusters)
    BY DEF FreeCountIsBacked, FreeClusters, VolumeInv, Idle, Astray
  <2>1. One(Creating) = 0 /\ One(Growing) = 0 /\ One(request.pc = "entry") = 0
    BY DEF Creating, Growing, One, Idle
  <2>2. CountInv /\ FatTypes
    BY DEF FatInv, ClaimInv
  <2>3. /\ Cardinality(FreeClusters) \in Nat /\ Cardinality(UsedEntries) \in Nat /\ FsInfo.Free_Count \in Nat
        /\ Cardinality(UsedEntries) <= EntriesPerCluster /\ EntriesPerCluster \in Nat
        /\ CountOfClusters \in Nat /\ FAT32_UNKNOWN \in Nat
    BY <2>2, Numbers, FreeClustersNumber
  <2>4. FAT32_UNKNOWN > 2 * (CountOfClusters + 2) + EntriesPerCluster
    BY Geometry
  <2> QED
    BY <2>1, <2>2, <2>3, <2>4 DEF CountInv
<1> QED
  BY <1>1, <1>2, FatIsConsistent, PTL DEF ClaimsAreBacked

\* FilesPersist: no step removes, moves or shrinks a file, but the one that takes
\* the root directory for a file.
THEOREM FilesAlwaysPersist == FatSpec => FilesPersist
<1> USE FatAssumption, FatBounds
<1> DEFINE Stay == request' # Astray => \A i \in UsedEntries :
                      /\ dir'[i].name = dir[i].name /\ dir'[i].cluster = dir[i].cluster
                      /\ dir'[i].size >= dir[i].size
<1>1. VolumeInv /\ [FatNext]_vars => [Stay]_vars
  BY FilesStay, AstrayStep DEF FatInv, VolumeInv
<1> QED
  BY <1>1, FatIsConsistent, PTL DEF FatSpec, FilesPersist
=============================================================================
