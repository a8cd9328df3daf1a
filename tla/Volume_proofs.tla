---------------------------- MODULE Volume_proofs ----------------------------
(***************************************************************************)
(* The volume and what ff.c does to it below the level of files, for every *)
(* size of the card, the sectors and the directory, whatever the card      *)
(* refuses: the window, the FAT, the allocation of clusters, the root      *)
(* directory; and what a reader of the card finds.                         *)
(*                                                                         *)
(* The argument: the chain of the root directory (R) and those of the two  *)
(* files (C) lie on the volume as it would be with the window written back *)
(* (Effective), and some such chains on every content the card has had in  *)
(* the call (Volume).  A call changes the volume in a few ways only: it    *)
(* marks a free cluster, links a marked one to the end of a chain, fills   *)
(* the sector of a cluster that is a file's, and sets a directory entry.   *)
(*                                                                         *)
(* Lemmas that end in Is or Steps write an operator out, with a name for   *)
(* each machine on the way, so that the others can be cited for it.        *)
(***************************************************************************)
EXTENDS FatFs, FiniteSetTheorems, WellFoundedInduction, TLAPS

Names == {"csv", "log"}
Files == {"fp", "fp_log"}
NameOf(f) == IF f = "fp" THEN "csv" ELSE "log"

EntriesOf(c) == {d \in Clusters : FatSect(d) = FatSect(c)}
Members(s) == {s[i] : i \in 1 .. Len(s)}

(* Data is never taken for a directory entry of one of the files.  *)
IsUnit(u) == u = Zero \/ u[1] \notin Names
IsEntry(e) == \E n \in Names, s, z \in Nat : e = Entry(n, s, z)
Plain(b) == DOMAIN b = 1 .. SS /\ \A i \in 1 .. SS : IsUnit(b[i])

IsDisk(D) ==
  /\ Sectors \subseteq DOMAIN D
  /\ \A c \in Clusters :
       D[FatSect(c)] \in [EntriesOf(c) -> Nat] /\ DOMAIN D[clust2sect(c)] \in {1 .. DirPer, 1 .. SS}

(* The ways a volume is changed.  *)
SetFat(D, c, v) == [D EXCEPT ![FatSect(c)] = [@ EXCEPT ![c] = v]]
SetData(D, c, b) == [D EXCEPT ![clust2sect(c)] = b]

(* A chain of the FAT, cluster by cluster, that ends.  *)
Chained(D, s) ==
  /\ s \in Seq(Clusters)
  /\ \A i, j \in 1 .. Len(s) : s[i] = s[j] => i = j
  /\ \A i \in 1 .. Len(s) : Fat(D, s[i]) = IF i = Len(s) THEN EOC ELSE s[i + 1]

(* The slots of the root directory, in the order they are looked at.  *)
Slots(R) == (1 .. Len(R)) \X (1 .. DirPer)
At(D, R, p) == D[clust2sect(R[p[1]])][p[2]]
Rank(p) == (p[1] - 1) * DirPer + p[2]
Taking(D, R, p, n) == ~IsUnit(At(D, R, p)) /\ At(D, R, p)[1] = n

(* The first cluster and the size of a file, and the chain that holds it.  *)
Holds(s, z, ch) == IF s = 0 THEN z = 0 ELSE ch # <<>> /\ ch[1] = s /\ z <= SS * Len(ch)

(* A sector that was linked and not yet cleared holds the data it held.    *)
DirSector(b) == \A i \in DOMAIN b : IsUnit(b[i]) \/ (i \in 1 .. DirPer /\ IsEntry(b[i]))

Directory(D, R) ==
  /\ Chained(D, R) /\ R # <<>> /\ R[1] = dirbase
  /\ \A k \in 1 .. Len(R) : DirSector(D[clust2sect(R[k])])
  /\ \A p, q \in Slots(R) : Rank(p) < Rank(q) /\ At(D, R, p) = Zero => IsUnit(At(D, R, q))
  /\ \A n \in Names : \A p, q \in Slots(R) : Taking(D, R, p, n) /\ Taking(D, R, q, n) => p = q

Chains(D, R, C) ==
  /\ C \in [Names -> Seq(Clusters)]
  /\ \A n \in Names : Chained(D, C[n]) /\ Members(C[n]) \cap Members(R) = {}
  /\ \A n, o \in Names : n # o => Members(C[n]) \cap Members(C[o]) = {}

Entering(D, R, C) ==
  \A n \in Names : \A p \in Slots(R) :
    Taking(D, R, p, n) => Holds(At(D, R, p)[2], At(D, R, p)[3], C[n])

Layout(D, R, C) ==
  /\ IsDisk(D)
  /\ Directory(D, R)
  /\ Chains(D, R, C)
  /\ Entering(D, R, C)
  /\ \A c \in Clusters \ Members(R) : Plain(D[clust2sect(c)])

(* A volume whose root directory has no cluster but those of S.  *)
Volume(D) == \E R, C : Layout(D, R, C)
VolumeIn(D, S) == \E R, C : Layout(D, R, C) /\ Members(R) \subseteq S
------------------------------------------------------------------------------
(* Induction over the naturals, for a set of them.  *)
Less == {p \in Nat \X Nat : p[1] < p[2]}

(* Such a set that has 0, and the successor of each of its members.  *)
LEMMA Induction ==
  ASSUME NEW S, 0 \in S, \A n \in Nat : n \in S => n + 1 \in S
  PROVE  Nat \subseteq S
<1>1. IsWellFoundedOn(Less, Nat)
  BY NatLessThanWellFounded DEF OpToRel, Less
<1> SUFFICES ASSUME Nat \ S # {} PROVE FALSE
  OBVIOUS
<1>2. PICK x \in Nat \ S : \A y \in Nat \ S : <<y, x>> \notin Less
  BY <1>1, WFMin
<1>3. x - 1 \in Nat /\ x - 1 < x /\ x = x - 1 + 1
  BY <1>2
<1> QED BY <1>2, <1>3 DEF Less
------------------------------------------------------------------------------
(* Sectors.  *)
LEMMA SectorsDiffer ==
  /\ \A c \in Clusters : FatSect(c) \in Sectors /\ clust2sect(c) \in Sectors
  /\ \A c, d \in Clusters : FatSect(c) # clust2sect(d)
  /\ \A c, d \in Clusters : clust2sect(c) = clust2sect(d) => c = d
  /\ \A c \in Clusters : FsInfo # FatSect(c) /\ FsInfo # clust2sect(c)
  /\ \A c \in Clusters : Nowhere # FatSect(c) /\ Nowhere # clust2sect(c)
  /\ FsInfo \in Sectors /\ FsInfo # Nowhere
BY DEF Sectors, FatSect, clust2sect, FsInfo, Nowhere

(* A cluster is none of the other values of a FAT entry.  *)
LEMMA ClustersAre ==
  /\ Clusters \subseteq Nat
  /\ \A c \in Clusters : c # 0 /\ c # 1 /\ c # EOC /\ c >= 2 /\ c < n_fatent
  /\ EOC \in Nat /\ EOC \notin Clusters /\ EOC # 0 /\ dirbase \in Clusters
BY SizesAssumption DEF Clusters, EOC, dirbase
------------------------------------------------------------------------------
(* What a change of a sector leaves.  *)
LEMMA SetFatIs ==
  ASSUME NEW D, IsDisk(D), NEW c \in Clusters, NEW v \in Nat, NEW E, E = SetFat(D, c, v)
  PROVE  /\ IsDisk(E)
         /\ \A d \in Clusters : Fat(E, d) = IF d = c THEN v ELSE Fat(D, d)
         /\ \A d \in Clusters : E[clust2sect(d)] = D[clust2sect(d)]
<1>1. /\ DOMAIN E = DOMAIN D
      /\ \A s \in Sectors : s # FatSect(c) => E[s] = D[s]
      /\ E[FatSect(c)] = [D[FatSect(c)] EXCEPT ![c] = v]
  BY SectorsDiffer DEF SetFat, IsDisk
<1>2. c \in EntriesOf(c)
  BY DEF EntriesOf
<1>3. D[FatSect(c)] \in [EntriesOf(c) -> Nat]
  BY DEF IsDisk
<1>4. E[FatSect(c)] \in [EntriesOf(c) -> Nat]
  BY <1>1, <1>2, <1>3
<1>5. ASSUME NEW d \in Clusters
      PROVE  /\ E[FatSect(d)] \in [EntriesOf(d) -> Nat]
             /\ Fat(E, d) = IF d = c THEN v ELSE Fat(D, d)
  <2>1. CASE FatSect(d) = FatSect(c)
    <3>1. EntriesOf(d) = EntriesOf(c) /\ d \in EntriesOf(c)
      BY <2>1 DEF EntriesOf
    <3> QED BY <1>1, <1>3, <1>4, <2>1, <3>1 DEF Fat
  <2>2. CASE FatSect(d) # FatSect(c)
    <3>1. E[FatSect(d)] = D[FatSect(d)]
      BY <1>1, <2>2, SectorsDiffer
    <3> QED BY <2>2, <3>1 DEF Fat, IsDisk
  <2> QED BY <2>1, <2>2
<1>6. \A d \in Clusters : E[clust2sect(d)] = D[clust2sect(d)]
  BY <1>1, SectorsDiffer
<1> QED BY <1>1, <1>5, <1>6 DEF IsDisk

(* A sector of data changes no entry of the FAT.  *)
LEMMA SetDataIs ==
  ASSUME NEW D, IsDisk(D), NEW c \in Clusters, NEW b, DOMAIN b \in {1 .. DirPer, 1 .. SS},
         NEW E, E = SetData(D, c, b)
  PROVE  /\ IsDisk(E)
         /\ \A d \in Clusters : Fat(E, d) = Fat(D, d)
         /\ \A d \in Clusters : E[clust2sect(d)] = IF d = c THEN b ELSE D[clust2sect(d)]
<1>1. /\ DOMAIN E = DOMAIN D
      /\ \A s \in Sectors : s # clust2sect(c) => E[s] = D[s]
      /\ E[clust2sect(c)] = b
  BY SectorsDiffer DEF SetData, IsDisk
<1>2. \A d \in Clusters : E[FatSect(d)] = D[FatSect(d)]
  BY <1>1, SectorsDiffer
<1>3. \A d \in Clusters : E[clust2sect(d)] = IF d = c THEN b ELSE D[clust2sect(d)]
  BY <1>1, SectorsDiffer
<1> QED BY <1>1, <1>2, <1>3 DEF IsDisk, Fat
------------------------------------------------------------------------------
(* Chains.  *)
LEMMA MembersAre ==
  ASSUME NEW s \in Seq(Clusters)
  PROVE  /\ Members(s) \subseteq Clusters
         /\ \A i \in 1 .. Len(s) : s[i] \in Members(s)
         /\ \A c \in Members(s) : \E i \in 1 .. Len(s) : c = s[i]
         /\ \A c \in Clusters : Append(s, c) \in Seq(Clusters) /\ Members(Append(s, c)) = Members(s) \cup {c}
<1>1. \A i \in 1 .. Len(s) : s[i] \in Clusters
  OBVIOUS
<1>2. ASSUME NEW c \in Clusters
      PROVE  Append(s, c) \in Seq(Clusters) /\ Members(Append(s, c)) = Members(s) \cup {c}
  <2>1. /\ Len(Append(s, c)) = Len(s) + 1 /\ Len(s) \in Nat
        /\ \A i \in 1 .. Len(s) : Append(s, c)[i] = s[i]
        /\ Append(s, c)[Len(s) + 1] = c /\ Append(s, c) \in Seq(Clusters)
    OBVIOUS
  <2>2. \A i \in 1 .. Len(s) + 1 : i \in 1 .. Len(s) \/ i = Len(s) + 1
    BY <2>1
  <2>3. \A i \in 1 .. Len(s) : i \in 1 .. Len(s) + 1
    BY <2>1
  <2>4. Len(s) + 1 \in 1 .. Len(s) + 1
    BY <2>1
  <2> HIDE DEF Members
  <2>5. Members(Append(s, c)) \subseteq Members(s) \cup {c}
    BY <2>1, <2>2 DEF Members
  <2>6. Members(s) \cup {c} \subseteq Members(Append(s, c))
    BY <2>1, <2>3, <2>4 DEF Members
  <2> QED BY <2>1, <2>5, <2>6
<1> QED BY <1>1, <1>2 DEF Members

(* A chain stays where its entries do.  *)
LEMMA ChainApart ==
  ASSUME NEW D, NEW E, NEW s, Chained(D, s), \A c \in Members(s) : Fat(E, c) = Fat(D, c)
  PROVE  Chained(E, s)
BY MembersAre DEF Chained

(* A marked cluster linked to the last one of a chain lengthens it.  *)
LEMMA ChainGrows ==
  ASSUME NEW D, NEW s, Chained(D, s), s # <<>>, NEW n \in Clusters, n \notin Members(s), Fat(D, n) = EOC,
         IsDisk(D), NEW E, E = SetFat(D, s[Len(s)], n)
  PROVE  Chained(E, Append(s, n))
<1> DEFINE t == Append(s, n)
<1>1. s \in Seq(Clusters)
  BY DEF Chained
<1>2. /\ Len(s) \in Nat \ {0} /\ Len(t) = Len(s) + 1 /\ t \in Seq(Clusters)
      /\ \A i \in 1 .. Len(s) : t[i] = s[i] /\ s[i] \in Clusters
      /\ t[Len(s) + 1] = n
  BY <1>1
<1>3. s[Len(s)] \in Clusters /\ n \in Nat
  BY <1>2, ClustersAre
<1>4. \A d \in Clusters : Fat(E, d) = IF d = s[Len(s)] THEN n ELSE Fat(D, d)
  <2>1. PICK e \in Clusters : e = s[Len(s)]
    BY <1>3
  <2>2. E = SetFat(D, e, n)
    BY <2>1
  <2> HIDE DEF t
  <2> QED BY <1>3, <2>1, <2>2, SetFatIs
<1>5. n # s[Len(s)] /\ \A i \in 1 .. Len(s) : s[i] # n
  BY <1>1, <1>2, MembersAre
<1> HIDE DEF t
<1>6. \A i, j \in 1 .. Len(t) : t[i] = t[j] => i = j
  <2>1. \A i \in 1 .. Len(t) : i \in 1 .. Len(s) \/ i = Len(s) + 1
    BY <1>2
  <2> QED BY <1>2, <1>5, <2>1 DEF Chained
<1>7. ASSUME NEW i \in 1 .. Len(t)
      PROVE  Fat(E, t[i]) = IF i = Len(t) THEN EOC ELSE t[i + 1]
  <2>1. CASE i = Len(t)
    BY <1>2, <1>4, <1>5, <2>1
  <2>2. CASE i = Len(s)
    <3>1. i \in 1 .. Len(s) /\ i # Len(t) /\ t[i] = s[Len(s)] /\ t[i + 1] = n
      BY <1>2, <2>2
    <3> QED BY <1>3, <1>4, <3>1
  <2>3. CASE i \in 1 .. Len(s) - 1
    <3>1. i \in 1 .. Len(s) /\ Len(s) \in 1 .. Len(s) /\ i # Len(s) /\ i + 1 \in 1 .. Len(s)
      BY <1>2, <2>3
    <3>2. s[i] # s[Len(s)]
      BY <3>1 DEF Chained
    <3>3. Fat(D, s[i]) = s[i + 1]
      BY <3>1 DEF Chained
    <3> QED BY <1>2, <1>4, <3>1, <3>2, <3>3
  <2> QED BY <1>2, <2>1, <2>2, <2>3
<1> QED BY <1>2, <1>6, <1>7 DEF Chained, t
------------------------------------------------------------------------------
(* What a reader of the volume follows is the chain that lies on it.  *)
LEMMA ChainFits ==
  ASSUME NEW D, NEW s, Chained(D, s)
  PROVE  /\ s \in Seq(Clusters) /\ Len(s) \in Nat /\ Len(s) <= n_fatent
         /\ IsFiniteSet(Members(s)) /\ Cardinality(Members(s)) = Len(s)
<1>1. s \in Seq(Clusters) /\ Len(s) \in Nat /\ (\A i, j \in 1 .. Len(s) : s[i] = s[j] => i = j)
  BY DEF Chained
<1>2. IsFiniteSet(1 .. Len(s)) /\ Cardinality(1 .. Len(s)) = Len(s)
  <2>1. PICK l : l = Len(s)
    OBVIOUS
  <2>2. 1 \in Int /\ l \in Int /\ (IF 1 > l THEN 0 ELSE l - 1 + 1) = l
    BY <1>1, <2>1
  <2>3. IsFiniteSet(1 .. l) /\ Cardinality(1 .. l) = IF 1 > l THEN 0 ELSE l - 1 + 1
    BY <2>2, FS_Interval, Zenon
  <2> QED BY <2>1, <2>2, <2>3
<1>3. IsFiniteSet(1 .. n_fatent) /\ Cardinality(1 .. n_fatent) = n_fatent /\ n_fatent \in Nat
  BY FS_Interval, SizesAssumption
<1>4. PICK g : g = [i \in 1 .. Len(s) |-> s[i]]
  OBVIOUS
<1>5. g \in Injection(1 .. Len(s), 1 .. n_fatent)
  <2>1. \A i \in 1 .. Len(s) : s[i] \in 1 .. n_fatent
    BY <1>1, <1>3 DEF Clusters
  <2>2. g \in [1 .. Len(s) -> 1 .. n_fatent]
    BY <1>4, <2>1
  <2> QED BY <1>1, <1>4, <2>2 DEF Injection, IsInjective
<1>6. Len(s) <= n_fatent
  BY <1>2, <1>3, <1>5, FS_Injection
<1>7. g \in Surjection(1 .. Len(s), Members(s)) /\ g \in Injection(1 .. Len(s), Members(s))
  <2>1. g \in [1 .. Len(s) -> Members(s)]
    BY <1>4 DEF Members
  <2>2. \A c \in Members(s) : \E i \in 1 .. Len(s) : g[i] = c
    BY <1>4 DEF Members
  <2> QED BY <1>1, <1>4, <2>1, <2>2 DEF Injection, IsInjective, Surjection
<1>8. IsFiniteSet(Members(s)) /\ Cardinality(Members(s)) = Cardinality(1 .. Len(s))
  BY <1>2, <1>7, FS_Surjection
<1> QED BY <1>1, <1>2, <1>6, <1>8

(* A walk of the FAT from cluster c, one entry a step.  *)
Link(D) == [d \in 0 .. EOC |-> IF d \in Clusters THEN Fat(D, d) ELSE EOC]
Walk(D, c, g) == g = [k \in 1 .. n_fatent |-> IF k = 1 THEN c ELSE Link(D)[g[k - 1]]]
Prefix(g) == [k \in 1 .. Cardinality({k \in 1 .. n_fatent : g[k] \in Clusters}) |-> g[k]]

(* The chain is read off a walk.  *)
LEMMA ChainWalks ==
  ASSUME NEW D, NEW c, NEW h, Walk(D, c, h)
  PROVE  \E g : Walk(D, c, g) /\ Chain(D, c) = Prefix(g)
<1> DEFINE at == CHOOSE g : Walk(D, c, g)
<1>1. Walk(D, c, at)
  OBVIOUS
<1>2. Chain(D, c) = Prefix(at)
  BY DEF Chain, Prefix, Walk, Link
<1> QED BY <1>1, <1>2

(* A walk, step by step.  *)
LEMMA WalkIs ==
  ASSUME NEW D, NEW c, NEW g, Walk(D, c, g)
  PROVE  /\ g[1] = c
         /\ \A k \in 1 .. n_fatent - 1 : g[k + 1] = Link(D)[g[k]]
<1>1. n_fatent \in Nat \ 0 .. 2
  BY SizesAssumption
<1>2. \A k \in 1 .. n_fatent : g[k] = IF k = 1 THEN c ELSE Link(D)[g[k - 1]]
  <2> HIDE DEF Link
  <2> QED BY DEF Walk
<1>3. g[1] = c
  BY <1>1, <1>2
<1>4. ASSUME NEW k \in 1 .. n_fatent - 1
      PROVE  g[k + 1] = Link(D)[g[k]]
  <2>1. k + 1 \in 1 .. n_fatent /\ k + 1 # 1 /\ (k + 1) - 1 = k
    BY <1>1
  <2> QED BY <1>2, <2>1
<1> QED BY <1>3, <1>4

(* What a chain says of a walk: its clusters and then the end.  *)
Step(s, k) == IF k <= Len(s) THEN s[k] ELSE EOC

(* A step of the walk is one of the chain.  *)
LEMMA LinkIs ==
  ASSUME NEW D, NEW s, Chained(D, s), NEW k \in Nat \ {0}
  PROVE  Link(D)[Step(s, k)] = Step(s, k + 1)
<1>1. s \in Seq(Clusters) /\ Len(s) \in Nat /\ n_fatent \in Nat \ 0 .. 2
  BY SizesAssumption DEF Chained
<1>2. CASE k <= Len(s)
  <2>1. s[k] \in Clusters /\ k \in 1 .. Len(s)
    BY <1>1, <1>2
  <2>2. s[k] \in 0 .. EOC
    BY <1>1, <2>1 DEF Clusters, EOC
  <2>3. Link(D)[s[k]] = Fat(D, s[k])
    BY <2>1, <2>2 DEF Link
  <2>4. Fat(D, s[k]) = IF k = Len(s) THEN EOC ELSE s[k + 1]
    BY <2>1 DEF Chained
  <2> QED BY <1>1, <1>2, <2>3, <2>4 DEF Step
<1>3. CASE ~(k <= Len(s))
  <2>1. EOC \in 0 .. EOC /\ EOC \notin Clusters
    BY <1>1 DEF EOC, Clusters
  <2>2. Link(D)[EOC] = EOC
    BY <2>1 DEF Link
  <2> QED BY <1>1, <1>3, <2>2 DEF Step
<1> QED BY <1>2, <1>3

(* A reader of the volume finds the chain.  *)
LEMMA ChainIs ==
  ASSUME NEW D, NEW s, Chained(D, s), s # <<>>, NEW c, c = s[1]
  PROVE  Chain(D, c) = s
<1>1. s \in Seq(Clusters) /\ Len(s) \in Nat \ {0} /\ n_fatent \in Nat \ 0 .. 2 /\ Len(s) <= n_fatent
  BY ChainFits, SizesAssumption
<1>h. PICK h : h = [k \in 1 .. n_fatent |-> Step(s, k)]
  OBVIOUS
<1>2. Walk(D, c, h)
  <2>1. ASSUME NEW k \in 1 .. n_fatent
        PROVE  Step(s, k) = IF k = 1 THEN c ELSE Link(D)[h[k - 1]]
    <3>1. CASE k = 1
      BY <1>1, <3>1 DEF Step
    <3>2. CASE k # 1
      <4>1. k - 1 \in 1 .. n_fatent /\ k - 1 \in Nat \ {0} /\ (k - 1) + 1 = k
        BY <1>1, <3>2
      <4>2. Link(D)[Step(s, k - 1)] = Step(s, k)
        BY <4>1, LinkIs
      <4> QED BY <1>h, <3>2, <4>1, <4>2
    <3> QED BY <3>1, <3>2
  <2> HIDE DEF Step, Link
  <2> QED BY <1>h, <2>1 DEF Walk
<1>3. PICK g : Walk(D, c, g) /\ Chain(D, c) = Prefix(g)
  BY <1>2, ChainWalks
<1>4. \A k \in 1 .. n_fatent : g[k] = Step(s, k)
  <2> DEFINE S == {k \in Nat : k + 1 <= n_fatent => g[k + 1] = Step(s, k + 1)}
  <2>1. 0 \in S
    BY <1>1, <1>3, WalkIs DEF Step
  <2>2. ASSUME NEW k \in Nat, k \in S
        PROVE  k + 1 \in S
    <3>1. SUFFICES ASSUME (k + 1) + 1 <= n_fatent
                   PROVE  g[(k + 1) + 1] = Step(s, (k + 1) + 1)
      OBVIOUS
    <3>2. k + 1 \in 1 .. n_fatent - 1 /\ k + 1 \in Nat \ {0} /\ k + 1 <= n_fatent
      BY <1>1, <3>1
    <3>3. g[k + 1] = Step(s, k + 1)
      BY <2>2, <3>2
    <3>4. g[(k + 1) + 1] = Link(D)[g[k + 1]]
      BY <1>3, <3>2, WalkIs
    <3>5. Link(D)[Step(s, k + 1)] = Step(s, (k + 1) + 1)
      BY <3>2, LinkIs
    <3> QED BY <3>3, <3>4, <3>5
  <2>3. Nat \subseteq S
    <3> HIDE DEF S
    <3> QED BY <2>1, <2>2, Induction
  <2>4. ASSUME NEW k \in 1 .. n_fatent
        PROVE  g[k] = Step(s, k)
    <3>1. k - 1 \in Nat /\ (k - 1) + 1 = k /\ k <= n_fatent
      BY <1>1
    <3>2. k - 1 \in S
      BY <2>3, <3>1
    <3> QED BY <3>1, <3>2
  <2> QED BY <2>4
<1>5. {k \in 1 .. n_fatent : g[k] \in Clusters} = 1 .. Len(s)
  <2>1. \A k \in 1 .. n_fatent : g[k] \in Clusters <=> k <= Len(s)
    <3>1. EOC \notin Clusters
      BY <1>1 DEF EOC, Clusters
    <3> QED BY <1>1, <1>4, <3>1 DEF Step
  <2> QED BY <1>1, <2>1
<1>6. Cardinality(1 .. Len(s)) = Len(s)
  <2>1. PICK l \in Nat : l = Len(s)
    BY <1>1
  <2>2. 1 \in Int /\ l \in Int
    OBVIOUS
  <2>3. Cardinality(1 .. l) = IF 1 > l THEN 0 ELSE l - 1 + 1
    BY <2>2, FS_Interval, Zenon
  <2>4. Cardinality(1 .. l) = l
    BY <2>3
  <2> QED BY <2>1, <2>4
<1>7. Prefix(g) = [k \in 1 .. Len(s) |-> g[k]]
  BY <1>5, <1>6 DEF Prefix
<1>8. \A k \in 1 .. Len(s) : g[k] = s[k]
  BY <1>1, <1>4 DEF Step
<1> QED BY <1>1, <1>3, <1>7, <1>8

(* A file without a cluster has no chain.  *)
LEMMA NoChain ==
  ASSUME NEW D
  PROVE  Chain(D, 0) = <<>>
<1>1. n_fatent \in Nat \ 0 .. 2 /\ 0 \notin Clusters /\ EOC \notin Clusters /\ 0 \in 0 .. EOC /\ EOC \in 0 .. EOC
  BY SizesAssumption DEF Clusters, EOC
<1>2. Link(D)[0] = EOC /\ Link(D)[EOC] = EOC
  BY <1>1 DEF Link
<1>h. PICK h : h = [k \in 1 .. n_fatent |-> IF k = 1 THEN 0 ELSE EOC]
  OBVIOUS
<1>3. Walk(D, 0, h)
  <2>1. ASSUME NEW k \in 1 .. n_fatent
        PROVE  h[k] = IF k = 1 THEN 0 ELSE Link(D)[h[k - 1]]
    <3>1. CASE k = 1
      BY <1>h, <3>1
    <3>2. CASE k # 1
      <4>1. k - 1 \in 1 .. n_fatent
        BY <1>1, <3>2
      <4>2. h[k - 1] \in {0, EOC} /\ h[k] = EOC
        BY <1>h, <3>2, <4>1
      <4> QED BY <1>2, <3>2, <4>2
    <3> QED BY <3>1, <3>2
  <2> HIDE DEF Link
  <2> QED BY <1>h, <2>1 DEF Walk
<1>4. PICK g : Walk(D, 0, g) /\ Chain(D, 0) = Prefix(g)
  BY <1>3, ChainWalks
<1>5. \A k \in 1 .. n_fatent : g[k] \in {0, EOC}
  <2> DEFINE S == {k \in Nat : k + 1 <= n_fatent => g[k + 1] \in {0, EOC}}
  <2>1. 0 \in S
    BY <1>4, WalkIs
  <2>2. ASSUME NEW k \in Nat, k \in S
        PROVE  k + 1 \in S
    <3>1. SUFFICES ASSUME (k + 1) + 1 <= n_fatent
                   PROVE  g[(k + 1) + 1] \in {0, EOC}
      OBVIOUS
    <3>2. k + 1 \in 1 .. n_fatent - 1 /\ k + 1 <= n_fatent
      BY <1>1, <3>1
    <3>3. g[k + 1] \in {0, EOC}
      BY <2>2, <3>2
    <3>4. g[(k + 1) + 1] = Link(D)[g[k + 1]]
      BY <1>4, <3>2, WalkIs
    <3> QED BY <1>2, <3>3, <3>4
  <2>3. Nat \subseteq S
    <3> HIDE DEF S
    <3> QED BY <2>1, <2>2, Induction
  <2>4. ASSUME NEW k \in 1 .. n_fatent
        PROVE  g[k] \in {0, EOC}
    <3>1. k - 1 \in Nat /\ (k - 1) + 1 = k /\ k <= n_fatent
      BY <1>1
    <3>2. k - 1 \in S
      BY <2>3, <3>1
    <3> QED BY <3>1, <3>2
  <2> QED BY <2>4
<1>6. {k \in 1 .. n_fatent : g[k] \in Clusters} = {}
  BY <1>1, <1>5
<1>7. Cardinality({}) = 0
  BY FS_EmptySet
<1>8. Prefix(g) = [k \in 1 .. 0 |-> g[k]]
  BY <1>6, <1>7 DEF Prefix
<1> QED BY <1>4, <1>8
------------------------------------------------------------------------------
(* Machines.  *)
Shape(m) ==
  /\ {"disk", "cards", "fs", "fil", "res", "val", "dir", "fail", "refused", "ready", "selected"} \subseteq DOMAIN m
  /\ {"fs_type", "winsect", "win", "wflag", "free_clust", "last_clust", "fsi_flag"} \subseteq DOMAIN m.fs
  /\ Files \subseteq DOMAIN m.fil
  /\ \A f \in Files :
       {"fs", "write", "written", "dirty", "err", "fptr", "fsize", "sclust", "clust", "dsect", "buf", "dir"}
         \subseteq DOMAIN m.fil[f]

(* The volume with the window written back.  *)
Effective(m) == IF m.fs.wflag THEN [m.disk EXCEPT ![m.fs.winsect] = m.fs.win] ELSE m.disk

(* The window is moved to FAT sectors and to sectors of the directory.  *)
Cached(S) == {FatSect(c) : c \in Clusters} \cup {clust2sect(c) : c \in S}
Window(m, S) ==
  /\ m.fs.wflag \in BOOLEAN
  /\ m.fs.winsect \in Cached(S) \cup {FsInfo, Nowhere}
  /\ m.fs.wflag => m.fs.winsect \in Cached(S)
  /\ ~m.fs.wflag /\ m.fs.winsect \in Cached(S) => m.fs.win = m.disk[m.fs.winsect]

Raw(m, S) ==
  /\ Shape(m) /\ Window(m, S)
  /\ m.disk \in m.cards /\ \A D \in m.cards : Volume(D)
  /\ VolumeIn(m.disk, S)

Held(m, R, C) == Raw(m, Members(R)) /\ Layout(Effective(m), R, C)

(* A call that leaves the volume, the directory position and the files.  *)
Keeps(m, w) ==
  /\ Effective(w) = Effective(m) /\ w.dir = m.dir
  /\ w.fil = m.fil /\ w.fs.fs_type = m.fs.fs_type
------------------------------------------------------------------------------
(* The disk layer and the window.  *)
LEMMA CachedAre ==
  ASSUME NEW R, R \in Seq(Clusters)
  PROVE  /\ Members(R) \subseteq Clusters
         /\ Cached(Members(R)) \subseteq Sectors
         /\ FsInfo \notin Cached(Members(R)) /\ Nowhere \notin Cached(Members(R))
<1>1. \A i \in 1 .. Len(R) : R[i] \in Clusters
  OBVIOUS
<1>2. Members(R) \subseteq Clusters
  BY <1>1 DEF Members
<1> QED BY <1>2, SectorsDiffer DEF Cached

(* The volume depends on the disk and the window only.  *)
LEMMA Frame ==
  ASSUME NEW m, NEW w, NEW S, Raw(m, S), Shape(w), w.disk = m.disk, w.cards = m.cards,
         w.fs.win = m.fs.win, w.fs.winsect = m.fs.winsect, w.fs.wflag = m.fs.wflag
  PROVE  Raw(w, S) /\ Effective(w) = Effective(m)
BY DEF Raw, Window, Effective

(* disk_read.  *)
LEMMA DiskReads ==
  ASSUME NEW m, NEW R, NEW C, Held(m, R, C), NEW w, w = disk_read(m)
  PROVE  /\ Held(w, R, C) /\ Keeps(m, w)
         /\ w.fs = m.fs /\ w.disk = m.disk /\ w.val = m.val /\ w.res \in {m.res, "DISK_ERR"}
<1>1. /\ Shape(w) /\ w.disk = m.disk /\ w.cards = m.cards /\ w.fs = m.fs /\ w.val = m.val
      /\ w.dir = m.dir /\ w.fil = m.fil /\ w.res \in {m.res, "DISK_ERR"}
  BY DEF disk_read, Refused, Held, Raw, Shape
<1>2. Raw(w, Members(R)) /\ Effective(w) = Effective(m)
  BY <1>1, Frame DEF Held
<1> QED BY <1>1, <1>2 DEF Held, Keeps

(* sync_window: the volume is as it was, and on the disk when it succeeds.  *)
LEMMA SyncsWindow ==
  ASSUME NEW m, NEW R, NEW C, Held(m, R, C), OK(m), NEW w, w = sync_window(m)
  PROVE  /\ Held(w, R, C) /\ Keeps(m, w) /\ w.val = m.val
         /\ w.fs.winsect = m.fs.winsect /\ w.fs.win = m.fs.win
         /\ OK(w) => ~w.fs.wflag /\ w.disk = Effective(m)
         /\ w.res \in {"OK", "DISK_ERR"}
<1>1. CASE ~m.fs.wflag
  <2>1. w = m
    BY <1>1 DEF sync_window
  <2> QED BY <1>1, <2>1 DEF Keeps, Effective, OK
<1>2. CASE m.fs.wflag
  <2> DEFINE d == disk_write(m, m.fs.winsect, m.fs.win)
  <2>1. w = IF OK(d) THEN [d EXCEPT !.fs.wflag = FALSE] ELSE d
    BY <1>2 DEF sync_window, Then
  <2>2. CASE m.fail = 0 \/ ~m.selected
    <3>1. d = Refused(m)
      BY <2>2 DEF disk_write
    <3>2. w = Refused(m)
      BY <2>1, <3>1 DEF Refused, OK, Held, Raw, Shape
    <3>3. /\ Shape(w) /\ w.disk = m.disk /\ w.cards = m.cards /\ w.fs = m.fs /\ w.val = m.val
          /\ w.dir = m.dir /\ w.fil = m.fil /\ w.res = "DISK_ERR"
      BY <3>2 DEF Refused, Held, Raw, Shape
    <3>4. Raw(w, Members(R)) /\ Effective(w) = Effective(m)
      BY <3>3, Frame DEF Held
    <3> QED BY <3>3, <3>4 DEF Held, Keeps, OK
  <2>3. CASE ~(m.fail = 0 \/ ~m.selected)
    <3>1. d = Written(m, m.fs.winsect, m.fs.win)
      BY <2>3 DEF disk_write
    <3>2. w = [d EXCEPT !.fs.wflag = FALSE]
      BY <2>1, <3>1 DEF Written, OK, Held, Raw, Shape
    <3>3. /\ Shape(w) /\ w.disk = Effective(m) /\ w.cards = m.cards \cup {w.disk}
          /\ w.fs.wflag = FALSE /\ w.fs.win = m.fs.win /\ w.fs.winsect = m.fs.winsect
          /\ w.fs.fs_type = m.fs.fs_type /\ w.res = m.res
          /\ w.val = m.val /\ w.dir = m.dir /\ w.fil = m.fil
      BY <1>2, <3>1, <3>2 DEF Written, Held, Raw, Shape, Effective
    <3>4. Effective(w) = Effective(m)
      BY <3>3 DEF Effective
    <3>5. Volume(w.disk) /\ VolumeIn(w.disk, Members(R))
      BY <3>3 DEF Volume, VolumeIn, Held
    <3>6. w.fs.winsect \in Cached(Members(R)) => w.fs.win = w.disk[w.fs.winsect]
      <4>1. Cached(Members(R)) \subseteq Sectors
        BY CachedAre DEF Held, Layout, Directory, Chained
      <4>2. m.fs.winsect \in Sectors
        BY <1>2, <4>1 DEF Held, Raw, Window
      <4>3. Sectors \subseteq DOMAIN m.disk
        BY DEF Held, Raw, VolumeIn, Layout, IsDisk
      <4> QED BY <1>2, <3>3, <4>2, <4>3 DEF Effective
    <3>7. Raw(w, Members(R))
      BY <3>3, <3>5, <3>6 DEF Held, Raw, Window
    <3> QED BY <3>3, <3>4, <3>7 DEF Held, Keeps, OK
  <2> QED BY <2>2, <2>3
<1> QED BY <1>1, <1>2 DEF Held, Raw, Window
------------------------------------------------------------------------------
(* More sectors may be in the window.  *)
LEMMA RawWidens ==
  ASSUME NEW m, NEW S, NEW R, R \in Seq(Clusters), Raw(m, S), S \subseteq Members(R)
  PROVE  Raw(m, Members(R))
<1>1. Cached(S) \subseteq Cached(Members(R))
  BY DEF Cached
<1>2. Window(m, Members(R))
  BY <1>1, CachedAre DEF Raw, Window
<1>3. VolumeIn(m.disk, Members(R))
  BY DEF Raw, VolumeIn
<1> QED BY <1>2, <1>3 DEF Raw

(* move_window: the sector wanted is in the window when it succeeds.  *)
LEMMA MovesWindow ==
  ASSUME NEW m, NEW R, NEW C, Held(m, R, C), OK(m), NEW s \in Cached(Members(R)), NEW w, w = move_window(m, s)
  PROVE  /\ Held(w, R, C) /\ Keeps(m, w) /\ w.val = m.val
         /\ OK(w) => w.fs.winsect = s /\ w.fs.win = Effective(m)[s]
         /\ w.res \in {"OK", "DISK_ERR"}
<1>s. s \in Sectors /\ s # Nowhere /\ s # FsInfo
  BY CachedAre DEF Held, Layout, Directory, Chained
<1>d. Sectors \subseteq DOMAIN m.disk
  BY DEF Held, Raw, VolumeIn, Layout, IsDisk
<1>1. CASE s = m.fs.winsect
  <2>1. w = m
    BY <1>1 DEF move_window
  <2>2. m.fs.win = Effective(m)[s]
    BY <1>1, <1>s, <1>d DEF Held, Raw, Window, Effective
  <2> QED BY <1>1, <2>1, <2>2 DEF Keeps, OK
<1>2. CASE s # m.fs.winsect
  <2> DEFINE v == sync_window(m)
             r == disk_read(v)
  <2>1. w = IF OK(v) THEN Filled(r, s) ELSE v
    BY <1>2 DEF move_window, Then
  <2>2. /\ Held(v, R, C) /\ Keeps(m, v) /\ v.val = m.val
        /\ OK(v) => ~v.fs.wflag /\ v.disk = Effective(m)
        /\ v.res \in {"OK", "DISK_ERR"}
    BY SyncsWindow
  <2>3. CASE ~OK(v)
    BY <2>1, <2>2, <2>3
  <2>4. CASE OK(v)
    <3>1. /\ Held(r, R, C) /\ Keeps(v, r)
          /\ r.fs = v.fs /\ r.disk = v.disk /\ r.val = v.val /\ r.res \in {v.res, "DISK_ERR"}
      <4> HIDE DEF v
      <4> QED BY <2>2, DiskReads
    <3>2. w = Filled(r, s)
      BY <2>1, <2>4
    <3> HIDE DEF v, r
    <3>3. /\ Shape(w) /\ w.disk = r.disk /\ w.cards = r.cards /\ ~w.fs.wflag
          /\ w.fs.wflag = r.fs.wflag /\ w.fs.fs_type = r.fs.fs_type /\ w.fil = r.fil /\ w.val = r.val /\ w.dir = r.dir
          /\ w.fs.winsect \in {s, Nowhere} /\ w.res = r.res
          /\ w.fs.winsect = s => w.fs.win = w.disk[s]
          /\ OK(w) => w.fs.winsect = s
      BY <2>2, <2>4, <3>1, <3>2, <1>s DEF Filled, Held, Raw, Shape, OK
    <3>4. Effective(w) = w.disk /\ Effective(m) = w.disk
      BY <2>2, <2>4, <3>1, <3>3 DEF Effective
    <3>5. Window(w, Members(R))
      BY <3>1, <3>3, CachedAre DEF Window, Held, Raw, Layout, Directory, Chained
    <3>6. Raw(w, Members(R))
      BY <3>1, <3>3, <3>5 DEF Held, Raw
    <3> QED BY <2>2, <2>4, <3>1, <3>3, <3>4, <3>6 DEF Held, Keeps, OK
  <2> QED BY <2>3, <2>4
<1> QED BY <1>1, <1>2
------------------------------------------------------------------------------
(* The FAT.  *)
LEMMA GetsFat ==
  ASSUME NEW m, NEW R, NEW C, Held(m, R, C), OK(m), NEW c \in Clusters, NEW w, w = get_fat(m, c)
  PROVE  /\ Held(w, R, C) /\ Keeps(m, w)
         /\ OK(w) => w.val = Fat(Effective(m), c) /\ w.val \in Nat
         /\ w.res \in {"OK", "DISK_ERR"}
<1> DEFINE v == move_window(m, FatSect(c))
<1>1. w = IF OK(v) THEN [v EXCEPT !.val = v.fs.win[c]] ELSE v
  BY DEF get_fat, Then
<1>2. FatSect(c) \in Cached(Members(R))
  BY DEF Cached
<1>3. /\ Held(v, R, C) /\ Keeps(m, v)
      /\ OK(v) => v.fs.winsect = FatSect(c) /\ v.fs.win = Effective(m)[FatSect(c)]
      /\ v.res \in {"OK", "DISK_ERR"}
  BY <1>2, MovesWindow
<1> HIDE DEF v
<1>4. CASE ~OK(v)
  BY <1>1, <1>3, <1>4
<1>5. CASE OK(v)
  <2>1. w = [v EXCEPT !.val = v.fs.win[c]]
    BY <1>1, <1>5
  <2>2. /\ Shape(w) /\ w.disk = v.disk /\ w.cards = v.cards /\ w.fs = v.fs /\ w.fil = v.fil /\ w.dir = v.dir
        /\ w.val = v.fs.win[c] /\ w.res = v.res
    BY <1>3, <2>1 DEF Held, Raw, Shape
  <2>3. Raw(w, Members(R)) /\ Effective(w) = Effective(v)
    BY <1>3, <2>2, Frame DEF Held
  <2>4. Fat(Effective(m), c) \in Nat
    <3>1. IsDisk(Effective(m))
      BY DEF Held, Layout
    <3> QED BY <3>1 DEF IsDisk, Fat, EntriesOf
  <2> QED BY <1>3, <1>5, <2>2, <2>3, <2>4 DEF Held, Keeps, Fat
<1> QED BY <1>4, <1>5

(* put_fat: of the volume it changes the one entry.  *)
LEMMA PutsFat ==
  ASSUME NEW m, NEW R, NEW C, Held(m, R, C), OK(m), NEW c \in Clusters, NEW x \in Nat,
         NEW Q, NEW B, Layout(SetFat(Effective(m), c, x), Q, B), Members(R) \subseteq Members(Q),
         NEW w, w = put_fat(m, c, x)
  PROVE  /\ w.fil = m.fil /\ w.fs.fs_type = m.fs.fs_type /\ w.dir = m.dir /\ w.val = m.val
         /\ OK(w) => Held(w, Q, B) /\ Effective(w) = SetFat(Effective(m), c, x)
         /\ ~OK(w) => Held(w, R, C) /\ Keeps(m, w)
<1> DEFINE v == move_window(m, FatSect(c))
<1>1. w = IF OK(v) THEN [v EXCEPT !.fs.win[c] = x, !.fs.wflag = TRUE] ELSE v
  BY DEF put_fat, Then
<1>2. FatSect(c) \in Cached(Members(R))
  BY DEF Cached
<1>3. /\ Held(v, R, C) /\ Keeps(m, v) /\ v.val = m.val
      /\ OK(v) => v.fs.winsect = FatSect(c) /\ v.fs.win = Effective(m)[FatSect(c)]
  BY <1>2, MovesWindow
<1> HIDE DEF v
<1>4. CASE ~OK(v)
  BY <1>1, <1>3, <1>4 DEF Keeps
<1>5. CASE OK(v)
  <2>1. w = [v EXCEPT !.fs.win[c] = x, !.fs.wflag = TRUE]
    BY <1>1, <1>5
  <2>2. /\ Shape(w) /\ w.disk = v.disk /\ w.cards = v.cards /\ w.fil = v.fil /\ w.dir = v.dir
        /\ w.val = v.val /\ OK(w)
        /\ w.fs.winsect = FatSect(c) /\ w.fs.wflag = TRUE /\ w.fs.fs_type = v.fs.fs_type
        /\ w.fs.win = [v.fs.win EXCEPT ![c] = x]
    <3>1. Shape(v)
      BY <1>3 DEF Held, Raw
    <3>2. /\ w.disk = v.disk /\ w.cards = v.cards /\ w.fil = v.fil /\ w.dir = v.dir
          /\ w.val = v.val /\ w.res = v.res /\ DOMAIN w = DOMAIN v
          /\ w.fs = [v.fs EXCEPT !.win = [@ EXCEPT ![c] = x], !.wflag = TRUE]
      BY <2>1, <3>1 DEF Shape
    <3> QED BY <1>3, <1>5, <3>1, <3>2 DEF Shape, OK
  <2>3. Sectors \subseteq DOMAIN v.disk /\ FatSect(c) \in Sectors
    BY <1>3, SectorsDiffer DEF Held, Raw, VolumeIn, Layout, IsDisk
  <2>4. Effective(w) = SetFat(Effective(m), c, x)
    <3>1. Effective(w) = [v.disk EXCEPT ![FatSect(c)] = w.fs.win]
      BY <2>2 DEF Effective
    <3>2. Effective(v) \in {v.disk, [v.disk EXCEPT ![FatSect(c)] = v.fs.win]}
      BY <1>3, <1>5 DEF Effective
    <3>3. Effective(m) = Effective(v)
      BY <1>3 DEF Keeps
    <3>4. SetFat(Effective(m), c, x) = [Effective(v) EXCEPT ![FatSect(c)] = w.fs.win]
      BY <1>3, <1>5, <2>2, <3>3 DEF SetFat
    <3>5. [[v.disk EXCEPT ![FatSect(c)] = v.fs.win] EXCEPT ![FatSect(c)] = w.fs.win]
            = [v.disk EXCEPT ![FatSect(c)] = w.fs.win]
      OBVIOUS
    <3> QED BY <3>1, <3>2, <3>4, <3>5
  <2>5. R \in Seq(Clusters) /\ Q \in Seq(Clusters)
    BY DEF Held, Layout, Directory, Chained
  <2>6. Raw(v, Members(Q))
    BY <1>3, <2>5, RawWidens DEF Held
  <2>7. Window(w, Members(Q))
    BY <2>2, SectorsDiffer DEF Window, Cached
  <2>8. Raw(w, Members(Q))
    BY <2>2, <2>6, <2>7 DEF Raw
  <2> QED BY <1>3, <2>2, <2>4, <2>8 DEF Held, Keeps
<1> QED BY <1>4, <1>5
------------------------------------------------------------------------------
(* What is in the slots of the directory.  *)
LEMMA SlotsAre ==
  ASSUME NEW D, NEW R, NEW C, Layout(D, R, C), NEW p \in Slots(R)
  PROVE  /\ p[1] \in 1 .. Len(R) /\ p[2] \in 1 .. DirPer /\ R[p[1]] \in Clusters
         /\ R[p[1]] \in Members(R) /\ p[2] \in DOMAIN D[clust2sect(R[p[1]])]
         /\ IsUnit(At(D, R, p)) \/ IsEntry(At(D, R, p))
<1>1. p[1] \in 1 .. Len(R) /\ p[2] \in 1 .. DirPer /\ R[p[1]] \in Clusters
  BY DEF Slots, Layout, Directory, Chained
<1>2. DirSector(D[clust2sect(R[p[1]])]) /\ p[2] \in DOMAIN D[clust2sect(R[p[1]])]
  BY <1>1, SizesAssumption DEF Layout, Directory, IsDisk
<1> QED BY <1>1, <1>2 DEF DirSector, At, Members

(* A longer chain holds what a chain holds.  *)
LEMMA HoldsLonger ==
  ASSUME NEW s \in Seq(Clusters), NEW c \in Clusters, NEW a, NEW z \in Nat, Holds(a, z, s)
  PROVE  Holds(a, z, Append(s, c))
<1>1. s # <<>> => Append(s, c) # <<>> /\ Append(s, c)[1] = s[1] /\ Len(Append(s, c)) = Len(s) + 1
  OBVIOUS
<1>2. SS * Len(s) \in Nat /\ SS * (Len(s) + 1) = SS * Len(s) + SS /\ SS \in Nat
  BY SizesAssumption
<1> QED BY <1>1, <1>2 DEF Holds

(* A volume whose directory sectors are as they were.  *)
LEMMA LayoutCarries ==
  ASSUME NEW D, NEW R, NEW C, Layout(D, R, C), NEW E, IsDisk(E),
         Chained(E, R), Chains(E, R, C),
         \A c \in Clusters : E[clust2sect(c)] = D[clust2sect(c)]
  PROVE  Layout(E, R, C)
<1>1. R \in Seq(Clusters) /\ \A p \in Slots(R) : R[p[1]] \in Clusters
  BY DEF Chained, Slots
<1>2. \A p \in Slots(R) : At(E, R, p) = At(D, R, p)
  BY <1>1 DEF At
<1>3. Directory(E, R)
  <2>1. \A k \in 1 .. Len(R) : DirSector(E[clust2sect(R[k])])
    BY <1>1 DEF Layout, Directory
  <2> QED BY <1>2, <2>1 DEF Layout, Directory, Taking
<1>4. Entering(E, R, C)
  BY <1>2 DEF Layout, Entering, Taking
<1> QED BY <1>3, <1>4 DEF Layout

(* FSINFO is no part of it.  *)
LEMMA LayoutInfo ==
  ASSUME NEW D, NEW R, NEW C, Layout(D, R, C), NEW i, NEW E, E = [D EXCEPT ![FsInfo] = i]
  PROVE  Layout(E, R, C) /\ \A c \in Clusters : E[clust2sect(c)] = D[clust2sect(c)]
<1>1. IsDisk(D)
  BY DEF Layout
<1>2. /\ DOMAIN E = DOMAIN D
      /\ \A c \in Clusters : E[FatSect(c)] = D[FatSect(c)] /\ E[clust2sect(c)] = D[clust2sect(c)]
  BY <1>1, SectorsDiffer DEF IsDisk
<1>3. IsDisk(E) /\ \A c \in Clusters : Fat(E, c) = Fat(D, c)
  BY <1>1, <1>2 DEF IsDisk, Fat
<1>4. Chained(E, R) /\ Chains(E, R, C)
  <2>1. R \in Seq(Clusters) /\ \A n \in Names : C[n] \in Seq(Clusters)
    BY DEF Layout, Directory, Chained, Chains
  <2> QED BY <1>3, <2>1, ChainApart, MembersAre DEF Layout, Directory, Chains
<1> QED BY <1>2, <1>3, <1>4, LayoutCarries

(* A free cluster is in no chain and may be marked.  *)
LEMMA FreeIsApart ==
  ASSUME NEW D, NEW R, NEW C, Layout(D, R, C), NEW c \in Clusters, Fat(D, c) = 0
  PROVE  c \notin Members(R) /\ \A n \in Names : c \notin Members(C[n])
<1>1. ASSUME NEW s, Chained(D, s)
      PROVE  c \notin Members(s)
  <2>1. SUFFICES ASSUME NEW i \in 1 .. Len(s), s[i] = c
                 PROVE  FALSE
    BY DEF Members
  <2>2. Len(s) \in Nat /\ (i # Len(s) => i + 1 \in 1 .. Len(s) /\ s[i + 1] \in Clusters)
    BY <1>1 DEF Chained
  <2> QED BY <1>1, <2>1, <2>2, ClustersAre DEF Chained
<1> QED BY <1>1 DEF Layout, Directory, Chains

(* Marked, it is a loose cluster: the chains are as they were.  *)
LEMMA LayoutMarks ==
  ASSUME NEW D, NEW R, NEW C, Layout(D, R, C), NEW c \in Clusters, Fat(D, c) = 0
  PROVE  Layout(SetFat(D, c, EOC), R, C)
<1> DEFINE E == SetFat(D, c, EOC)
<1>1. /\ IsDisk(E)
      /\ \A d \in Clusters : Fat(E, d) = IF d = c THEN EOC ELSE Fat(D, d)
      /\ \A d \in Clusters : E[clust2sect(d)] = D[clust2sect(d)]
  BY SetFatIs, ClustersAre DEF Layout
<1>2. c \notin Members(R) /\ \A n \in Names : c \notin Members(C[n])
  BY FreeIsApart
<1> HIDE DEF E
<1>3. Chained(E, R) /\ Chains(E, R, C)
  <2>1. R \in Seq(Clusters) /\ \A n \in Names : C[n] \in Seq(Clusters)
    BY DEF Layout, Directory, Chained, Chains
  <2> QED BY <1>1, <1>2, <2>1, ChainApart, MembersAre DEF Layout, Directory, Chains
<1>4. Layout(E, R, C)
  BY <1>1, <1>3, LayoutCarries
<1> QED BY <1>4 DEF E

(* A marked cluster that is in no chain is linked to the end of one.  *)
Lengthened(C, n, c) == [C EXCEPT ![n] = Append(C[n], c)]
Apart(R, C, c) == c \notin Members(R) /\ \A n \in Names : c \notin Members(C[n])

(* The last cluster of a chain.  *)
LEMMA LastOfChain ==
  ASSUME NEW s \in Seq(Clusters), s # <<>>
  PROVE  Len(s) \in 1 .. Len(s) /\ s[Len(s)] \in Clusters /\ s[Len(s)] \in Members(s)
<1>1. Len(s) \in 1 .. Len(s)
  OBVIOUS
<1> QED BY <1>1 DEF Members

(* A marked cluster of no chain is linked to a file.  *)
LEMMA LayoutLinksFile ==
  ASSUME NEW D, NEW R, NEW C, Layout(D, R, C), NEW n \in Names, C[n] # <<>>,
         NEW c \in Clusters, Apart(R, C, c), Fat(D, c) = EOC
  PROVE  Layout(SetFat(D, C[n][Len(C[n])], c), R, Lengthened(C, n, c))
<1> DEFINE s == C[n]
           e == s[Len(s)]
           E == SetFat(D, e, c)
           B == Lengthened(C, n, c)
<1>c. /\ R \in Seq(Clusters) /\ C \in [Names -> Seq(Clusters)] /\ s \in Seq(Clusters)
      /\ \A o \in Names : C[o] \in Seq(Clusters)
  BY DEF Layout, Directory, Chained, Chains
<1>e. e \in Clusters /\ e \in Members(s) /\ c \in Nat
  BY <1>c, LastOfChain, ClustersAre
<1>1. /\ IsDisk(E)
      /\ \A d \in Clusters : Fat(E, d) = IF d = e THEN c ELSE Fat(D, d)
      /\ \A d \in Clusters : E[clust2sect(d)] = D[clust2sect(d)]
  BY <1>e, SetFatIs DEF Layout
<1>2. Chained(E, Append(s, c))
  BY ChainGrows DEF Layout, Chains, Apart
<1>s. Append(s, c) \in Seq(Clusters) /\ Members(Append(s, c)) = Members(s) \cup {c}
  BY <1>c, MembersAre
<1>b. B \in [Names -> Seq(Clusters)] /\ B[n] = Append(s, c) /\ \A o \in Names : o # n => B[o] = C[o]
  BY <1>c, <1>s DEF Lengthened
<1> HIDE DEF B, E, e
<1>3. Chained(E, R)
  <2>1. e \notin Members(R)
    BY <1>e DEF Layout, Chains
  <2> QED BY <1>1, <1>c, <2>1, ChainApart, MembersAre DEF Layout, Directory
<1>4. ASSUME NEW o \in Names, o # n
      PROVE  Chained(E, C[o])
  <2>1. e \notin Members(C[o])
    BY <1>4, <1>e DEF Layout, Chains
  <2> QED BY <1>1, <1>c, <2>1, ChainApart, MembersAre DEF Layout, Chains
<1>m. \A o \in Names : Members(B[o]) = Members(C[o]) \/ (o = n /\ Members(B[o]) = Members(C[n]) \cup {c})
  BY <1>b, <1>s
<1>d. \A o \in Names : Members(B[o]) \cap Members(R) = {}
  BY <1>m DEF Layout, Chains, Apart
<1>5. \A o, q \in Names : o # q => Members(B[o]) \cap Members(B[q]) = {}
  BY <1>m DEF Layout, Chains, Apart
<1>6. Chains(E, R, B)
  BY <1>2, <1>4, <1>5, <1>b, <1>d DEF Chains
<1>7. \A p \in Slots(R) : At(E, R, p) = At(D, R, p)
  BY <1>1, <1>c DEF At, Slots
<1>8. Entering(E, R, B)
  <2>1. ASSUME NEW o \in Names, NEW p \in Slots(R), Taking(E, R, p, o)
        PROVE  Holds(At(E, R, p)[2], At(E, R, p)[3], B[o])
    <3>1. Holds(At(E, R, p)[2], At(E, R, p)[3], C[o])
      BY <1>7, <2>1 DEF Layout, Entering, Taking
    <3>2. CASE o = n
      <4>1. At(E, R, p)[3] \in Nat
        BY <1>7, <2>1, SlotsAre DEF Taking, IsEntry, Entry
      <4> QED BY <1>b, <1>c, <3>1, <3>2, <4>1, HoldsLonger
    <3>3. CASE o # n
      BY <1>b, <3>1, <3>3
    <3> QED BY <3>2, <3>3
  <2> QED BY <2>1 DEF Entering
<1>9. Directory(E, R)
  <2>1. \A k \in 1 .. Len(R) : R[k] \in Clusters
    BY <1>c
  <2>2. \A k \in 1 .. Len(R) : DirSector(E[clust2sect(R[k])])
    BY <1>1, <2>1 DEF Layout, Directory
  <2> QED BY <1>3, <1>7, <2>2 DEF Layout, Directory, Taking
<1>10. Layout(E, R, B)
  BY <1>1, <1>6, <1>8, <1>9 DEF Layout
<1> QED BY <1>10 DEF E, B, e
------------------------------------------------------------------------------
(* The order of the slots.  *)
LEMMA RankIs ==
  ASSUME NEW R \in Seq(Clusters), NEW p \in Slots(R), NEW q \in Slots(R)
  PROVE  /\ Rank(p) \in Nat \ {0}
         /\ p[1] < q[1] => Rank(p) < Rank(q)
         /\ p[1] = q[1] => (Rank(p) < Rank(q) <=> p[2] < q[2])
         /\ Rank(p) = Rank(q) => p = q
<1>1. ASSUME NEW a \in Nat \ {0}, NEW b \in Nat \ {0}, NEW i \in 1 .. DirPer, NEW j \in 1 .. DirPer, a < b
      PROVE  (a - 1) * DirPer + i < (b - 1) * DirPer + j
  <2>1. PICK k \in Nat : b - 1 = a + k
    <3>1. b - 1 - a \in Nat /\ b - 1 = a + (b - 1 - a)
      BY <1>1
    <3> QED BY <3>1
  <2>2. (a + k) * DirPer = (a - 1) * DirPer + DirPer + k * DirPer
    BY SizesAssumption
  <2>3. k * DirPer \in Nat /\ (a - 1) * DirPer \in Nat
    BY SizesAssumption
  <2> QED BY <2>1, <2>2, <2>3, SizesAssumption
<1>2. /\ p[1] \in Nat \ {0} /\ q[1] \in Nat \ {0} /\ p[2] \in 1 .. DirPer /\ q[2] \in 1 .. DirPer
      /\ p = <<p[1], p[2]>> /\ q = <<q[1], q[2]>>
  BY DEF Slots
<1>3. p[1] < q[1] => Rank(p) < Rank(q)
  BY <1>1, <1>2 DEF Rank
<1>4. q[1] < p[1] => Rank(q) < Rank(p)
  BY <1>1, <1>2 DEF Rank
<1>a. ASSUME NEW a \in Nat \ {0}, NEW i \in 1 .. DirPer
      PROVE  (a - 1) * DirPer \in Nat /\ (a - 1) * DirPer + i \in Nat \ {0}
  <2>1. PICK k \in Nat : k = a - 1
    OBVIOUS
  <2>2. k * DirPer \in Nat
    BY SizesAssumption
  <2> QED BY <2>1, <2>2, SizesAssumption
<1>5. (p[1] - 1) * DirPer \in Nat /\ (q[1] - 1) * DirPer \in Nat
  BY <1>2, <1>a
<1>6. Rank(p) \in Nat \ {0} /\ Rank(q) \in Nat \ {0}
  BY <1>2, <1>a DEF Rank
<1>7. ASSUME p[1] = q[1]
      PROVE  (Rank(p) < Rank(q) <=> p[2] < q[2]) /\ (Rank(p) = Rank(q) => p[2] = q[2])
  <2>1. PICK t \in Nat : t = (p[1] - 1) * DirPer
    BY <1>5
  <2>2. Rank(p) = t + p[2] /\ Rank(q) = t + q[2]
    BY <1>7, <2>1 DEF Rank
  <2>3. p[2] \in Nat /\ q[2] \in Nat
    BY <1>2, SizesAssumption
  <2> QED BY <2>2, <2>3
<1> QED BY <1>2, <1>3, <1>4, <1>6, <1>7

(* A directory with a cluster more has the slots it had.  *)
LEMMA SlotsGrow ==
  ASSUME NEW R \in Seq(Clusters), NEW c \in Clusters
  PROVE  /\ Slots(R) \subseteq Slots(Append(R, c))
         /\ \A p \in Slots(R) : Append(R, c)[p[1]] = R[p[1]]
         /\ \A p \in Slots(Append(R, c)) : p \in Slots(R) \/ (p[1] = Len(R) + 1 /\ Append(R, c)[p[1]] = c)
BY DEF Slots

(* A marked cluster of no chain is linked to the directory: it may hold data *)
(* of a file that is gone, never an entry.                                   *)
LEMMA LayoutLinksRoot ==
  ASSUME NEW D, NEW R, NEW C, Layout(D, R, C),
         NEW c \in Clusters, Apart(R, C, c), Fat(D, c) = EOC
  PROVE  Layout(SetFat(D, R[Len(R)], c), Append(R, c), C)
<1> DEFINE e == R[Len(R)]
           E == SetFat(D, e, c)
           Q == Append(R, c)
<1>c. /\ R \in Seq(Clusters) /\ R # <<>> /\ C \in [Names -> Seq(Clusters)]
      /\ \A o \in Names : C[o] \in Seq(Clusters)
  BY DEF Layout, Directory, Chained, Chains
<1>e. e \in Clusters /\ e \in Members(R) /\ c \in Nat
  BY <1>c, LastOfChain, ClustersAre
<1>1. /\ IsDisk(E)
      /\ \A d \in Clusters : Fat(E, d) = IF d = e THEN c ELSE Fat(D, d)
      /\ \A d \in Clusters : E[clust2sect(d)] = D[clust2sect(d)]
  <2> HIDE DEF e, Q
  <2> QED BY <1>e, SetFatIs DEF Layout
<1>2. Chained(E, Q)
  BY ChainGrows DEF Layout, Directory, Apart
<1>s. Q \in Seq(Clusters) /\ Members(Q) = Members(R) \cup {c} /\ Q # <<>> /\ Q[1] = R[1]
  BY <1>c, MembersAre
<1>t. /\ Slots(R) \subseteq Slots(Q)
      /\ \A p \in Slots(R) : Q[p[1]] = R[p[1]]
      /\ \A p \in Slots(Q) : p \in Slots(R) \/ (p[1] = Len(R) + 1 /\ Q[p[1]] = c)
  BY <1>c, SlotsGrow
<1> HIDE DEF E, e, Q
<1>3. ASSUME NEW o \in Names
      PROVE  Chained(E, C[o])
  <2>1. e \notin Members(C[o])
    BY <1>e DEF Layout, Chains
  <2> QED BY <1>1, <1>c, <2>1, ChainApart, MembersAre DEF Layout, Chains
<1>4. Chains(E, Q, C)
  BY <1>3, <1>c, <1>s DEF Chains, Layout, Apart
<1>5. \A p \in Slots(R) : At(E, Q, p) = At(D, R, p) /\ At(E, R, p) = At(D, R, p)
  BY <1>1, <1>t, SlotsAre DEF At
<1>6. Plain(D[clust2sect(c)]) /\ D[clust2sect(c)] = E[clust2sect(c)] /\ 1 .. DirPer \subseteq DOMAIN D[clust2sect(c)]
  BY <1>1, SizesAssumption DEF Layout, Apart, IsDisk
<1>7. \A p \in Slots(Q) : p \in Slots(R) \/ IsUnit(At(E, Q, p))
  BY <1>6, <1>t DEF At, Plain, Slots
<1>8. Directory(E, Q)
  <2>1. \A k \in 1 .. Len(Q) : DirSector(E[clust2sect(Q[k])])
    <3>1. DirSector(E[clust2sect(c)])
      BY <1>6 DEF DirSector, Plain
    <3>2. \A k \in 1 .. Len(R) : R[k] \in Clusters /\ DirSector(E[clust2sect(R[k])])
      BY <1>1, <1>c DEF Layout, Directory
    <3>3. \A k \in 1 .. Len(Q) : (k \in 1 .. Len(R) /\ Q[k] = R[k]) \/ Q[k] = c
      BY <1>c DEF Q
    <3> QED BY <3>1, <3>2, <3>3
  <2>2. ASSUME NEW p \in Slots(Q), NEW q \in Slots(Q), Rank(p) < Rank(q), At(E, Q, p) = Zero
        PROVE  IsUnit(At(E, Q, q))
    <3>1. CASE q \notin Slots(R)
      BY <1>7, <3>1
    <3>2. CASE p \in Slots(R) /\ q \in Slots(R)
      BY <1>5, <2>2, <3>2 DEF Layout, Directory
    <3>3. CASE p \notin Slots(R) /\ q \in Slots(R)
      <4>1. q[1] < p[1]
        BY <1>c, <1>t, <3>3 DEF Slots
      <4>2. Rank(q) < Rank(p) /\ Rank(p) \in Nat /\ Rank(q) \in Nat
        BY <1>s, <4>1, RankIs
      <4> QED BY <2>2, <4>2
    <3> QED BY <3>1, <3>2, <3>3
  <2>3. \A n \in Names : \A p, q \in Slots(Q) : Taking(E, Q, p, n) /\ Taking(E, Q, q, n) => p = q
    BY <1>5, <1>7 DEF Taking, Layout, Directory
  <2> QED BY <1>2, <1>s, <2>1, <2>2, <2>3 DEF Directory, Layout
<1>9. Entering(E, Q, C)
  BY <1>5, <1>7 DEF Entering, Taking, Layout
<1>10. Layout(E, Q, C)
  BY <1>1, <1>4, <1>8, <1>9, <1>s DEF Layout
<1> QED BY <1>10 DEF E, Q, e

(* A marked cluster begins the chain of a file that has none.  *)
LEMMA LayoutStarts ==
  ASSUME NEW D, NEW R, NEW C, Layout(D, R, C), NEW n \in Names,
         NEW c \in Clusters, Apart(R, C, c), Fat(D, c) = EOC,
         \A p \in Slots(R) : Taking(D, R, p, n) => At(D, R, p)[2] = 0
  PROVE  Layout(D, R, [C EXCEPT ![n] = <<c>>])
<1> DEFINE s == <<c>>
           B == [C EXCEPT ![n] = s]
<1>1. s \in Seq(Clusters) /\ Len(s) = 1 /\ s[1] = c
  OBVIOUS
<1>2. Members(s) = {c}
  BY <1>1 DEF Members
<1>3. Chained(D, s)
  BY <1>1 DEF Chained
<1> HIDE DEF s
<1>4. B \in [Names -> Seq(Clusters)] /\ B[n] = s /\ \A o \in Names : o # n => B[o] = C[o]
  BY <1>1 DEF Layout, Chains
<1> HIDE DEF B
<1>5. Chains(D, R, B)
  <2>1. \A o \in Names : (Members(B[o]) = {c} /\ o = n) \/ (Members(B[o]) = Members(C[o]) /\ o # n)
    BY <1>2, <1>4
  <2>2. \A o \in Names : Chained(D, B[o])
    BY <1>3, <1>4 DEF Layout, Chains
  <2>3. \A o \in Names : Members(B[o]) \cap Members(R) = {}
    BY <2>1 DEF Layout, Chains, Apart
  <2>4. \A o, q \in Names : o # q => Members(B[o]) \cap Members(B[q]) = {}
    BY <2>1 DEF Layout, Chains, Apart
  <2> QED BY <1>4, <2>2, <2>3, <2>4 DEF Chains
<1>6. Entering(D, R, B)
  BY <1>4 DEF Layout, Entering, Holds
<1>7. Layout(D, R, B)
  BY <1>5, <1>6 DEF Layout
<1> QED BY <1>7 DEF B, s
------------------------------------------------------------------------------
(* Data is written to a cluster that is not the directory's.  *)
LEMMA LayoutWrites ==
  ASSUME NEW D, NEW R, NEW C, Layout(D, R, C), NEW c \in Clusters, c \notin Members(R),
         NEW b, Plain(b), DOMAIN b = 1 .. SS
  PROVE  /\ Layout(SetData(D, c, b), R, C)
         /\ \A p \in Slots(R) : At(SetData(D, c, b), R, p) = At(D, R, p)
<1> DEFINE E == SetData(D, c, b)
<1>1. /\ IsDisk(E)
      /\ \A d \in Clusters : Fat(E, d) = Fat(D, d)
      /\ \A d \in Clusters : E[clust2sect(d)] = IF d = c THEN b ELSE D[clust2sect(d)]
  BY SetDataIs DEF Layout
<1> HIDE DEF E
<1>2. R \in Seq(Clusters) /\ \A n \in Names : C[n] \in Seq(Clusters)
  BY DEF Layout, Directory, Chained, Chains
<1>3. Chained(E, R) /\ Chains(E, R, C)
  BY <1>1, <1>2, ChainApart, MembersAre DEF Layout, Directory, Chains
<1>4. \A k \in 1 .. Len(R) : E[clust2sect(R[k])] = D[clust2sect(R[k])]
  BY <1>1, <1>2, MembersAre
<1>5. \A p \in Slots(R) : At(E, R, p) = At(D, R, p)
  BY <1>4 DEF At, Slots
<1>6. Directory(E, R)
  BY <1>3, <1>4, <1>5 DEF Layout, Directory, Taking
<1>7. Entering(E, R, C)
  BY <1>5 DEF Layout, Entering, Taking
<1>8. \A d \in Clusters \ Members(R) : Plain(E[clust2sect(d)])
  BY <1>1 DEF Layout
<1> QED BY <1>1, <1>3, <1>5, <1>6, <1>7, <1>8 DEF Layout, E
------------------------------------------------------------------------------
(* A sector of the directory is changed: what stays is taken from the      *)
(* slots.                                                                  *)
LEMMA SetSlotsAre ==
  ASSUME NEW D, NEW R, NEW C, Layout(D, R, C), NEW k \in 1 .. Len(R),
         NEW b, DirSector(b), DOMAIN b \in {1 .. DirPer, 1 .. SS}, NEW E, E = SetData(D, R[k], b)
  PROVE  /\ IsDisk(E) /\ Chained(E, R) /\ Chains(E, R, C)
         /\ \A j \in 1 .. Len(R) : DirSector(E[clust2sect(R[j])])
         /\ \A p \in Slots(R) : At(E, R, p) = IF p[1] = k THEN b[p[2]] ELSE At(D, R, p)
         /\ \A c \in Clusters \ Members(R) : Plain(E[clust2sect(c)])
<1>1. R \in Seq(Clusters) /\ \A n \in Names : C[n] \in Seq(Clusters)
  BY DEF Layout, Directory, Chained, Chains
<1>2. PICK r \in Clusters : r = R[k] /\ r \in Members(R)
  BY <1>1, MembersAre
<1>3. /\ IsDisk(E)
      /\ \A d \in Clusters : Fat(E, d) = Fat(D, d)
      /\ \A d \in Clusters : E[clust2sect(d)] = IF d = r THEN b ELSE D[clust2sect(d)]
  <2>1. E = SetData(D, r, b)
    BY <1>2
  <2> QED BY <2>1, SetDataIs DEF Layout
<1>4. Chained(E, R) /\ Chains(E, R, C)
  BY <1>1, <1>3, ChainApart, MembersAre DEF Layout, Directory, Chains
<1>5. \A j \in 1 .. Len(R) : R[j] \in Clusters /\ (R[j] = r => j = k)
  BY <1>1, <1>2 DEF Layout, Directory, Chained
<1>6. \A j \in 1 .. Len(R) : DirSector(E[clust2sect(R[j])])
  BY <1>3, <1>5 DEF Layout, Directory
<1>7. \A p \in Slots(R) : At(E, R, p) = IF p[1] = k THEN b[p[2]] ELSE At(D, R, p)
  BY <1>2, <1>3, <1>5 DEF At, Slots
<1>8. \A c \in Clusters \ Members(R) : Plain(E[clust2sect(c)])
  BY <1>2, <1>3 DEF Layout
<1> QED BY <1>3, <1>4, <1>6, <1>7, <1>8

(* The cluster linked last is cleared.  *)
LEMMA LayoutClears ==
  ASSUME NEW D, NEW R, NEW C, Layout(D, R, C), NEW c, c = R[Len(R)],
         \A p \in Slots(R) : p[1] = Len(R) => IsUnit(At(D, R, p))
  PROVE  Layout(SetData(D, c, NoDir), R, C)
<1> DEFINE E == SetData(D, c, NoDir)
<1>1. R \in Seq(Clusters) /\ Len(R) \in 1 .. Len(R)
  BY DEF Layout, Directory, Chained
<1>2. DirSector(NoDir) /\ DOMAIN NoDir \in {1 .. DirPer, 1 .. SS} /\ \A i \in 1 .. DirPer : NoDir[i] = Zero
  BY DEF NoDir, DirSector, IsUnit
<1>3. /\ IsDisk(E) /\ Chained(E, R) /\ Chains(E, R, C)
      /\ \A j \in 1 .. Len(R) : DirSector(E[clust2sect(R[j])])
      /\ \A p \in Slots(R) : At(E, R, p) = IF p[1] = Len(R) THEN NoDir[p[2]] ELSE At(D, R, p)
      /\ \A d \in Clusters \ Members(R) : Plain(E[clust2sect(d)])
  BY <1>1, <1>2, SetSlotsAre
<1> HIDE DEF E
<1>4. \A p \in Slots(R) : IF p[1] = Len(R) THEN At(E, R, p) = Zero ELSE At(E, R, p) = At(D, R, p)
  BY <1>2, <1>3 DEF Slots
<1>5. \A n \in Names : \A p \in Slots(R) : Taking(E, R, p, n) => Taking(D, R, p, n) /\ At(E, R, p) = At(D, R, p)
  BY <1>4 DEF Taking, IsUnit
<1>6. ASSUME NEW p \in Slots(R), NEW q \in Slots(R), Rank(p) < Rank(q), At(E, R, p) = Zero
      PROVE  IsUnit(At(E, R, q))
  <2>1. CASE q[1] = Len(R)
    BY <1>4, <2>1 DEF IsUnit
  <2>2. CASE q[1] # Len(R) /\ p[1] # Len(R)
    BY <1>4, <1>6, <2>2 DEF Layout, Directory
  <2>3. CASE q[1] # Len(R) /\ p[1] = Len(R)
    <3>1. q[1] < p[1]
      BY <2>3, SlotsAre
    <3>2. Rank(q) < Rank(p) /\ Rank(p) \in Nat /\ Rank(q) \in Nat
      BY <1>1, <3>1, RankIs
    <3> QED BY <1>6, <3>2
  <2> QED BY <2>1, <2>2, <2>3
<1>7. Directory(E, R)
  BY <1>3, <1>5, <1>6 DEF Directory, Layout
<1>8. Entering(E, R, C)
  BY <1>5 DEF Entering, Layout
<1> QED BY <1>3, <1>7, <1>8 DEF Layout, E

(* The entry of a file is set, in its own slot or in the first free one.   *)
LEMMA LayoutEnters ==
  ASSUME NEW D, NEW R, NEW C, Layout(D, R, C), NEW t \in Slots(R), NEW n \in Names,
         NEW a \in Nat, NEW z \in Nat, Holds(a, z, C[n]),
         \A q \in Slots(R) : Rank(q) < Rank(t) => At(D, R, q) # Zero,
         \A q \in Slots(R) : Taking(D, R, q, n) => q = t,
         At(D, R, t) = Zero \/ Taking(D, R, t, n),
         NEW b, DOMAIN b = DOMAIN D[clust2sect(R[t[1]])],
         \A i \in DOMAIN b : b[i] = IF i = t[2] THEN Entry(n, a, z) ELSE D[clust2sect(R[t[1]])][i]
  PROVE  /\ Layout(SetData(D, R[t[1]], b), R, C)
         /\ \A q \in Slots(R) : At(SetData(D, R[t[1]], b), R, q) = IF q = t THEN Entry(n, a, z) ELSE At(D, R, q)
<1> DEFINE E == SetData(D, R[t[1]], b)
           e == Entry(n, a, z)
<1>1. /\ t[1] \in 1 .. Len(R) /\ t[2] \in 1 .. DirPer /\ t[2] \in DOMAIN D[clust2sect(R[t[1]])] /\ R[t[1]] \in Clusters
      /\ R \in Seq(Clusters)
  BY SlotsAre DEF Layout, Directory, Chained
<1>2. IsEntry(e) /\ ~IsUnit(e) /\ e[1] = n /\ e[2] = a /\ e[3] = z
  BY DEF IsEntry, IsUnit, Entry, Zero
<1> HIDE DEF e
<1>3. /\ DOMAIN b = DOMAIN D[clust2sect(R[t[1]])] /\ DOMAIN b \in {1 .. DirPer, 1 .. SS}
      /\ \A i \in DOMAIN b : b[i] = IF i = t[2] THEN e ELSE D[clust2sect(R[t[1]])][i]
  BY <1>1 DEF Layout, IsDisk, e
<1>4. DirSector(b)
  <2>1. DirSector(D[clust2sect(R[t[1]])])
    BY <1>1 DEF Layout, Directory
  <2> QED BY <1>1, <1>2, <1>3, <2>1 DEF DirSector
<1>5. /\ IsDisk(E) /\ Chained(E, R) /\ Chains(E, R, C)
      /\ \A j \in 1 .. Len(R) : DirSector(E[clust2sect(R[j])])
      /\ \A p \in Slots(R) : At(E, R, p) = IF p[1] = t[1] THEN b[p[2]] ELSE At(D, R, p)
      /\ \A d \in Clusters \ Members(R) : Plain(E[clust2sect(d)])
  <2>1. PICK k \in 1 .. Len(R) : k = t[1]
    BY <1>1
  <2>2. E = SetData(D, R[k], b)
    BY <2>1
  <2> HIDE DEF E
  <2>3. DirSector(b) /\ DOMAIN b \in {1 .. DirPer, 1 .. SS}
    BY <1>3, <1>4
  <2> QED BY <2>1, <2>2, <2>3, SetSlotsAre
<1> HIDE DEF E
<1>6. \A p \in Slots(R) : At(E, R, p) = IF p = t THEN e ELSE At(D, R, p)
  <2>1. SUFFICES ASSUME NEW p \in Slots(R), p[1] = t[1]
                 PROVE  b[p[2]] = IF p = t THEN e ELSE At(D, R, p)
    BY <1>5
  <2>2. p = <<p[1], p[2]>> /\ t = <<t[1], t[2]>>
    BY DEF Slots
  <2>3. p[2] \in DOMAIN b
    BY <1>3, <2>1, SlotsAre
  <2> QED BY <1>3, <2>1, <2>2, <2>3 DEF At
<1>7. \A o \in Names : \A p \in Slots(R) :
        Taking(E, R, p, o) <=> IF p = t THEN o = n ELSE Taking(D, R, p, o)
  BY <1>2, <1>6 DEF Taking
<1>8. \A o \in Names : \A p, q \in Slots(R) : Taking(E, R, p, o) /\ Taking(E, R, q, o) => p = q
  BY <1>7 DEF Layout, Directory
<1>9. ASSUME NEW p \in Slots(R), NEW q \in Slots(R), Rank(p) < Rank(q), At(E, R, p) = Zero
      PROVE  IsUnit(At(E, R, q))
  <2>1. p # t /\ At(D, R, p) = Zero
    BY <1>2, <1>6, <1>9 DEF IsUnit
  <2>2. q # t
    BY <1>9, <2>1
  <2> QED BY <1>6, <1>9, <2>1, <2>2 DEF Layout, Directory
<1>10. Directory(E, R)
  BY <1>5, <1>8, <1>9 DEF Directory, Layout
<1>11. Entering(E, R, C)
  BY <1>2, <1>6, <1>7 DEF Entering, Layout
<1> QED BY <1>5, <1>6, <1>10, <1>11 DEF Layout, E, e
------------------------------------------------------------------------------
(* What an open file is: its entry, and a chain that holds all it has      *)
(* written.                                                                *)
Extends(t, s) == Len(s) <= Len(t) /\ \A i \in 1 .. Len(s) : t[i] = s[i]

Place(D, R, q, p, n) ==
  /\ p.dir = <<R[q[1]], q[2]>>
  /\ Taking(D, R, q, n)
  /\ p.sclust = 0 => At(D, R, q)[2] = 0

(* Within a sector, which is in the buffer unless it could not be read.  *)
Inside(p) == p.err = "OK" /\ p.fptr % SS # 0

FileOk(D, R, ch, p, n) ==
  /\ p.sclust \in Nat /\ p.fsize \in Nat /\ p.fptr \in Nat
  /\ DOMAIN p.buf = 1 .. SS /\ Plain(p.buf)
  /\ \E q \in Slots(R) : Place(D, R, q, p, n)
  /\ Holds(p.sclust, p.fsize, ch)
  /\ p.sclust = 0 => p.fptr = 0 /\ ~p.dirty
  /\ p.fptr # 0 => \E k \in 1 .. Len(ch) : p.clust = ch[k] /\ p.fptr <= SS * k
  /\ p.dirty \/ Inside(p) => p.dsect \in Members(ch)

FilesOk(D, R, C, fil) == \A f \in Files : fil[f].fs => FileOk(D, R, C[NameOf(f)], fil[f], NameOf(f))

(* An open file is that of a volume on which its entry stays and its chain   *)
(* is no shorter.                                                            *)
LEMMA FileCarries ==
  ASSUME NEW D, NEW R, NEW ch, NEW p, NEW n, FileOk(D, R, ch, p, n),
         NEW E, NEW Q, NEW t, ch \in Seq(Clusters), t \in Seq(Clusters),
         \A q \in Slots(R) : q \in Slots(Q) /\ R[q[1]] = Q[q[1]] /\ At(E, Q, q) = At(D, R, q),
         p.sclust # 0 => Extends(t, ch)
  PROVE  FileOk(E, Q, t, p, n)
<1>1. \E q \in Slots(Q) : Place(E, Q, q, p, n)
  BY DEF FileOk, Place, Taking
<1>2. CASE p.sclust = 0
  BY <1>1, <1>2, SizesAssumption DEF FileOk, Holds, Inside
<1>3. CASE p.sclust # 0
  <2>1. /\ Len(ch) \in Nat /\ Len(t) \in Nat /\ Len(ch) <= Len(t) /\ \A i \in 1 .. Len(ch) : t[i] = ch[i]
        /\ 1 .. Len(ch) \subseteq 1 .. Len(t)
    BY <1>3 DEF Extends
  <2>2. Members(ch) \subseteq Members(t)
    BY <2>1 DEF Members
  <2>3. Holds(p.sclust, p.fsize, t)
    <3>1. ch # <<>> /\ ch[1] = p.sclust /\ p.fsize <= SS * Len(ch)
      BY <1>3 DEF FileOk, Holds
    <3>2. 1 \in 1 .. Len(ch) /\ t # <<>>
      BY <2>1, <3>1
    <3>3. SS * Len(ch) <= SS * Len(t) /\ SS * Len(ch) \in Nat /\ SS * Len(t) \in Nat
      <4>1. PICK k \in Nat : Len(t) = Len(ch) + k
        <5>1. Len(t) - Len(ch) \in Nat /\ Len(t) = Len(ch) + (Len(t) - Len(ch))
          BY <2>1
        <5> QED BY <5>1
      <4>2. SS * Len(t) = SS * Len(ch) + SS * k /\ SS * k \in Nat /\ SS * Len(ch) \in Nat
        BY <2>1, <4>1, SizesAssumption
      <4> QED BY <4>2
    <3> QED BY <1>3, <2>1, <3>1, <3>2, <3>3 DEF FileOk, Holds
  <2>4. p.fptr # 0 => \E k \in 1 .. Len(t) : p.clust = t[k] /\ p.fptr <= SS * k
    BY <2>1 DEF FileOk
  <2> QED BY <1>1, <1>3, <2>2, <2>3, <2>4 DEF FileOk
<1> QED BY <1>2, <1>3
------------------------------------------------------------------------------
(* The loops: a loop of N passes is a function of the number of passes.    *)
Pass(loop, a, p) ==
  CASE loop = "search" -> SearchPass(p, a)
    [] loop = "find" -> FindPass(p, a)
    [] loop = "alloc" -> AllocPass(p)
    [] loop = "seek" -> SeekPass(p, a)
    [] loop = "write" -> WritePass(p, a)

Run(g, loop, a, x, N) == \A k \in 0 .. N : g[k] = IF k = 0 THEN x ELSE Pass(loop, a, g[k - 1])
Runs(loop, a, x, N) == \E g : Run(g, loop, a, x, N)

(* There is a function of the passes, however many.  *)
LEMMA LoopsRun ==
  ASSUME NEW loop, NEW a, NEW x, NEW N \in Nat
  PROVE  Runs(loop, a, x, N)
<1> DEFINE S == {n \in Nat : Runs(loop, a, x, n)}
<1>1. 0 \in S
  <2> DEFINE g == [k \in 0 .. 0 |-> x]
  <2>1. Run(g, loop, a, x, 0)
    BY DEF Run
  <2> QED BY <2>1 DEF Runs
<1>2. ASSUME NEW n \in Nat, n \in S
      PROVE  n + 1 \in S
  <2>1. PICK g : Run(g, loop, a, x, n)
    BY <1>2 DEF Runs
  <2> DEFINE h == [k \in 0 .. n + 1 |-> IF k = n + 1 THEN Pass(loop, a, g[n]) ELSE g[k]]
  <2>2. ASSUME NEW k \in 0 .. n + 1
        PROVE  h[k] = IF k = 0 THEN x ELSE Pass(loop, a, h[k - 1])
    <3>1. CASE k = n + 1
      BY <3>1
    <3>2. CASE k = 0
      BY <3>2, <2>1 DEF Run
    <3>3. CASE k \in 1 .. n
      <4>1. h[k] = g[k] /\ h[k - 1] = g[k - 1] /\ k # 0
        BY <3>3
      <4>2. g[k] = Pass(loop, a, g[k - 1])
        BY <2>1, <3>3 DEF Run
      <4> QED BY <4>1, <4>2
    <3> QED BY <3>1, <3>2, <3>3
  <2> HIDE DEF h
  <2>3. Run(h, loop, a, x, n + 1)
    BY <2>2 DEF Run
  <2> QED BY <2>3 DEF Runs
<1>3. N \in S
  <2> HIDE DEF S
  <2> QED BY <1>1, <1>2, Induction
<1> QED BY <1>3

(* The loop of FreeAfter, pass by pass.  *)
LEMMA SearchRuns ==
  ASSUME NEW m, NEW scl
  PROVE  \E g : /\ FreeAfter(m, scl) = g[n_fatent].m
               /\ g[0] = [m |-> [m EXCEPT !.val = 0], ncl |-> scl, ended |-> FALSE]
               /\ \A k \in 1 .. n_fatent : g[k] = SearchPass(g[k - 1], scl)
<1> DEFINE N == n_fatent
           x == [m |-> [m EXCEPT !.val = 0], ncl |-> scl, ended |-> FALSE]
           Def(g) == g = [k \in 0 .. N |-> IF k = 0 THEN x ELSE SearchPass(g[k - 1], scl)]
           pass == CHOOSE g : Def(g)
<1>n. N \in Nat
  BY SizesAssumption
<1>1. \E g : Def(g)
  <2>1. PICK g : Run(g, "search", scl, x, N)
    <3>1. Runs("search", scl, x, N)
      BY <1>n, LoopsRun
    <3> QED BY <3>1 DEF Runs
  <2> DEFINE h == [k \in 0 .. N |-> g[k]]
  <2> HIDE DEF x, N
  <2>2. \A k \in 0 .. N : h[k] = IF k = 0 THEN x ELSE SearchPass(h[k - 1], scl)
    BY <1>n, <2>1 DEF Run, Pass
  <2>3. Def(h)
    BY <2>2
  <2> QED BY <2>3
<1>2. Def(pass)
  BY <1>1
<1>3. FreeAfter(m, scl) = pass[n_fatent].m
  BY DEF FreeAfter
<1>4. \A k \in 0 .. N : pass[k] = IF k = 0 THEN x ELSE SearchPass(pass[k - 1], scl)
  <2> HIDE DEF pass, x, N
  <2> QED BY <1>2
<1> HIDE DEF pass
<1>5. /\ pass[0] = x
      /\ \A k \in 1 .. N : pass[k] = SearchPass(pass[k - 1], scl)
  <2> HIDE DEF x, N
  <2> QED BY <1>n, <1>4
<1> QED BY <1>3, <1>5

(* The loop of dir_find, pass by pass.  *)
LEMMA FindRuns ==
  ASSUME NEW m, NEW name
  PROVE  \E g : /\ dir_find(m, name) = IF g[MaxIndex].ended THEN g[MaxIndex].m ELSE Fail(g[MaxIndex].m, "NO_FILE")
               /\ g[0] = [m |-> dir_sdi(m), ended |-> FALSE]
               /\ \A k \in 1 .. MaxIndex : g[k] = FindPass(g[k - 1], name)
<1> DEFINE N == MaxIndex
           x == [m |-> dir_sdi(m), ended |-> FALSE]
           Def(g) == g = [k \in 0 .. N |-> IF k = 0 THEN x ELSE FindPass(g[k - 1], name)]
           pass == CHOOSE g : Def(g)
<1>n. N \in Nat
  BY SizesAssumption
<1>1. \E g : Def(g)
  <2>1. PICK g : Run(g, "find", name, x, N)
    <3>1. Runs("find", name, x, N)
      BY <1>n, LoopsRun
    <3> QED BY <3>1 DEF Runs
  <2> DEFINE h == [k \in 0 .. N |-> g[k]]
  <2> HIDE DEF x, N
  <2>2. \A k \in 0 .. N : h[k] = IF k = 0 THEN x ELSE FindPass(h[k - 1], name)
    BY <1>n, <2>1 DEF Run, Pass
  <2>3. Def(h)
    BY <2>2
  <2> QED BY <2>3
<1>2. Def(pass)
  BY <1>1
<1>3. dir_find(m, name) = IF pass[MaxIndex].ended THEN pass[MaxIndex].m ELSE Fail(pass[MaxIndex].m, "NO_FILE")
  BY DEF dir_find, Outcome
<1>4. \A k \in 0 .. N : pass[k] = IF k = 0 THEN x ELSE FindPass(pass[k - 1], name)
  <2> HIDE DEF pass, x, N
  <2> QED BY <1>2
<1> HIDE DEF pass
<1>5. /\ pass[0] = x
      /\ \A k \in 1 .. N : pass[k] = FindPass(pass[k - 1], name)
  <2> HIDE DEF x, N
  <2> QED BY <1>n, <1>4
<1> QED BY <1>3, <1>5

(* The loop of dir_alloc, pass by pass.  *)
LEMMA AllocRuns ==
  ASSUME NEW m
  PROVE  \E g : /\ dir_alloc(m) = IF g[MaxIndex].ended THEN g[MaxIndex].m ELSE Fail(g[MaxIndex].m, "DENIED")
               /\ g[0] = [m |-> dir_sdi(m), ended |-> FALSE]
               /\ \A k \in 1 .. MaxIndex : g[k] = AllocPass(g[k - 1])
<1> DEFINE N == MaxIndex
           x == [m |-> dir_sdi(m), ended |-> FALSE]
           Def(g) == g = [k \in 0 .. N |-> IF k = 0 THEN x ELSE AllocPass(g[k - 1])]
           pass == CHOOSE g : Def(g)
<1>n. N \in Nat
  BY SizesAssumption
<1>1. \E g : Def(g)
  <2>1. PICK g : Run(g, "alloc", 0, x, N)
    <3>1. Runs("alloc", 0, x, N)
      BY <1>n, LoopsRun
    <3> QED BY <3>1 DEF Runs
  <2> DEFINE h == [k \in 0 .. N |-> g[k]]
  <2> HIDE DEF x, N
  <2>2. \A k \in 0 .. N : h[k] = IF k = 0 THEN x ELSE AllocPass(h[k - 1])
    BY <1>n, <2>1 DEF Run, Pass
  <2>3. Def(h)
    BY <2>2
  <2> QED BY <2>3
<1>2. Def(pass)
  BY <1>1
<1>3. dir_alloc(m) = IF pass[MaxIndex].ended THEN pass[MaxIndex].m ELSE Fail(pass[MaxIndex].m, "DENIED")
  BY DEF dir_alloc, Outcome
<1>4. \A k \in 0 .. N : pass[k] = IF k = 0 THEN x ELSE AllocPass(pass[k - 1])
  <2> HIDE DEF pass, x, N
  <2> QED BY <1>2
<1> HIDE DEF pass
<1>5. /\ pass[0] = x
      /\ \A k \in 1 .. N : pass[k] = AllocPass(pass[k - 1])
  <2> HIDE DEF x, N
  <2> QED BY <1>n, <1>4
<1> QED BY <1>3, <1>5

(* The loop of f_lseek, pass by pass.  *)
LEMMA SeekRuns ==
  ASSUME NEW m, NEW f, NEW c, NEW ofs \in Nat
  PROVE  \E g : /\ Seek(m, f, c, ofs) = g[ofs].m
               /\ g[0] = [m |-> m, clst |-> c, ofs |-> ofs]
               /\ \A k \in 1 .. ofs : g[k] = SeekPass(g[k - 1], f)
<1> DEFINE N == ofs
           x == [m |-> m, clst |-> c, ofs |-> ofs]
           Def(g) == g = [k \in 0 .. N |-> IF k = 0 THEN x ELSE SeekPass(g[k - 1], f)]
           pass == CHOOSE g : Def(g)
<1>n. N \in Nat
  OBVIOUS
<1>1. \E g : Def(g)
  <2>1. PICK g : Run(g, "seek", f, x, N)
    <3>1. Runs("seek", f, x, N)
      BY <1>n, LoopsRun
    <3> QED BY <3>1 DEF Runs
  <2> DEFINE h == [k \in 0 .. N |-> g[k]]
  <2> HIDE DEF x, N
  <2>2. \A k \in 0 .. N : h[k] = IF k = 0 THEN x ELSE SeekPass(h[k - 1], f)
    BY <1>n, <2>1 DEF Run, Pass
  <2>3. Def(h)
    BY <2>2
  <2> QED BY <2>3
<1>2. Def(pass)
  BY <1>1
<1>3. Seek(m, f, c, ofs) = pass[ofs].m
  BY DEF Seek
<1>4. \A k \in 0 .. N : pass[k] = IF k = 0 THEN x ELSE SeekPass(pass[k - 1], f)
  <2> HIDE DEF pass, x, N
  <2> QED BY <1>2
<1> HIDE DEF pass
<1>5. /\ pass[0] = x
      /\ \A k \in 1 .. N : pass[k] = SeekPass(pass[k - 1], f)
  <2> HIDE DEF x, N
  <2> QED BY <1>n, <1>4
<1> QED BY <1>3, <1>5

(* The loop of f_write, pass by pass.  *)
LEMMA WriteRuns ==
  ASSUME NEW T, NEW m, NEW f, NEW data \in Seq(T)
  PROVE  \E g : /\ WriteAll(m, f, data) = g[Len(data)].m
               /\ g[0] = [m |-> m, rest |-> data]
               /\ \A k \in 1 .. Len(data) : g[k] = WritePass(g[k - 1], f)
<1> DEFINE N == Len(data)
           x == [m |-> m, rest |-> data]
           Def(g) == g = [k \in 0 .. N |-> IF k = 0 THEN x ELSE WritePass(g[k - 1], f)]
           pass == CHOOSE g : Def(g)
<1>n. N \in Nat
  OBVIOUS
<1>1. \E g : Def(g)
  <2>1. PICK g : Run(g, "write", f, x, N)
    <3>1. Runs("write", f, x, N)
      BY <1>n, LoopsRun
    <3> QED BY <3>1 DEF Runs
  <2> DEFINE h == [k \in 0 .. N |-> g[k]]
  <2> HIDE DEF x, N
  <2>2. \A k \in 0 .. N : h[k] = IF k = 0 THEN x ELSE WritePass(h[k - 1], f)
    BY <1>n, <2>1 DEF Run, Pass
  <2>3. Def(h)
    BY <2>2
  <2> QED BY <2>3
<1>2. Def(pass)
  BY <1>1
<1>3. WriteAll(m, f, data) = pass[Len(data)].m
  BY DEF WriteAll
<1>4. \A k \in 0 .. N : pass[k] = IF k = 0 THEN x ELSE WritePass(pass[k - 1], f)
  <2> HIDE DEF pass, x, N
  <2> QED BY <1>2
<1> HIDE DEF pass
<1>5. /\ pass[0] = x
      /\ \A k \in 1 .. N : pass[k] = WritePass(pass[k - 1], f)
  <2> HIDE DEF x, N
  <2> QED BY <1>n, <1>4
<1> QED BY <1>3, <1>5
------------------------------------------------------------------------------
(* Fields of the machine that no part of the volume depends on.  *)
SetVal(m, v) == [m EXCEPT !.val = v]
SetDir(m, d) == [m EXCEPT !.dir = d]

(* The value returned is no part of the volume.  *)
LEMMA SetsVal ==
  ASSUME NEW m, NEW R, NEW C, Held(m, R, C), NEW v, NEW w, w = SetVal(m, v)
  PROVE  Held(w, R, C) /\ Keeps(m, w) /\ w.val = v /\ w.res = m.res /\ w.fs = m.fs
<1>1. /\ Shape(w) /\ w.disk = m.disk /\ w.cards = m.cards /\ w.fs = m.fs /\ w.dir = m.dir /\ w.fil = m.fil
      /\ w.val = v /\ w.res = m.res
  BY DEF Held, Raw, Shape, SetVal
<1>2. Raw(w, Members(R)) /\ Effective(w) = Effective(m)
  BY <1>1, Frame DEF Held
<1> QED BY <1>1, <1>2 DEF Held, Keeps

(* Nor is the result.  *)
LEMMA SetsRes ==
  ASSUME NEW m, NEW R, NEW C, Held(m, R, C), NEW r, NEW w, w = Fail(m, r)
  PROVE  Held(w, R, C) /\ Keeps(m, w) /\ w.res = r /\ w.val = m.val /\ w.fs = m.fs
<1>1. /\ Shape(w) /\ w.disk = m.disk /\ w.cards = m.cards /\ w.fs = m.fs /\ w.dir = m.dir /\ w.fil = m.fil
      /\ w.val = m.val /\ w.res = r
  BY DEF Held, Raw, Shape, Fail
<1>2. Raw(w, Members(R)) /\ Effective(w) = Effective(m)
  BY <1>1, Frame DEF Held
<1> QED BY <1>1, <1>2 DEF Held, Keeps

(* Nor is the position in the directory.  *)
LEMMA SetsDir ==
  ASSUME NEW m, NEW R, NEW C, Held(m, R, C), NEW d, NEW w, w = SetDir(m, d)
  PROVE  /\ Held(w, R, C) /\ Effective(w) = Effective(m) /\ w.dir = d
         /\ w.res = m.res /\ w.val = m.val /\ w.fil = m.fil /\ w.fs = m.fs
<1>1. /\ Shape(w) /\ w.disk = m.disk /\ w.cards = m.cards /\ w.fs = m.fs /\ w.dir = d /\ w.fil = m.fil
      /\ w.val = m.val /\ w.res = m.res
  BY DEF Held, Raw, Shape, SetDir
<1>2. Raw(w, Members(R)) /\ Effective(w) = Effective(m)
  BY <1>1, Frame DEF Held
<1> QED BY <1>1, <1>2 DEF Held

(* Two calls that leave the volume leave it.  *)
LEMMA KeepsTwice ==
  ASSUME NEW a, NEW b, NEW c, Keeps(a, b), Keeps(b, c)
  PROVE  Keeps(a, c)
BY DEF Keeps

(* The search for a free cluster finds one that is free.  *)
Free(D, v) == v = 0 \/ (v \in Clusters /\ Fat(D, v) = 0)

Searched(m, R, C, p) ==
  /\ Held(p.m, R, C) /\ Keeps(m, p.m) /\ p.ncl \in Nat \ {0}
  /\ p.ended \/ OK(p.m)
  /\ Free(Effective(m), p.m.val)

(* A pass of the search for a free cluster.  *)
LEMMA SearchPassFinds ==
  ASSUME NEW m, NEW R, NEW C, NEW p, Searched(m, R, C, p), NEW scl
  PROVE  Searched(m, R, C, SearchPass(p, scl))
<1> DEFINE n == IF p.ncl + 1 >= n_fatent THEN 2 ELSE p.ncl + 1
           g == get_fat(p.m, n)
           w == SearchPass(p, scl)
<1>1. CASE p.ended
  BY <1>1 DEF SearchPass
<1>2. CASE ~p.ended
  <2>n. n \in Clusters /\ n \in Nat \ {0}
    BY SizesAssumption DEF Searched, Clusters
  <2>1. /\ w.ncl = n
        /\ \/ w.m = SetVal(p.m, 0)
           \/ ~OK(g) /\ w.m = SetVal(g, 0) /\ w.ended
           \/ OK(g) /\ g.val = 0 /\ w.m = SetVal(g, n)
           \/ OK(g) /\ w.m = SetVal(g, 0)
    BY <1>2 DEF SearchPass, SetVal
  <2>2. Held(p.m, R, C) /\ Keeps(m, p.m) /\ OK(p.m)
    BY <1>2 DEF Searched
  <2> HIDE DEF n, w
  <2>3. /\ Held(g, R, C) /\ Keeps(p.m, g)
        /\ OK(g) => g.val = Fat(Effective(p.m), n)
    BY <2>n, <2>2, GetsFat
  <2>4. Keeps(m, g) /\ Effective(p.m) = Effective(m)
    BY <2>2, <2>3, KeepsTwice DEF Keeps
  <2>5. Free(Effective(m), 0) /\ (OK(g) /\ g.val = 0 => Free(Effective(m), n))
    BY <2>3, <2>4, <2>n DEF Free
  <2> HIDE DEF g
  <2>6. PICK x, v : /\ w.m = SetVal(x, v) /\ Held(x, R, C) /\ Keeps(m, x)
                    /\ Free(Effective(m), v) /\ (w.ended \/ OK(x))
    BY <2>1, <2>2, <2>3, <2>4, <2>5
  <2>7. Held(w.m, R, C) /\ Keeps(x, w.m) /\ w.m.val = v /\ w.m.res = x.res
    BY <2>6, SetsVal
  <2>8. Searched(m, R, C, w)
    BY <2>1, <2>n, <2>6, <2>7, KeepsTwice DEF Searched, OK
  <2> QED BY <2>8 DEF w
<1> QED BY <1>1, <1>2

(* The search finds a free cluster, or none, and changes nothing.  *)
LEMMA FindsFree ==
  ASSUME NEW m, NEW R, NEW C, Held(m, R, C), OK(m), NEW scl \in Nat \ {0}, NEW w, w = FreeAfter(m, scl)
  PROVE  Held(w, R, C) /\ Keeps(m, w) /\ Free(Effective(m), w.val)
<1>1. PICK g : /\ FreeAfter(m, scl) = g[n_fatent].m
               /\ g[0] = [m |-> [m EXCEPT !.val = 0], ncl |-> scl, ended |-> FALSE]
               /\ \A k \in 1 .. n_fatent : g[k] = SearchPass(g[k - 1], scl)
  BY SearchRuns
<1> DEFINE S == {k \in Nat : k \in 0 .. n_fatent => Searched(m, R, C, g[k])}
<1>2. 0 \in S
  <2>1. g[0].m = SetVal(m, 0) /\ g[0].ncl = scl
    BY <1>1 DEF SetVal
  <2>2. Held(g[0].m, R, C) /\ Keeps(m, g[0].m) /\ g[0].m.val = 0 /\ OK(g[0].m)
    BY <2>1, SetsVal DEF OK
  <2>3. Searched(m, R, C, g[0])
    BY <2>1, <2>2 DEF Searched, Free
  <2> QED BY <2>3
<1>3. ASSUME NEW k \in Nat, k \in S
      PROVE  k + 1 \in S
  <2>1. SUFFICES ASSUME k + 1 \in 0 .. n_fatent
                 PROVE  Searched(m, R, C, g[k + 1])
    OBVIOUS
  <2>2. Searched(m, R, C, g[k]) /\ g[k + 1] = SearchPass(g[k], scl)
    BY <1>1, <1>3, <2>1, SizesAssumption
  <2> QED BY <2>2, SearchPassFinds
<1>4. Searched(m, R, C, g[n_fatent])
  <2>1. n_fatent \in Nat /\ n_fatent \in 0 .. n_fatent
    BY SizesAssumption
  <2>2. n_fatent \in S
    <3> HIDE DEF S
    <3> QED BY <1>2, <1>3, <2>1, Induction
  <2> QED BY <2>1, <2>2
<1> QED BY <1>1, <1>4 DEF Searched
------------------------------------------------------------------------------
(* The chains grow: the slots of the directory stay as they are, new ones  *)
(* have no entry, and the chains of the files of N are no shorter.         *)
Grows(D, R, C, E, Q, B, N) ==
  /\ \A q \in Slots(R) : q \in Slots(Q) /\ R[q[1]] = Q[q[1]] /\ At(E, Q, q) = At(D, R, q)
  /\ \A q \in Slots(Q) : q \in Slots(R) \/ IsUnit(At(E, Q, q))
  /\ \A n \in N : Extends(B[n], C[n])

Grown(m, R, C, w, Q, B, N) ==
  /\ Held(w, Q, B) /\ Grows(Effective(m), R, C, Effective(w), Q, B, N)
  /\ w.fil = m.fil /\ w.fs.fs_type = m.fs.fs_type

(* The types of the chains.  *)
LEMMA ChainsAre ==
  ASSUME NEW D, NEW R, NEW C, Layout(D, R, C)
  PROVE  /\ R \in Seq(Clusters) /\ R # <<>> /\ C \in [Names -> Seq(Clusters)]
         /\ \A n \in Names : C[n] \in Seq(Clusters) /\ Len(C[n]) \in Nat
         /\ \A n \in Names : Extends(C[n], C[n])
BY DEF Layout, Directory, Chained, Chains, Extends

(* A call that leaves the volume lengthens nothing.  *)
LEMMA GrownKeeps ==
  ASSUME NEW m, NEW R, NEW C, NEW w, Held(w, R, C), Keeps(m, w)
  PROVE  Grown(m, R, C, w, R, C, Names)
BY ChainsAre DEF Grown, Grows, Keeps, Held

(* Two calls that lengthen chains lengthen them.  *)
LEMMA GrownTwice ==
  ASSUME NEW m, NEW R, NEW C, NEW N, N \subseteq Names, Layout(Effective(m), R, C),
         NEW a, NEW Q, NEW B, Grown(m, R, C, a, Q, B, N),
         NEW w, NEW P, NEW A, NEW M, N \subseteq M, Grown(a, Q, B, w, P, A, M)
  PROVE  Grown(m, R, C, w, P, A, N)
<1>1. \A n \in N : Extends(A[n], C[n])
  <2>1. SUFFICES ASSUME NEW n \in N
                 PROVE  Extends(A[n], C[n])
    OBVIOUS
  <2>2. Extends(A[n], B[n]) /\ Extends(B[n], C[n])
    BY DEF Grown, Grows
  <2>3. Len(A[n]) \in Nat /\ Len(B[n]) \in Nat /\ Len(C[n]) \in Nat
    BY ChainsAre DEF Grown, Held
  <2> QED BY <2>2, <2>3 DEF Extends
<1>2. Grows(Effective(m), R, C, Effective(w), P, A, N)
  BY <1>1 DEF Grown, Grows
<1> QED BY <1>2 DEF Grown

(* The open files are those of the longer chains.  *)
LEMMA FilesCarry ==
  ASSUME NEW m, NEW R, NEW C, Layout(Effective(m), R, C), NEW N,
         NEW w, NEW Q, NEW B, Grown(m, R, C, w, Q, B, N),
         NEW fil, FilesOk(Effective(m), R, C, fil),
         \A f \in Files : fil[f].fs => NameOf(f) \in N \/ fil[f].sclust = 0
  PROVE  FilesOk(Effective(w), Q, B, fil)
<1>1. SUFFICES ASSUME NEW f \in Files, fil[f].fs
               PROVE  FileOk(Effective(w), Q, B[NameOf(f)], fil[f], NameOf(f))
  BY DEF FilesOk
<1>2. FileOk(Effective(m), R, C[NameOf(f)], fil[f], NameOf(f)) /\ NameOf(f) \in Names
  BY <1>1 DEF FilesOk, NameOf, Names
<1>3. C[NameOf(f)] \in Seq(Clusters) /\ B[NameOf(f)] \in Seq(Clusters)
  BY <1>2, ChainsAre DEF Grown, Held
<1>4. fil[f].sclust # 0 => Extends(B[NameOf(f)], C[NameOf(f)])
  BY <1>1 DEF Grown, Grows
<1>5. \A q \in Slots(R) : q \in Slots(Q) /\ R[q[1]] = Q[q[1]] /\ At(Effective(w), Q, q) = At(Effective(m), R, q)
  BY DEF Grown, Grows
<1> QED BY <1>2, <1>3, <1>4, <1>5, FileCarries
------------------------------------------------------------------------------
(* A free cluster is marked, and linked to the end of a chain.  *)
LEMMA SameSlots ==
  ASSUME NEW D, NEW R, NEW C, Layout(D, R, C), NEW E,
         \A d \in Clusters : E[clust2sect(d)] = D[clust2sect(d)]
  PROVE  \A p \in Slots(R) : At(E, R, p) = At(D, R, p)
BY SlotsAre DEF At

(* put_fat(c, EOC) of a free cluster.  *)
LEMMA Marks ==
  ASSUME NEW m, NEW R, NEW C, Held(m, R, C), OK(m), NEW c \in Clusters, Fat(Effective(m), c) = 0,
         NEW w, w = put_fat(m, c, EOC)
  PROVE  /\ Grown(m, R, C, w, R, C, Names)
         /\ OK(w) => Fat(Effective(w), c) = EOC
         /\ Apart(R, C, c)
<1>l. Layout(Effective(m), R, C) /\ IsDisk(Effective(m))
  BY DEF Held, Layout
<1>1. Layout(SetFat(Effective(m), c, EOC), R, C) /\ Apart(R, C, c)
  BY <1>l, LayoutMarks, FreeIsApart DEF Apart
<1>2. EOC \in Nat
  BY ClustersAre
<1>3. /\ w.fil = m.fil /\ w.fs.fs_type = m.fs.fs_type /\ w.dir = m.dir
      /\ OK(w) => Held(w, R, C) /\ Effective(w) = SetFat(Effective(m), c, EOC)
      /\ ~OK(w) => Held(w, R, C) /\ Keeps(m, w)
  BY <1>1, <1>2, PutsFat
<1>4. CASE ~OK(w)
  BY <1>1, <1>3, <1>4, GrownKeeps
<1>5. CASE OK(w)
  <2>1. /\ \A d \in Clusters : Effective(w)[clust2sect(d)] = Effective(m)[clust2sect(d)]
        /\ Fat(Effective(w), c) = EOC
    BY <1>l, <1>2, <1>3, <1>5, SetFatIs
  <2>2. \A p \in Slots(R) : At(Effective(w), R, p) = At(Effective(m), R, p)
    BY <1>l, <2>1, SameSlots
  <2>3. Grows(Effective(m), R, C, Effective(w), R, C, Names)
    BY <1>l, <2>2, ChainsAre DEF Grows
  <2> QED BY <1>1, <1>3, <1>5, <2>1, <2>3 DEF Grown
<1> QED BY <1>4, <1>5

(* put_fat that links a marked cluster to a file.  *)
LEMMA LinksFile ==
  ASSUME NEW m, NEW R, NEW C, Held(m, R, C), OK(m), NEW n \in Names, C[n] # <<>>,
         NEW c \in Clusters, Fat(Effective(m), c) = EOC, Apart(R, C, c),
         NEW w, w = put_fat(m, C[n][Len(C[n])], c), NEW B, B = Lengthened(C, n, c)
  PROVE  /\ OK(w) => Grown(m, R, C, w, R, B, Names)
         /\ ~OK(w) => Grown(m, R, C, w, R, C, Names)
<1>l. Layout(Effective(m), R, C) /\ IsDisk(Effective(m))
  BY DEF Held, Layout
<1>c. C \in [Names -> Seq(Clusters)] /\ C[n] \in Seq(Clusters)
  BY <1>l, ChainsAre
<1>e. PICK e \in Clusters : e = C[n][Len(C[n])]
  BY <1>c, LastOfChain
<1>1. Layout(SetFat(Effective(m), e, c), R, B)
  BY <1>l, <1>e, LayoutLinksFile
<1>2. c \in Nat
  BY ClustersAre
<1>w. w = put_fat(m, e, c)
  BY <1>e
<1>3. /\ w.fil = m.fil /\ w.fs.fs_type = m.fs.fs_type /\ w.dir = m.dir
      /\ OK(w) => Held(w, R, B) /\ Effective(w) = SetFat(Effective(m), e, c)
      /\ ~OK(w) => Held(w, R, C) /\ Keeps(m, w)
  BY <1>w, <1>1, <1>2, PutsFat
<1>4. CASE ~OK(w)
  BY <1>3, <1>4, GrownKeeps
<1>5. CASE OK(w)
  <2>1. \A d \in Clusters : Effective(w)[clust2sect(d)] = Effective(m)[clust2sect(d)]
    <3>1. \A d \in Clusters : SetFat(Effective(m), e, c)[clust2sect(d)] = Effective(m)[clust2sect(d)]
      BY <1>l, <1>2, SetFatIs
    <3> QED BY <1>3, <1>5, <3>1
  <2>2. \A p \in Slots(R) : At(Effective(w), R, p) = At(Effective(m), R, p)
    BY <1>l, <2>1, SameSlots
  <2>3. \A o \in Names : Extends(B[o], C[o])
    <3>1. Extends(Append(C[n], c), C[n])
      BY <1>c DEF Extends
    <3>2. \A o \in Names : B[o] = IF o = n THEN Append(C[n], c) ELSE C[o]
      BY <1>c DEF Lengthened
    <3> QED BY <1>l, <3>1, <3>2, ChainsAre
  <2>4. Grows(Effective(m), R, C, Effective(w), R, B, Names)
    BY <2>2, <2>3 DEF Grows
  <2> QED BY <1>3, <1>5, <2>4 DEF Grown
<1> QED BY <1>4, <1>5

(* put_fat that links a marked cluster to the directory.  *)
LEMMA LinksRoot ==
  ASSUME NEW m, NEW R, NEW C, Held(m, R, C), OK(m),
         NEW c \in Clusters, Fat(Effective(m), c) = EOC, Apart(R, C, c),
         NEW w, w = put_fat(m, R[Len(R)], c)
  PROVE  /\ OK(w) => Grown(m, R, C, w, Append(R, c), C, Names)
         /\ ~OK(w) => Grown(m, R, C, w, R, C, Names)
<1>l. Layout(Effective(m), R, C) /\ IsDisk(Effective(m))
  BY DEF Held, Layout
<1>c. R \in Seq(Clusters) /\ R # <<>>
  BY <1>l, ChainsAre
<1>e. PICK e \in Clusters : e = R[Len(R)]
  BY <1>c, LastOfChain
<1>q. PICK Q : Q = Append(R, c)
  OBVIOUS
<1>1. Layout(SetFat(Effective(m), e, c), Q, C)
  BY <1>l, <1>e, <1>q, LayoutLinksRoot
<1>2. c \in Nat /\ Members(R) \subseteq Members(Q)
  BY <1>c, <1>q, ClustersAre, MembersAre
<1>w. w = put_fat(m, e, c)
  BY <1>e
<1>3. /\ w.fil = m.fil /\ w.fs.fs_type = m.fs.fs_type /\ w.dir = m.dir
      /\ OK(w) => Held(w, Q, C) /\ Effective(w) = SetFat(Effective(m), e, c)
      /\ ~OK(w) => Held(w, R, C) /\ Keeps(m, w)
  BY <1>w, <1>1, <1>2, PutsFat
<1>4. CASE ~OK(w)
  BY <1>3, <1>4, GrownKeeps
<1>5. CASE OK(w)
  <2>1. \A d \in Clusters : Effective(w)[clust2sect(d)] = Effective(m)[clust2sect(d)]
    <3>1. \A d \in Clusters : SetFat(Effective(m), e, c)[clust2sect(d)] = Effective(m)[clust2sect(d)]
      BY <1>l, <1>2, SetFatIs
    <3> QED BY <1>3, <1>5, <3>1
  <2>2. \A p \in Slots(R) : p \in Slots(Q) /\ R[p[1]] = Q[p[1]]
    BY <1>c, <1>q, SlotsGrow
  <2>3. \A p \in Slots(R) : At(Effective(w), Q, p) = At(Effective(m), R, p)
    BY <1>l, <2>1, <2>2, SlotsAre DEF At
  <2>n. \A p \in Slots(Q) : p \in Slots(R) \/ IsUnit(At(Effective(w), Q, p))
    <3>1. SUFFICES ASSUME NEW p \in Slots(Q), p \notin Slots(R)
                   PROVE  IsUnit(At(Effective(w), Q, p))
      OBVIOUS
    <3>2. Q[p[1]] = c /\ p[2] \in 1 .. DirPer
      BY <1>c, <1>q, <3>1, SlotsGrow DEF Slots
    <3>3. Plain(Effective(m)[clust2sect(c)]) /\ 1 .. DirPer \subseteq DOMAIN Effective(m)[clust2sect(c)]
      BY <1>l, SizesAssumption DEF Layout, Apart, IsDisk
    <3>4. At(Effective(w), Q, p) = Effective(m)[clust2sect(c)][p[2]]
      BY <2>1, <3>2 DEF At
    <3> QED BY <3>2, <3>3, <3>4 DEF Plain
  <2>4. Grows(Effective(m), R, C, Effective(w), Q, C, Names)
    BY <1>l, <2>2, <2>3, <2>n, ChainsAre DEF Grows
  <2> QED BY <1>3, <1>5, <1>q, <2>4 DEF Grown
<1> QED BY <1>4, <1>5

TakenBy(m, c) == [m EXCEPT !.fs = Taken(@, c), !.val = c]

(* The counters of FSINFO are no part of the volume.  *)
LEMMA Takes ==
  ASSUME NEW m, NEW R, NEW C, Held(m, R, C), NEW c, NEW w, w = TakenBy(m, c)
  PROVE  Held(w, R, C) /\ Keeps(m, w) /\ w.val = c /\ w.res = m.res
<1>1. /\ Shape(w) /\ w.disk = m.disk /\ w.cards = m.cards /\ w.dir = m.dir /\ w.fil = m.fil
      /\ w.val = c /\ w.res = m.res
      /\ w.fs.win = m.fs.win /\ w.fs.winsect = m.fs.winsect /\ w.fs.wflag = m.fs.wflag
      /\ w.fs.fs_type = m.fs.fs_type
  BY DEF Held, Raw, Shape, TakenBy, Taken
<1>2. Raw(w, Members(R)) /\ Effective(w) = Effective(m)
  BY <1>1, Frame DEF Held
<1> QED BY <1>1, <1>2 DEF Held, Keeps
------------------------------------------------------------------------------
(* A cluster is allocated: to the end of a file's chain, to the directory, *)
(* or as the first of a file that has none.                                *)
LEMMA AllocateIs ==
  ASSUME NEW m, NEW clst, NEW c, NEW a, a = put_fat(m, c, EOC),
         NEW l, l = Linked(a, clst, c), NEW w, w = Allocate(m, clst, c)
  PROVE  w = IF ~OK(a) THEN a ELSE IF ~OK(l) THEN l ELSE TakenBy(l, c)
BY DEF Allocate, Then, TakenBy

(* Allocate for a file that has a chain.  *)
LEMMA AllocatesFile ==
  ASSUME NEW m, NEW R, NEW C, Held(m, R, C), OK(m), NEW n \in Names, C[n] # <<>>,
         NEW c \in Clusters, Fat(Effective(m), c) = 0,
         NEW w, w = Allocate(m, C[n][Len(C[n])], c), NEW B, B = Lengthened(C, n, c)
  PROVE  /\ OK(w) => Grown(m, R, C, w, R, B, Names) /\ w.val = c
         /\ ~OK(w) => Grown(m, R, C, w, R, C, Names)
<1>d. Layout(Effective(m), R, C) /\ C[n] \in Seq(Clusters)
  BY ChainsAre DEF Held
<1>e. PICK e \in Clusters : e = C[n][Len(C[n])] /\ e # 0
  BY <1>d, LastOfChain, ClustersAre
<1>a. PICK a : a = put_fat(m, c, EOC)
  OBVIOUS
<1>l. PICK l : l = Linked(a, e, c)
  OBVIOUS
<1>1. w = IF ~OK(a) THEN a ELSE IF ~OK(l) THEN l ELSE TakenBy(l, c)
  BY <1>a, <1>e, <1>l, AllocateIs
<1>2. Grown(m, R, C, a, R, C, Names) /\ (OK(a) => Fat(Effective(a), c) = EOC) /\ Apart(R, C, c)
  BY <1>a, Marks
<1>3. CASE ~OK(a)
  BY <1>1, <1>2, <1>3
<1>4. CASE OK(a)
  <2>1. l = put_fat(a, C[n][Len(C[n])], c)
    BY <1>e, <1>l DEF Linked
  <2>2. /\ OK(l) => Grown(a, R, C, l, R, B, Names)
        /\ ~OK(l) => Grown(a, R, C, l, R, C, Names)
    BY <1>2, <1>4, <2>1, LinksFile DEF Grown
  <2>3. CASE ~OK(l)
    BY <1>1, <1>2, <1>4, <1>d, <2>2, <2>3, GrownTwice
  <2>4. CASE OK(l)
    <3>1. Held(w, R, B) /\ Keeps(l, w) /\ w.val = c /\ w.res = l.res
      BY <1>1, <1>4, <2>2, <2>4, Takes DEF Grown
    <3>2. Grown(l, R, B, w, R, B, Names)
      BY <3>1, GrownKeeps
    <3>3. Grown(a, R, C, w, R, B, Names)
      BY <1>2, <2>2, <2>4, <3>2, GrownTwice DEF Grown, Held
    <3>4. Grown(m, R, C, w, R, B, Names)
      BY <1>2, <1>d, <3>3, GrownTwice
    <3> QED BY <2>4, <3>1, <3>4 DEF OK
  <2> QED BY <2>3, <2>4
<1> QED BY <1>3, <1>4

(* Allocate for the directory.  *)
LEMMA AllocatesRoot ==
  ASSUME NEW m, NEW R, NEW C, Held(m, R, C), OK(m),
         NEW c \in Clusters, Fat(Effective(m), c) = 0, NEW w, w = Allocate(m, R[Len(R)], c)
  PROVE  /\ OK(w) => Grown(m, R, C, w, Append(R, c), C, Names) /\ w.val = c
         /\ ~OK(w) => Grown(m, R, C, w, R, C, Names)
<1>d. Layout(Effective(m), R, C) /\ R \in Seq(Clusters) /\ R # <<>>
  BY ChainsAre DEF Held
<1>e. PICK e \in Clusters : e = R[Len(R)] /\ e # 0
  BY <1>d, LastOfChain, ClustersAre
<1>a. PICK a : a = put_fat(m, c, EOC)
  OBVIOUS
<1>l. PICK l : l = Linked(a, e, c)
  OBVIOUS
<1>q. PICK Q : Q = Append(R, c)
  OBVIOUS
<1>1. w = IF ~OK(a) THEN a ELSE IF ~OK(l) THEN l ELSE TakenBy(l, c)
  BY <1>a, <1>e, <1>l, AllocateIs
<1>2. Grown(m, R, C, a, R, C, Names) /\ (OK(a) => Fat(Effective(a), c) = EOC) /\ Apart(R, C, c)
  BY <1>a, Marks
<1>3. CASE ~OK(a)
  BY <1>1, <1>2, <1>3
<1>4. CASE OK(a)
  <2>1. l = put_fat(a, R[Len(R)], c)
    BY <1>e, <1>l DEF Linked
  <2>2. /\ OK(l) => Grown(a, R, C, l, Q, C, Names)
        /\ ~OK(l) => Grown(a, R, C, l, R, C, Names)
    BY <1>2, <1>4, <1>q, <2>1, LinksRoot DEF Grown
  <2>3. CASE ~OK(l)
    BY <1>1, <1>2, <1>4, <1>d, <2>2, <2>3, GrownTwice
  <2>4. CASE OK(l)
    <3>1. Held(w, Q, C) /\ Keeps(l, w) /\ w.val = c /\ w.res = l.res
      BY <1>1, <1>4, <2>2, <2>4, Takes DEF Grown
    <3>2. Grown(l, Q, C, w, Q, C, Names)
      BY <3>1, GrownKeeps
    <3>3. Grown(a, R, C, w, Q, C, Names)
      BY <1>2, <2>2, <2>4, <3>2, GrownTwice DEF Grown, Held
    <3>4. Grown(m, R, C, w, Q, C, Names)
      BY <1>2, <1>d, <3>3, GrownTwice
    <3> QED BY <1>q, <2>4, <3>1, <3>4 DEF OK
  <2> QED BY <2>3, <2>4
<1> QED BY <1>3, <1>4

(* Allocate for a file that has no chain: the cluster is linked to nothing.  *)
LEMMA AllocatesFirst ==
  ASSUME NEW m, NEW R, NEW C, Held(m, R, C), OK(m), NEW n \in Names,
         \A p \in Slots(R) : Taking(Effective(m), R, p, n) => At(Effective(m), R, p)[2] = 0,
         NEW c \in Clusters, Fat(Effective(m), c) = 0, NEW w, w = Allocate(m, 0, c)
  PROVE  /\ OK(w) => w.val = c /\ \E B : Grown(m, R, C, w, R, B, Names \ {n}) /\ B[n] = <<c>>
         /\ ~OK(w) => Grown(m, R, C, w, R, C, Names)
<1>d. Layout(Effective(m), R, C)
  BY DEF Held
<1>a. PICK a : a = put_fat(m, c, EOC)
  OBVIOUS
<1>b. PICK B : B = [C EXCEPT ![n] = <<c>>]
  OBVIOUS
<1>1. w = IF OK(a) THEN TakenBy(a, c) ELSE a
  BY <1>a, AllocateIs DEF Linked
<1>2. Grown(m, R, C, a, R, C, Names) /\ (OK(a) => Fat(Effective(a), c) = EOC) /\ Apart(R, C, c)
  BY <1>a, Marks
<1>3. CASE ~OK(a)
  BY <1>1, <1>2, <1>3
<1>4. CASE OK(a)
  <2>1. Held(w, R, C) /\ Keeps(a, w) /\ w.val = c /\ w.res = a.res
    BY <1>1, <1>2, <1>4, Takes DEF Grown
  <2>2. Effective(w) = Effective(a) /\ Grown(m, R, C, w, R, C, Names)
    BY <1>2, <1>d, <2>1, GrownKeeps, GrownTwice DEF Keeps
  <2>3. \A p \in Slots(R) : Taking(Effective(w), R, p, n) => At(Effective(w), R, p)[2] = 0
    BY <2>2 DEF Grown, Grows, Taking
  <2>4. Layout(Effective(w), R, B)
    BY <1>2, <1>4, <1>b, <2>1, <2>2, <2>3, LayoutStarts DEF Held
  <2>5. B[n] = <<c>> /\ \A o \in Names \ {n} : B[o] = C[o]
    BY <1>b, <1>d, ChainsAre
  <2>6. Grown(m, R, C, w, R, B, Names \ {n})
    BY <2>2, <2>4, <2>5 DEF Grown, Grows, Held
  <2> QED BY <1>4, <2>1, <2>5, <2>6 DEF OK
<1> QED BY <1>3, <1>4
------------------------------------------------------------------------------
(* create_chain.  *)
LEMMA FoundIs ==
  ASSUME NEW m, NEW clst, NEW scl, NEW s, s = FreeAfter(m, scl), NEW w, w = Found(m, clst, scl)
  PROVE  w = IF OK(s) /\ s.val # 0 THEN Allocate(s, clst, s.val) ELSE s
BY DEF Found, Then

(* FreeAfter as a call that lengthens nothing.  *)
LEMMA SearchedKeeps ==
  ASSUME NEW m, NEW R, NEW C, Held(m, R, C), OK(m), NEW scl \in Nat \ {0}, NEW s, s = FreeAfter(m, scl)
  PROVE  /\ Held(s, R, C) /\ Grown(m, R, C, s, R, C, Names)
         /\ s.val # 0 => s.val \in Clusters /\ Fat(Effective(s), s.val) = 0
BY FindsFree, GrownKeeps DEF Free, Keeps

(* Within a chain nothing is allocated.  *)
LEMMA ChainFollowed ==
  ASSUME NEW m, NEW R, NEW C, Held(m, R, C), OK(m), NEW s \in Seq(Clusters), Chained(Effective(m), s),
         NEW k \in 1 .. Len(s)
  PROVE  /\ LET g == get_fat(m, s[k]) IN
              /\ Held(g, R, C) /\ Keeps(m, g)
              /\ OK(g) => g.val = IF k = Len(s) THEN EOC ELSE s[k + 1]
         /\ k # Len(s) =>
              /\ s[k + 1] \in Clusters
              /\ LET w == create_chain(m, s[k]) IN
                   Held(w, R, C) /\ Keeps(m, w) /\ (OK(w) => w.val = s[k + 1])
<1> DEFINE g == get_fat(m, s[k])
           w == create_chain(m, s[k])
<1>1. s[k] \in Clusters /\ s[k] # 0 /\ (k # Len(s) => s[k + 1] \in Clusters)
  <2>1. Len(s) \in Nat /\ (k # Len(s) => k + 1 \in 1 .. Len(s))
    OBVIOUS
  <2> QED BY <2>1, ClustersAre
<1>2. /\ Held(g, R, C) /\ Keeps(m, g)
      /\ OK(g) => g.val = IF k = Len(s) THEN EOC ELSE s[k + 1]
  BY <1>1, GetsFat DEF Chained
<1>3. w = IF OK(g) THEN (IF g.val < 2 THEN [g EXCEPT !.val = 1]
                         ELSE IF g.val \in Clusters THEN g
                         ELSE Found(g, s[k], s[k])) ELSE g
  BY <1>1 DEF create_chain, Then
<1>4. k # Len(s) => w = g
  <2> SUFFICES ASSUME k # Len(s)
               PROVE  w = g
    OBVIOUS
  <2>1. OK(g) => ~(g.val < 2) /\ g.val \in Clusters
    <3>1. \A c \in Clusters : ~(c < 2)
      BY DEF Clusters
    <3> HIDE DEF g
    <3> QED BY <1>1, <1>2, <3>1
  <2> HIDE DEF g, w
  <2> QED BY <1>3, <2>1
<1> QED BY <1>1, <1>2, <1>4

(* create_chain at the last cluster of a chain.  *)
LEMMA ChainEnds ==
  ASSUME NEW m, NEW R, NEW C, Held(m, R, C), OK(m), NEW s \in Seq(Clusters), Chained(Effective(m), s), s # <<>>,
         NEW w, w = create_chain(m, s[Len(s)])
  PROVE  \/ ~OK(w) /\ Grown(m, R, C, w, R, C, Names)
         \/ \E f : /\ OK(f) /\ Held(f, R, C) /\ Grown(m, R, C, f, R, C, Names)
                   /\ \/ f.val = 0 /\ w = f
                      \/ /\ f.val \in Clusters /\ Fat(Effective(f), f.val) = 0
                         /\ w = Allocate(f, s[Len(s)], f.val)
<1>e. PICK e \in Clusters : e = s[Len(s)] /\ e # 0 /\ e \in Nat \ {0} /\ Len(s) \in 1 .. Len(s)
  BY LastOfChain, ClustersAre
<1>g. PICK g : g = get_fat(m, e)
  OBVIOUS
<1>1. Held(g, R, C) /\ Keeps(m, g) /\ (OK(g) => g.val = EOC)
  BY <1>e, <1>g, ChainFollowed
<1>2. w = IF OK(g) THEN (IF g.val < 2 THEN [g EXCEPT !.val = 1]
                         ELSE IF g.val \in Clusters THEN g
                         ELSE Found(g, e, e)) ELSE g
  BY <1>e, <1>g DEF create_chain, Then
<1>3. CASE ~OK(g)
  BY <1>1, <1>2, <1>3, GrownKeeps
<1>4. CASE OK(g)
  <2>1. w = Found(g, e, e)
    <3>1. ~(EOC < 2) /\ EOC \notin Clusters
      BY SizesAssumption, ClustersAre DEF EOC
    <3> QED BY <1>1, <1>2, <1>4, <3>1
  <2>2. PICK f : f = FreeAfter(g, e)
    OBVIOUS
  <2>3. w = IF OK(f) /\ f.val # 0 THEN Allocate(f, e, f.val) ELSE f
    BY <2>1, <2>2, FoundIs
  <2>4. /\ Held(f, R, C) /\ Grown(g, R, C, f, R, C, Names)
        /\ f.val # 0 => f.val \in Clusters /\ Fat(Effective(f), f.val) = 0
    BY <1>1, <1>4, <1>e, <2>2, SearchedKeeps
  <2>5. Grown(m, R, C, f, R, C, Names)
    BY <1>1, <2>4, GrownKeeps, GrownTwice DEF Held
  <2> QED BY <1>e, <2>3, <2>4, <2>5
<1> QED BY <1>3, <1>4

(* create_chain for a file: the cluster that follows, or a new one, or a     *)
(* full card.                                                                *)
LEMMA StretchesFile ==
  ASSUME NEW m, NEW R, NEW C, Held(m, R, C), OK(m), NEW n \in Names, NEW k \in 1 .. Len(C[n]),
         NEW w, w = create_chain(m, C[n][k])
  PROVE  \E B : /\ Grown(m, R, C, w, R, B, Names)
                /\ OK(w) => w.val = 0 \/ (k + 1 \in 1 .. Len(B[n]) /\ w.val = B[n][k + 1])
<1>1. Layout(Effective(m), R, C) /\ C[n] \in Seq(Clusters) /\ Chained(Effective(m), C[n]) /\ Len(C[n]) \in Nat
  BY ChainsAre DEF Held, Layout, Chains
<1>2. CASE k # Len(C[n])
  <2>1. Held(w, R, C) /\ Keeps(m, w) /\ (OK(w) => w.val = C[n][k + 1])
    BY <1>1, <1>2, ChainFollowed
  <2>2. Grown(m, R, C, w, R, C, Names) /\ k + 1 \in 1 .. Len(C[n])
    BY <1>1, <1>2, <2>1, GrownKeeps
  <2> QED BY <2>1, <2>2
<1>3. CASE k = Len(C[n])
  <2>1. C[n] # <<>> /\ w = create_chain(m, C[n][Len(C[n])])
    BY <1>1, <1>3
  <2>2. CASE ~OK(w) /\ Grown(m, R, C, w, R, C, Names)
    BY <2>2
  <2>3. CASE \E f : /\ OK(f) /\ Held(f, R, C) /\ Grown(m, R, C, f, R, C, Names)
                    /\ \/ f.val = 0 /\ w = f
                       \/ /\ f.val \in Clusters /\ Fat(Effective(f), f.val) = 0
                          /\ w = Allocate(f, C[n][Len(C[n])], f.val)
    <3>1. PICK f : /\ OK(f) /\ Held(f, R, C) /\ Grown(m, R, C, f, R, C, Names)
                   /\ \/ f.val = 0 /\ w = f
                      \/ /\ f.val \in Clusters /\ Fat(Effective(f), f.val) = 0
                         /\ w = Allocate(f, C[n][Len(C[n])], f.val)
      BY <2>3
    <3>2. CASE f.val = 0 /\ w = f
      BY <3>1, <3>2
    <3>3. CASE /\ f.val \in Clusters /\ Fat(Effective(f), f.val) = 0
               /\ w = Allocate(f, C[n][Len(C[n])], f.val)
      <4>1. PICK c \in Clusters : c = f.val
        BY <3>3
      <4>2. PICK B : B = Lengthened(C, n, c)
        OBVIOUS
      <4>3. /\ OK(w) => Grown(f, R, C, w, R, B, Names) /\ w.val = c
            /\ ~OK(w) => Grown(f, R, C, w, R, C, Names)
        <5>1. w = Allocate(f, C[n][Len(C[n])], c) /\ Fat(Effective(f), c) = 0 /\ Held(f, R, C) /\ OK(f)
          BY <3>1, <3>3, <4>1
        <5> QED BY <2>1, <4>2, <5>1, AllocatesFile
      <4>4. B[n] = Append(C[n], c)
        BY <1>1, <4>2, ChainsAre DEF Lengthened
      <4>5. k + 1 \in 1 .. Len(B[n]) /\ B[n][k + 1] = c
        BY <1>1, <1>3, <4>4
      <4> QED BY <1>1, <3>1, <4>3, <4>5, GrownTwice
    <3> QED BY <3>1, <3>2, <3>3
  <2> QED BY <1>1, <2>1, <2>2, <2>3, ChainEnds
<1> QED BY <1>2, <1>3

(* create_chain for the directory.  *)
LEMMA StretchesRoot ==
  ASSUME NEW m, NEW R, NEW C, Held(m, R, C), OK(m), NEW w, w = create_chain(m, R[Len(R)])
  PROVE  /\ ~OK(w) \/ w.val = 0 => Grown(m, R, C, w, R, C, Names)
         /\ OK(w) /\ w.val # 0 => w.val \in Clusters /\ Grown(m, R, C, w, Append(R, w.val), C, Names)
<1>1. Layout(Effective(m), R, C) /\ R \in Seq(Clusters) /\ R # <<>> /\ Chained(Effective(m), R)
  BY ChainsAre DEF Held, Layout, Directory
<1>2. CASE ~OK(w) /\ Grown(m, R, C, w, R, C, Names)
  BY <1>2
<1>3. ASSUME NEW f, OK(f), Held(f, R, C), Grown(m, R, C, f, R, C, Names), f.val = 0, w = f
      PROVE  OK(w) /\ w.val = 0 /\ Grown(m, R, C, w, R, C, Names)
  BY <1>3
<1>4. ASSUME NEW f, OK(f), Held(f, R, C), Grown(m, R, C, f, R, C, Names),
             f.val \in Clusters, Fat(Effective(f), f.val) = 0, w = Allocate(f, R[Len(R)], f.val)
      PROVE  /\ OK(w) => w.val = f.val /\ w.val # 0 /\ Grown(m, R, C, w, Append(R, f.val), C, Names)
             /\ ~OK(w) => Grown(m, R, C, w, R, C, Names)
  <2>1. PICK c \in Clusters : c = f.val /\ c # 0
    BY <1>4, ClustersAre
  <2>2. /\ OK(w) => Grown(f, R, C, w, Append(R, c), C, Names) /\ w.val = c
        /\ ~OK(w) => Grown(f, R, C, w, R, C, Names)
    BY <1>4, <2>1, AllocatesRoot
  <2> QED BY <1>1, <1>4, <2>1, <2>2, GrownTwice
<1> QED BY <1>1, <1>2, <1>3, <1>4, ChainEnds

FirstOf(w, ch) == w.val = 0 \/ (w.val \in Clusters /\ ch = <<w.val>>)

(* create_chain for a file that has no chain.  *)
LEMMA StartsFile ==
  ASSUME NEW m, NEW R, NEW C, Held(m, R, C), OK(m), NEW n \in Names,
         \A p \in Slots(R) : Taking(Effective(m), R, p, n) => At(Effective(m), R, p)[2] = 0,
         NEW w, w = create_chain(m, 0)
  PROVE  \E B : /\ Grown(m, R, C, w, R, B, Names \ {n})
                /\ OK(w) => FirstOf(w, B[n])
<1>d. Layout(Effective(m), R, C)
  BY DEF Held
<1>1. PICK scl \in Nat \ {0} : w = Found(m, 0, scl)
  BY SizesAssumption DEF create_chain
<1>2. PICK f : f = FreeAfter(m, scl)
  OBVIOUS
<1>3. w = IF OK(f) /\ f.val # 0 THEN Allocate(f, 0, f.val) ELSE f
  BY <1>1, <1>2, FoundIs
<1>4. /\ Held(f, R, C) /\ Grown(m, R, C, f, R, C, Names)
      /\ f.val # 0 => f.val \in Clusters /\ Fat(Effective(f), f.val) = 0
  BY <1>2, SearchedKeeps
<1>5. \A P, A, x : Grown(m, R, C, x, P, A, Names) => Grown(m, R, C, x, P, A, Names \ {n})
  BY DEF Grown, Grows
<1>6. CASE ~(OK(f) /\ f.val # 0)
  BY <1>3, <1>4, <1>5, <1>6 DEF FirstOf
<1>7. CASE OK(f) /\ f.val # 0
  <2>1. PICK c \in Clusters : c = f.val
    BY <1>4, <1>7
  <2>2. \A p \in Slots(R) : Taking(Effective(f), R, p, n) => At(Effective(f), R, p)[2] = 0
    BY <1>4 DEF Grown, Grows, Taking
  <2>3. /\ OK(w) => w.val = c /\ \E B : Grown(f, R, C, w, R, B, Names \ {n}) /\ B[n] = <<c>>
        /\ ~OK(w) => Grown(f, R, C, w, R, C, Names)
    <3>1. w = Allocate(f, 0, c) /\ Fat(Effective(f), c) = 0 /\ Held(f, R, C) /\ OK(f)
      BY <1>3, <1>4, <1>7, <2>1
    <3> QED BY <2>2, <3>1, AllocatesFirst
  <2>4. CASE ~OK(w)
    BY <1>4, <1>5, <1>d, <2>3, <2>4, GrownTwice
  <2>5. CASE OK(w)
    <3>1. PICK B : Grown(f, R, C, w, R, B, Names \ {n}) /\ B[n] = <<c>>
      BY <2>3, <2>5
    <3>2. Grown(m, R, C, w, R, B, Names \ {n})
      BY <1>4, <1>5, <1>d, <3>1, GrownTwice
    <3> QED BY <2>3, <2>5, <3>1, <3>2 DEF FirstOf
  <2> QED BY <2>4, <2>5
<1> QED BY <1>6, <1>7
------------------------------------------------------------------------------
(* The window is filled with a sector of the directory.  *)
ClearTo(m, c) == m.fs.wflag => m.fs.winsect = clust2sect(c)
Dirty(m) == m.fs.wflag = TRUE

(* The window is filled, and dirty, instead of read.  *)
LEMMA WindowSet ==
  ASSUME NEW m, NEW R, NEW C, Held(m, R, C), NEW c \in Members(R), NEW b,
         ClearTo(m, c),
         Layout(SetData(Effective(m), c, b), R, C),
         NEW w, Shape(w), w.disk = m.disk, w.cards = m.cards,
         w.fs.winsect = clust2sect(c), w.fs.win = b, Dirty(w)
  PROVE  Held(w, R, C) /\ Effective(w) = SetData(Effective(m), c, b)
<1>1. Effective(w) = [m.disk EXCEPT ![clust2sect(c)] = b]
  BY DEF Effective, Dirty
<1>2. Effective(m) \in {m.disk, [m.disk EXCEPT ![clust2sect(c)] = m.fs.win]}
  BY DEF Effective, ClearTo
<1>3. [[m.disk EXCEPT ![clust2sect(c)] = m.fs.win] EXCEPT ![clust2sect(c)] = b] = [m.disk EXCEPT ![clust2sect(c)] = b]
  OBVIOUS
<1>4. Effective(w) = SetData(Effective(m), c, b)
  BY <1>1, <1>2, <1>3 DEF SetData
<1>5. Window(w, Members(R))
  BY DEF Window, Cached, Dirty
<1> QED BY <1>4, <1>5 DEF Held, Raw

SetWin(m, s, b) == [m EXCEPT !.fs.win = b, !.fs.winsect = s, !.fs.wflag = TRUE]

(* What filling the window leaves.  *)
LEMMA SetsWin ==
  ASSUME NEW m, NEW a, NEW x, NEW w, Shape(m), w = SetWin(m, a, x)
  PROVE  /\ Shape(w) /\ w.disk = m.disk /\ w.cards = m.cards /\ w.fil = m.fil /\ w.dir = m.dir /\ w.res = m.res
         /\ w.fs.winsect = a /\ w.fs.win = x /\ w.fs.fs_type = m.fs.fs_type /\ w.val = m.val
         /\ Dirty(w)
<1>1. /\ w.disk = m.disk /\ w.cards = m.cards /\ w.fil = m.fil /\ w.dir = m.dir /\ w.res = m.res
      /\ DOMAIN w = DOMAIN m /\ w.val = m.val
      /\ w.fs = [m.fs EXCEPT !.win = x, !.winsect = a, !.wflag = TRUE]
  BY DEF Shape, SetWin
<1> QED BY <1>1 DEF Shape, Dirty
------------------------------------------------------------------------------
(* The directory is stretched: its new cluster is free throughout.  *)
LEMMA StretchIs ==
  ASSUME NEW m, NEW clust, NEW w, w = Stretch(m, clust), NEW c, c = create_chain(m, clust),
         NEW s, s = sync_window(c), NEW y, y = SetWin(s, clust2sect(c.val), NoDir), NEW z, z = sync_window(y)
  PROVE  \/ ~OK(c) /\ w = c
         \/ OK(c) /\ c.val = 0 /\ w = Fail(c, "DENIED")
         \/ OK(c) /\ c.val = 1 /\ w = Fail(c, "INT_ERR")
         \/ OK(c) /\ c.val \notin {0, 1} /\ ~OK(s) /\ w = s
         \/ OK(c) /\ c.val \notin {0, 1} /\ OK(s) /\ ~OK(z) /\ w = z
         \/ OK(c) /\ c.val \notin {0, 1} /\ OK(s) /\ OK(z) /\ w = SetDir(z, <<c.val, 1>>)
BY DEF Stretch, Then, SetDir, SetWin

(* The new cluster of the directory is cleared.  *)
LEMMA Clears ==
  ASSUME NEW s, NEW R, NEW C, Held(s, R, C), OK(s), ~s.fs.wflag, NEW c, c = R[Len(R)],
         \A p \in Slots(R) : p[1] = Len(R) => IsUnit(At(Effective(s), R, p)),
         NEW y, y = SetWin(s, clust2sect(c), NoDir), NEW z, z = sync_window(y)
  PROVE  /\ Held(z, R, C) /\ z.fil = s.fil /\ z.fs.fs_type = s.fs.fs_type
         /\ \A p \in Slots(R) :
              At(Effective(z), R, p) = IF p[1] = Len(R) THEN Zero ELSE At(Effective(s), R, p)
<1>d. Layout(Effective(s), R, C) /\ R \in Seq(Clusters) /\ R # <<>> /\ c \in Members(R) /\ c \in Clusters
  BY ChainsAre, LastOfChain DEF Held
<1>1. Layout(SetData(Effective(s), c, NoDir), R, C)
  BY <1>d, LayoutClears
<1>u. PICK u, b : u = clust2sect(c) /\ b = NoDir
  OBVIOUS
<1>v. y = SetWin(s, u, b) /\ Shape(s)
  BY <1>u DEF Held, Raw
<1>2. /\ Shape(y) /\ y.disk = s.disk /\ y.cards = s.cards /\ y.fil = s.fil /\ y.res = s.res
      /\ y.fs.winsect = u /\ y.fs.win = b /\ y.fs.fs_type = s.fs.fs_type
      /\ Dirty(y)
  BY <1>v, SetsWin
<1>3. Held(y, R, C) /\ Effective(y) = SetData(Effective(s), c, NoDir)
  <2>1. Layout(SetData(Effective(s), c, b), R, C)
    BY <1>1, <1>u
  <2>2. Held(y, R, C) /\ Effective(y) = SetData(Effective(s), c, b)
    <3>1. ClearTo(s, c) /\ y.fs.winsect = clust2sect(c)
      BY <1>2, <1>u DEF ClearTo
    <3> QED BY <1>2, <1>d, <2>1, <3>1, WindowSet
  <2> QED BY <1>u, <2>2
<1>4. Held(z, R, C) /\ Keeps(y, z)
  BY <1>2, <1>3, SyncsWindow DEF OK
<1>5. \A p \in Slots(R) : At(Effective(y), R, p) = IF p[1] = Len(R) THEN Zero ELSE At(Effective(s), R, p)
  <2>1. IsDisk(Effective(s)) /\ DOMAIN NoDir \in {1 .. DirPer, 1 .. SS}
    BY <1>d DEF Layout, NoDir
  <2>2. \A d \in Clusters : SetData(Effective(s), c, NoDir)[clust2sect(d)] = IF d = c THEN NoDir ELSE Effective(s)[clust2sect(d)]
    BY <1>d, <2>1, SetDataIs
  <2>3. SUFFICES ASSUME NEW p \in Slots(R)
                 PROVE  At(Effective(y), R, p) = IF p[1] = Len(R) THEN Zero ELSE At(Effective(s), R, p)
    OBVIOUS
  <2>4. /\ p[1] \in 1 .. Len(R) /\ p[2] \in 1 .. DirPer /\ R[p[1]] \in Clusters /\ Len(R) \in 1 .. Len(R)
        /\ (R[p[1]] = c <=> p[1] = Len(R))
    BY <1>d, SlotsAre, LastOfChain DEF Layout, Directory, Chained
  <2>5. NoDir[p[2]] = Zero
    BY <2>4 DEF NoDir
  <2> QED BY <1>3, <2>2, <2>4, <2>5 DEF At
<1> QED BY <1>2, <1>4, <1>5 DEF Keeps

Stretched(m, R, C, w, Q) ==
  /\ Held(w, Q, C) /\ Grows(Effective(m), R, C, Effective(w), Q, C, Names)
  /\ w.fil = m.fil /\ w.fs.fs_type = m.fs.fs_type
  /\ OK(w) => /\ Len(Q) = Len(R) + 1 /\ w.dir = <<Q[Len(Q)], 1>>
              /\ \A t \in Slots(Q) : t[1] = Len(Q) => At(Effective(w), Q, t) = Zero

(* Stretch: between the link and the clearing the card may lose its power.  *)
LEMMA Stretches ==
  ASSUME NEW m, NEW R, NEW C, Held(m, R, C), OK(m), NEW w, w = Stretch(m, R[Len(R)])
  PROVE  \E Q : Stretched(m, R, C, w, Q)
<1>d. Layout(Effective(m), R, C) /\ R \in Seq(Clusters) /\ R # <<>>
  BY ChainsAre DEF Held
<1>c. PICK c : c = create_chain(m, R[Len(R)])
  OBVIOUS
<1>s. PICK s : s = sync_window(c)
  OBVIOUS
<1>y. PICK y : y = SetWin(s, clust2sect(c.val), NoDir)
  OBVIOUS
<1>z. PICK z : z = sync_window(y)
  OBVIOUS
<1>1. /\ ~OK(c) \/ c.val = 0 => Grown(m, R, C, c, R, C, Names)
      /\ OK(c) /\ c.val # 0 => c.val \in Clusters /\ Grown(m, R, C, c, Append(R, c.val), C, Names)
  BY <1>c, StretchesRoot
<1>i. \/ ~OK(c) /\ w = c
      \/ OK(c) /\ c.val = 0 /\ w = Fail(c, "DENIED")
      \/ OK(c) /\ c.val = 1 /\ w = Fail(c, "INT_ERR")
      \/ OK(c) /\ c.val \notin {0, 1} /\ ~OK(s) /\ w = s
      \/ OK(c) /\ c.val \notin {0, 1} /\ OK(s) /\ ~OK(z) /\ w = z
      \/ OK(c) /\ c.val \notin {0, 1} /\ OK(s) /\ OK(z) /\ w = SetDir(z, <<c.val, 1>>)
  BY <1>c, <1>s, <1>y, <1>z, StretchIs
<1>3. CASE ~OK(c) \/ c.val = 0
  <2>1. (w = c /\ ~OK(w)) \/ w = Fail(c, "DENIED")
    BY <1>3, <1>i
  <2>2. Held(w, R, C) /\ Effective(w) = Effective(c) /\ w.fil = c.fil /\ w.fs.fs_type = c.fs.fs_type /\ ~OK(w)
    BY <1>1, <1>3, <2>1, SetsRes DEF Grown, Keeps, OK
  <2> QED BY <1>1, <1>3, <2>2 DEF Grown, Stretched
<1>4. CASE OK(c) /\ c.val # 0
  <2>q. PICK Q, n : Q = Append(R, n) /\ n = c.val
    OBVIOUS
  <2>1. n \in Clusters /\ n # 1 /\ n # 0 /\ Grown(m, R, C, c, Q, C, Names)
    BY <1>1, <1>4, <2>q, ClustersAre
  <2>2. /\ Held(s, Q, C) /\ Keeps(c, s) /\ (OK(s) => ~s.fs.wflag)
    BY <1>4, <1>s, <2>1, SyncsWindow DEF Grown
  <2>3. Q \in Seq(Clusters) /\ Len(Q) = Len(R) + 1 /\ Q[Len(Q)] = n /\ Len(R) \in Nat
    BY <1>d, <2>1, <2>q
  <2>4. \A t \in Slots(Q) : t[1] = Len(Q) => t \notin Slots(R)
    BY <2>3 DEF Slots
  <2>5. \A t \in Slots(Q) : t[1] = Len(Q) => IsUnit(At(Effective(s), Q, t))
    BY <2>1, <2>2, <2>4 DEF Grown, Grows, Keeps
  <2>6. CASE ~OK(s)
    <3>1. w = s
      BY <1>i, <1>4, <2>1, <2>q, <2>6
    <3> QED BY <2>1, <2>2, <2>6, <3>1 DEF Grown, Keeps, Stretched
  <2>7. CASE OK(s)
    <3>1. /\ Held(z, Q, C) /\ z.fil = s.fil /\ z.fs.fs_type = s.fs.fs_type
          /\ \A p \in Slots(Q) :
               At(Effective(z), Q, p) = IF p[1] = Len(Q) THEN Zero ELSE At(Effective(s), Q, p)
      <4>1. y = SetWin(s, clust2sect(n), NoDir) /\ Held(s, Q, C) /\ ~s.fs.wflag /\ n = Q[Len(Q)]
        BY <1>y, <2>2, <2>3, <2>7, <2>q
      <4> QED BY <1>z, <2>5, <2>7, <4>1, Clears
    <3>2. (w = z /\ ~OK(w)) \/ (OK(z) /\ w = SetDir(z, <<n, 1>>))
      BY <1>i, <1>4, <2>1, <2>q, <2>7
    <3>3. /\ Held(w, Q, C) /\ Effective(w) = Effective(z) /\ w.fil = z.fil /\ w.fs.fs_type = z.fs.fs_type
          /\ OK(w) => w.dir = <<n, 1>>
      <4>1. PICK d : d = <<n, 1>>
        OBVIOUS
      <4> QED BY <3>1, <3>2, <4>1, SetsDir
    <3>4. \A t \in Slots(R) : t \in Slots(Q) /\ t[1] # Len(Q)
      BY <2>1, <2>4 DEF Grown, Grows
    <3>5. Grows(Effective(m), R, C, Effective(w), Q, C, Names)
      BY <2>1, <2>2, <3>1, <3>3, <3>4 DEF Grown, Grows, Keeps, IsUnit
    <3> QED BY <2>1, <2>2, <2>3, <3>1, <3>3, <3>5 DEF Grown, Keeps, Stretched
  <2> QED BY <2>6, <2>7
<1> QED BY <1>3, <1>4
------------------------------------------------------------------------------
(* The slots of the directory are looked at in their order.  *)
NextSlot(q) == IF q[2] < DirPer THEN <<q[1], q[2] + 1>> ELSE <<q[1] + 1, 1>>
Standing(m, R, q) == q \in Slots(R) /\ m.dir = <<R[q[1]], q[2]>>
Moves(m, w) == Effective(w) = Effective(m) /\ w.fil = m.fil /\ w.fs.fs_type = m.fs.fs_type

(* The slot after a slot.  *)
LEMMA NextSlotIs ==
  ASSUME NEW R \in Seq(Clusters), NEW q \in Slots(R), NEW t, t = NextSlot(q)
  PROVE  /\ Rank(t) = Rank(q) + 1
         /\ q[2] < DirPer => t \in Slots(R) /\ t = <<q[1], q[2] + 1>>
         /\ ~(q[2] < DirPer) => t = <<q[1] + 1, 1>> /\ (t \in Slots(R) <=> q[1] # Len(R))
         /\ ~(q[2] < DirPer) /\ q[1] = Len(R) => \A s \in Slots(R) : Rank(s) <= Rank(q)
<1>1. /\ q[1] \in 1 .. Len(R) /\ q[2] \in 1 .. DirPer /\ Len(R) \in Nat /\ DirPer \in Nat \ {0}
      /\ \A i, j : <<i, j>> \in Slots(R) <=> i \in 1 .. Len(R) /\ j \in 1 .. DirPer
  BY SizesAssumption DEF Slots
<1>2. CASE q[2] < DirPer
  <2>1. t = <<q[1], q[2] + 1>> /\ t \in Slots(R)
    BY <1>1, <1>2 DEF NextSlot
  <2>2. Rank(t) = Rank(q) + 1
    <3>1. (q[1] - 1) * DirPer \in Int
      BY <1>1
    <3> QED BY <1>1, <2>1, <3>1 DEF Rank
  <2> QED BY <1>2, <2>1, <2>2
<1>3. CASE ~(q[2] < DirPer)
  <2>1. t = <<q[1] + 1, 1>> /\ q[2] = DirPer /\ (t \in Slots(R) <=> q[1] # Len(R))
    BY <1>1, <1>3 DEF NextSlot
  <2>2. Rank(t) = Rank(q) + 1
    <3>1. q[1] * DirPer = (q[1] - 1) * DirPer + DirPer /\ (q[1] - 1) * DirPer \in Int
      BY <1>1
    <3>2. Rank(t) = q[1] * DirPer + 1
      BY <1>1, <2>1 DEF Rank
    <3> QED BY <1>1, <2>1, <3>1, <3>2 DEF Rank
  <2>3. ASSUME q[1] = Len(R), NEW s \in Slots(R)
        PROVE  Rank(s) <= Rank(q)
    <3>1. s[1] \in 1 .. Len(R) /\ s[2] \in 1 .. DirPer /\ Rank(s) \in Nat /\ Rank(q) \in Nat
      BY RankIs DEF Slots
    <3>2. CASE s[1] < q[1]
      BY <3>1, <3>2, RankIs
    <3>3. CASE s[1] = q[1]
      BY <1>1, <2>1, <3>1, <3>3, RankIs
    <3> QED BY <1>1, <2>3, <3>1, <3>2, <3>3
  <2> QED BY <1>3, <2>1, <2>2, <2>3
<1> QED BY <1>2, <1>3

(* dir_move: the entry is in the window.  *)
LEMMA MovesDir ==
  ASSUME NEW m, NEW R, NEW C, Held(m, R, C), OK(m), NEW q, Standing(m, R, q), NEW w, w = dir_move(m)
  PROVE  /\ Held(w, R, C) /\ Keeps(m, w) /\ Standing(w, R, q) /\ w.res \in {"OK", "DISK_ERR"}
         /\ OK(w) => /\ Here(w) = At(Effective(m), R, q)
                     /\ w.fs.winsect = clust2sect(R[q[1]]) /\ w.fs.win = Effective(m)[clust2sect(R[q[1]])]
<1>1. q \in Slots(R) /\ m.dir[1] = R[q[1]] /\ m.dir[2] = q[2]
  BY DEF Standing
<1>2. PICK s \in Cached(Members(R)) : s = clust2sect(R[q[1]]) /\ s = clust2sect(m.dir[1])
  BY <1>1, SlotsAre DEF Cached, Held
<1>3. w = move_window(m, s)
  BY <1>2 DEF dir_move
<1>4. /\ Held(w, R, C) /\ Keeps(m, w)
      /\ OK(w) => w.fs.winsect = s /\ w.fs.win = Effective(m)[s]
      /\ w.res \in {"OK", "DISK_ERR"}
  BY <1>3, MovesWindow
<1>5. w.dir = m.dir
  BY <1>4 DEF Keeps
<1> QED BY <1>1, <1>2, <1>4, <1>5 DEF Standing, Here, At

(* The next slot: none is left, or it is one of the directory's, which may *)
(* have been stretched for it.                                             *)
LEMMA StepsWithin ==
  ASSUME NEW m, NEW R, NEW C, Held(m, R, C), OK(m), NEW q, Standing(m, R, q), q[2] < DirPer,
         NEW stretch, NEW w, w = dir_next(m, stretch)
  PROVE  Held(w, R, C) /\ Moves(m, w) /\ OK(w) /\ Standing(w, R, NextSlot(q))
<1>1. q \in Slots(R) /\ m.dir = <<R[q[1]], q[2]>> /\ m.dir[2] = q[2] /\ R \in Seq(Clusters)
  BY ChainsAre DEF Standing, Held
<1>2. PICK d : d = <<R[q[1]], q[2] + 1>>
  OBVIOUS
<1>3. w = SetDir(m, d)
  <2>1. w = [m EXCEPT !.dir[2] = @ + 1]
    BY <1>1 DEF dir_next
  <2>2. [m.dir EXCEPT ![2] = m.dir[2] + 1] = d
    BY <1>1, <1>2
  <2> QED BY <2>1, <2>2 DEF SetDir
<1>4. Held(w, R, C) /\ Moves(m, w) /\ OK(w) /\ w.dir = d
  BY <1>3, SetsDir DEF Moves, OK
<1>5. NextSlot(q) \in Slots(R) /\ NextSlot(q) = <<q[1], q[2] + 1>>
  BY <1>1, NextSlotIs
<1> QED BY <1>2, <1>4, <1>5 DEF Standing

(* The chain of the directory is followed.  *)
LEMMA FollowsRoot ==
  ASSUME NEW m, NEW R, NEW C, Held(m, R, C), OK(m), NEW q, Standing(m, R, q), ~(q[2] < DirPer),
         NEW g, g = get_fat(m, m.dir[1])
  PROVE  /\ Held(g, R, C) /\ Keeps(m, g) /\ g.res \in {"OK", "DISK_ERR"}
         /\ OK(g) => ~(g.val <= 1)
         /\ OK(g) /\ q[1] # Len(R) => g.val \in Clusters /\ g.val = R[q[1] + 1]
         /\ OK(g) /\ q[1] = Len(R) => g.val \notin Clusters
<1>1. /\ q \in Slots(R) /\ m.dir[1] = R[q[1]] /\ R \in Seq(Clusters)
      /\ Chained(Effective(m), R) /\ q[1] \in 1 .. Len(R)
  BY ChainsAre DEF Standing, Held, Layout, Directory, Slots
<1>2. PICK c \in Clusters : c = R[q[1]] /\ c = m.dir[1]
  BY <1>1
<1>3. /\ Held(g, R, C) /\ Keeps(m, g) /\ g.res \in {"OK", "DISK_ERR"}
      /\ OK(g) => g.val = Fat(Effective(m), c)
  BY <1>2, GetsFat
<1>4. ASSUME OK(g), q[1] # Len(R)
      PROVE  ~(g.val <= 1) /\ g.val \in Clusters /\ g.val = R[q[1] + 1]
  <2>1. g.val = R[q[1] + 1] /\ g.val \in Clusters
    BY <1>1, <1>2, <1>3, <1>4 DEF Chained
  <2> QED BY <2>1, SizesAssumption DEF Clusters
<1>5. ASSUME OK(g), q[1] = Len(R)
      PROVE  ~(g.val <= 1) /\ g.val \notin Clusters
  <2>1. g.val = EOC
    BY <1>1, <1>2, <1>3, <1>5 DEF Chained
  <2> QED BY <2>1, ClustersAre, SizesAssumption DEF EOC
<1> QED BY <1>3, <1>4, <1>5

Advance(m) == dir_next(m, FALSE)
AdvanceIs(w, g) ==
  w = IF OK(g) THEN (IF g.val <= 1 THEN Fail(g, "INT_ERR")
                     ELSE IF g.val \in Clusters THEN SetDir(g, <<g.val, 1>>)
                     ELSE Fail(g, "NO_FILE")) ELSE g

(* dir_next without stretching, written out.  *)
LEMMA Advances ==
  ASSUME NEW m, ~(m.dir[2] < DirPer), NEW g, g = get_fat(m, m.dir[1]), NEW w, w = Advance(m)
  PROVE  AdvanceIs(w, g)
BY DEF Advance, AdvanceIs, dir_next, Then, SetDir

(* dir_next without stretching: the next slot, or the directory has ended.  *)
LEMMA NextStays ==
  ASSUME NEW m, NEW R, NEW C, Held(m, R, C), OK(m), NEW q, Standing(m, R, q), NEW w, w = Advance(m)
  PROVE  /\ Held(w, R, C) /\ Moves(m, w) /\ w.res \in {"OK", "DISK_ERR", "NO_FILE"}
         /\ OK(w) => Standing(w, R, NextSlot(q))
         /\ w.res = "NO_FILE" => \A t \in Slots(R) : Rank(t) <= Rank(q)
<1>1. q \in Slots(R) /\ R \in Seq(Clusters) /\ m.dir[2] = q[2]
  BY ChainsAre DEF Standing, Held
<1>2. CASE q[2] < DirPer
  <2>1. Held(w, R, C) /\ Moves(m, w) /\ OK(w) /\ Standing(w, R, NextSlot(q))
    BY <1>2, StepsWithin DEF Advance
  <2> QED BY <2>1 DEF OK
<1>3. CASE ~(q[2] < DirPer)
  <2>g. PICK g : g = get_fat(m, m.dir[1])
    OBVIOUS
  <2>1. /\ Held(g, R, C) /\ Keeps(m, g) /\ g.res \in {"OK", "DISK_ERR"}
        /\ OK(g) => ~(g.val <= 1)
        /\ OK(g) /\ q[1] # Len(R) => g.val \in Clusters /\ g.val = R[q[1] + 1]
        /\ OK(g) /\ q[1] = Len(R) => g.val \notin Clusters
    BY <1>3, <2>g, FollowsRoot
  <2>i. AdvanceIs(w, g)
    BY <1>1, <1>3, <2>g, Advances
  <2>2. CASE ~OK(g)
    <3>1. w = g
      BY <2>i, <2>2 DEF AdvanceIs
    <3> QED BY <2>1, <2>2, <3>1 DEF Keeps, Moves, OK
  <2>3. CASE OK(g) /\ q[1] # Len(R)
    <3>1. PICK d : d = <<R[q[1] + 1], 1>> /\ w = SetDir(g, d)
      BY <2>1, <2>3, <2>i DEF AdvanceIs
    <3>2. Held(w, R, C) /\ Effective(w) = Effective(g) /\ w.dir = d /\ w.res = g.res /\ w.fil = g.fil /\ w.fs = g.fs
      BY <2>1, <3>1, SetsDir
    <3>3. NextSlot(q) \in Slots(R) /\ NextSlot(q) = <<q[1] + 1, 1>>
      BY <1>1, <1>3, <2>3, NextSlotIs
    <3> QED BY <2>1, <2>3, <3>1, <3>2, <3>3 DEF Standing, Keeps, Moves, OK
  <2>4. CASE OK(g) /\ q[1] = Len(R)
    <3>1. w = Fail(g, "NO_FILE")
      BY <2>1, <2>4, <2>i DEF AdvanceIs
    <3>2. Held(w, R, C) /\ Keeps(g, w) /\ w.res = "NO_FILE"
      BY <2>1, <3>1, SetsRes
    <3>3. \A t \in Slots(R) : Rank(t) <= Rank(q)
      BY <1>1, <1>3, <2>4, NextSlotIs
    <3> QED BY <2>1, <3>2, <3>3 DEF Keeps, Moves, OK
  <2> QED BY <2>1, <2>2, <2>3, <2>4
<1> QED BY <1>2, <1>3
------------------------------------------------------------------------------
(* dir_find: the entry of a name, if it has one among the first MaxIndex.  *)
FoundAt(w, D, R, q, n) ==
  /\ Standing(w, R, q) /\ Taking(D, R, q, n)
  /\ w.fs.winsect = clust2sect(R[q[1]]) /\ w.fs.win = D[clust2sect(R[q[1]])]
None(D, R, n, top) == \A t \in Slots(R) : Rank(t) <= top => ~Taking(D, R, t, n)

Finding(m, R, C, n, k, p) ==
  /\ Held(p.m, R, C) /\ Moves(m, p.m) /\ p.m.res \in {"OK", "DISK_ERR", "NO_FILE"}
  /\ ~p.ended =>
       /\ OK(p.m) /\ None(Effective(m), R, n, k)
       /\ \E q \in Slots(R) : Standing(p.m, R, q) /\ Rank(q) = k + 1
  /\ p.ended /\ OK(p.m) => \E q \in Slots(R) : FoundAt(p.m, Effective(m), R, q, n)
  /\ p.ended /\ p.m.res = "NO_FILE" => None(Effective(m), R, n, MaxIndex)

(* dir_sdi: the first slot.  *)
LEMMA FirstSlot ==
  ASSUME NEW m, NEW R, NEW C, Held(m, R, C), OK(m), NEW w, w = dir_sdi(m)
  PROVE  /\ Held(w, R, C) /\ Moves(m, w) /\ OK(w)
         /\ \E q \in Slots(R) : Standing(w, R, q) /\ Rank(q) = 1
         /\ \A t \in Slots(R) : Rank(t) \in Nat \ {0}
<1>1. R \in Seq(Clusters) /\ R # <<>> /\ R[1] = dirbase
  BY DEF Held, Layout, Directory, Chained
<1>2. <<1, 1>> \in Slots(R) /\ Rank(<<1, 1>>) = 1
  BY <1>1, SizesAssumption DEF Slots, Rank
<1>3. PICK d : d = <<dirbase, 1>>
  OBVIOUS
<1>4. w = SetDir(m, d)
  BY <1>3 DEF dir_sdi, SetDir
<1>5. Held(w, R, C) /\ Moves(m, w) /\ OK(w) /\ w.dir = d
  BY <1>4, SetsDir DEF Moves, OK
<1>6. Standing(w, R, <<1, 1>>)
  BY <1>1, <1>2, <1>3, <1>5 DEF Standing
<1> QED BY <1>1, <1>2, <1>5, <1>6, RankIs

(* A pass of dir_find, written out.  *)
LEMMA FindPassIs ==
  ASSUME NEW p, ~p.ended, NEW n, NEW w, w = dir_move(p.m), NEW x, x = Advance(w),
         NEW r, r = FindPass(p, n)
  PROVE  \/ ~OK(w) /\ r.m = w /\ r.ended
         \/ OK(w) /\ Here(w) = Zero /\ r.m = Fail(w, "NO_FILE") /\ r.ended
         \/ OK(w) /\ Here(w) # Zero /\ Here(w)[1] = n /\ r.m = w /\ r.ended
         \/ OK(w) /\ Here(w) # Zero /\ Here(w)[1] # n /\ r.m = x /\ (r.ended <=> ~OK(x))
BY DEF FindPass, Stop, GoOn, Advance

(* A pass of dir_find: no slot so far has the name.  *)
LEMMA FindPassFinds ==
  ASSUME NEW m, NEW R, NEW C, Layout(Effective(m), R, C), NEW n \in Names, NEW k \in Nat, k < MaxIndex,
         NEW p, Finding(m, R, C, n, k, p), NEW r, r = FindPass(p, n)
  PROVE  Finding(m, R, C, n, k + 1, r)
<1> DEFINE D == Effective(m)
<1>d. R \in Seq(Clusters) /\ \A t \in Slots(R) : Rank(t) \in Nat
  BY ChainsAre, RankIs
<1>1. CASE p.ended
  <2>1. r = p
    BY <1>1 DEF FindPass
  <2> QED BY <1>1, <2>1 DEF Finding
<1>2. CASE ~p.ended
  <2>1. /\ Held(p.m, R, C) /\ Moves(m, p.m) /\ OK(p.m) /\ None(D, R, n, k)
    BY <1>2 DEF Finding
  <2>2. PICK q \in Slots(R) : Standing(p.m, R, q) /\ Rank(q) = k + 1
    BY <1>2 DEF Finding
  <2>w. PICK w : w = dir_move(p.m)
    OBVIOUS
  <2>x. PICK x : x = Advance(w)
    OBVIOUS
  <2>3. /\ Held(w, R, C) /\ Keeps(p.m, w) /\ Standing(w, R, q) /\ w.res \in {"OK", "DISK_ERR"}
        /\ OK(w) => /\ Here(w) = At(Effective(p.m), R, q)
                    /\ w.fs.winsect = clust2sect(R[q[1]]) /\ w.fs.win = Effective(p.m)[clust2sect(R[q[1]])]
    BY <2>1, <2>2, <2>w, MovesDir
  <2>4. Effective(p.m) = D /\ Moves(m, w)
    BY <2>1, <2>3 DEF Moves, Keeps
  <2>5. \/ ~OK(w) /\ r.m = w /\ r.ended
        \/ OK(w) /\ Here(w) = Zero /\ r.m = Fail(w, "NO_FILE") /\ r.ended
        \/ OK(w) /\ Here(w) # Zero /\ Here(w)[1] = n /\ r.m = w /\ r.ended
        \/ OK(w) /\ Here(w) # Zero /\ Here(w)[1] # n /\ r.m = x /\ (r.ended <=> ~OK(x))
    BY <1>2, <2>w, <2>x, FindPassIs
  <2>6. \A t \in Slots(R) : Rank(t) < k + 1 => ~Taking(D, R, t, n)
    BY <1>d, <2>1 DEF None
  <2>7. CASE ~OK(w)
    <3>1. r.m = w /\ r.ended
      BY <2>5, <2>7
    <3> QED BY <2>3, <2>4, <2>7, <3>1 DEF Finding, OK
  <2>8. CASE OK(w) /\ Here(w) = Zero
    <3>1. r.m = Fail(w, "NO_FILE") /\ r.ended
      BY <2>5, <2>8
    <3>2. Held(r.m, R, C) /\ Keeps(w, r.m) /\ r.m.res = "NO_FILE"
      BY <2>3, <3>1, SetsRes
    <3>3. None(D, R, n, MaxIndex)
      <4>1. At(D, R, q) = Zero
        BY <2>3, <2>4, <2>8
      <4>2. \A t \in Slots(R) : Rank(q) < Rank(t) => IsUnit(At(D, R, t))
        BY <4>1 DEF Layout, Directory
      <4>3. \A t \in Slots(R) : Rank(t) = Rank(q) => t = q
        BY <1>d, RankIs
      <4>4. \A t \in Slots(R) : Rank(t) < Rank(q) \/ Rank(t) = Rank(q) \/ Rank(q) < Rank(t)
        BY <1>d
      <4>5. \A t \in Slots(R) : ~Taking(D, R, t, n)
        BY <2>2, <2>6, <4>1, <4>2, <4>3, <4>4 DEF Taking, IsUnit
      <4> QED BY <4>5 DEF None
    <3>4. Moves(m, r.m)
      BY <2>4, <3>2 DEF Moves, Keeps
    <3> QED BY <3>1, <3>2, <3>3, <3>4 DEF Finding, OK
  <2>9. CASE OK(w) /\ Here(w) # Zero /\ Here(w)[1] = n
    <3>1. r.m = w /\ r.ended
      BY <2>5, <2>9
    <3>2. Taking(D, R, q, n)
      BY <2>3, <2>4, <2>9 DEF Taking, IsUnit
    <3>3. FoundAt(w, D, R, q, n)
      BY <2>3, <2>4, <2>9, <3>2 DEF FoundAt
    <3> QED BY <2>3, <2>4, <2>9, <3>1, <3>3 DEF Finding, OK
  <2>10. CASE OK(w) /\ Here(w) # Zero /\ Here(w)[1] # n
    <3>1. r.m = x /\ (r.ended <=> ~OK(x))
      BY <2>5, <2>10
    <3>2. /\ Held(x, R, C) /\ Moves(w, x) /\ x.res \in {"OK", "DISK_ERR", "NO_FILE"}
          /\ OK(x) => Standing(x, R, NextSlot(q))
          /\ x.res = "NO_FILE" => \A t \in Slots(R) : Rank(t) <= Rank(q)
      BY <2>3, <2>10, <2>x, NextStays
    <3>3. Moves(m, x)
      BY <2>4, <3>2 DEF Moves
    <3>4. ~Taking(D, R, q, n)
      BY <2>3, <2>4, <2>10 DEF Taking
    <3>5. \A t \in Slots(R) : Rank(t) < k + 2 => ~Taking(D, R, t, n)
      <4>1. \A t \in Slots(R) : Rank(t) < k + 2 => Rank(t) < k + 1 \/ t = q
        BY <1>d, <2>2, RankIs
      <4> QED BY <2>6, <3>4, <4>1
    <3>6. None(D, R, n, k + 1)
      BY <1>d, <3>5 DEF None
    <3>7. OK(x) => Rank(NextSlot(q)) = k + 1 + 1 /\ NextSlot(q) \in Slots(R)
      BY <1>d, <2>2, <3>2, NextSlotIs DEF Standing
    <3>8. x.res = "NO_FILE" => None(D, R, n, MaxIndex)
      BY <1>d, <2>2, <3>2, <3>5 DEF None
    <3> QED BY <3>1, <3>2, <3>3, <3>6, <3>7, <3>8 DEF Finding, OK
  <2> QED BY <2>7, <2>8, <2>9, <2>10
<1> QED BY <1>1, <1>2

(* dir_find: the slot of the name, or no slot that is looked at has it.  *)
LEMMA Finds ==
  ASSUME NEW m, NEW R, NEW C, Held(m, R, C), OK(m), NEW n \in Names, NEW w, w = dir_find(m, n)
  PROVE  /\ Held(w, R, C) /\ Moves(m, w) /\ w.res \in {"OK", "DISK_ERR", "NO_FILE"}
         /\ OK(w) => \E q \in Slots(R) : FoundAt(w, Effective(m), R, q, n)
         /\ w.res = "NO_FILE" => None(Effective(m), R, n, MaxIndex)
<1>1. PICK g : /\ dir_find(m, n) = IF g[MaxIndex].ended THEN g[MaxIndex].m ELSE Fail(g[MaxIndex].m, "NO_FILE")
               /\ g[0] = [m |-> dir_sdi(m), ended |-> FALSE]
               /\ \A k \in 1 .. MaxIndex : g[k] = FindPass(g[k - 1], n)
  BY FindRuns
<1> DEFINE S == {k \in Nat : k \in 0 .. MaxIndex => Finding(m, R, C, n, k, g[k])}
<1>2. 0 \in S
  <2>1. g[0].m = dir_sdi(m) /\ ~g[0].ended
    BY <1>1
  <2>2. /\ Held(g[0].m, R, C) /\ Moves(m, g[0].m) /\ OK(g[0].m)
        /\ \E q \in Slots(R) : Standing(g[0].m, R, q) /\ Rank(q) = 1
        /\ \A t \in Slots(R) : Rank(t) \in Nat \ {0}
    BY <2>1, FirstSlot
  <2>3. None(Effective(m), R, n, 0)
    BY <2>2 DEF None
  <2>4. Finding(m, R, C, n, 0, g[0])
    BY <2>1, <2>2, <2>3 DEF Finding, OK
  <2> QED BY <2>4
<1>3. ASSUME NEW k \in Nat, k \in S
      PROVE  k + 1 \in S
  <2>1. SUFFICES ASSUME k + 1 \in 0 .. MaxIndex
                 PROVE  Finding(m, R, C, n, k + 1, g[k + 1])
    OBVIOUS
  <2>2. Finding(m, R, C, n, k, g[k]) /\ g[k + 1] = FindPass(g[k], n) /\ k < MaxIndex
    BY <1>1, <1>3, <2>1, SizesAssumption
  <2> QED BY <2>2, FindPassFinds DEF Held
<1>4. Finding(m, R, C, n, MaxIndex, g[MaxIndex])
  <2>1. MaxIndex \in Nat /\ MaxIndex \in 0 .. MaxIndex
    BY SizesAssumption
  <2>2. MaxIndex \in S
    <3> HIDE DEF S
    <3> QED BY <1>2, <1>3, <2>1, Induction
  <2> QED BY <2>1, <2>2
<1>5. CASE g[MaxIndex].ended
  BY <1>1, <1>4, <1>5 DEF Finding
<1>6. CASE ~g[MaxIndex].ended
  <2>1. PICK x : x = g[MaxIndex].m
    OBVIOUS
  <2>2. Held(x, R, C) /\ Moves(m, x) /\ None(Effective(m), R, n, MaxIndex) /\ w = Fail(x, "NO_FILE")
    BY <1>1, <1>4, <1>6, <2>1 DEF Finding
  <2>3. Held(w, R, C) /\ Keeps(x, w) /\ w.res = "NO_FILE"
    BY <2>2, SetsRes
  <2> QED BY <2>2, <2>3 DEF Moves, Keeps, OK
<1> QED BY <1>5, <1>6
------------------------------------------------------------------------------
(* dir_alloc: the first free slot, for which the directory is stretched.   *)
Before(D, R, r) == \A t \in Slots(R) : Rank(t) < r => At(D, R, t) # Zero

Allocating(m, R, C, k, p) ==
  \E Q : /\ Grown(m, R, C, p.m, Q, C, Names)
         /\ ~p.ended =>
              /\ OK(p.m) /\ Before(Effective(p.m), Q, k + 1)
              /\ \E q \in Slots(Q) : Standing(p.m, Q, q) /\ Rank(q) = k + 1
         /\ p.ended /\ OK(p.m) =>
              \E q \in Slots(Q) : /\ Standing(p.m, Q, q) /\ Rank(q) <= k
                                  /\ At(Effective(p.m), Q, q) = Zero /\ Before(Effective(p.m), Q, Rank(q))

Reach(m) == dir_next(m, TRUE)
ReachIs(w, g, e) ==
  w = IF OK(g) THEN (IF g.val <= 1 THEN Fail(g, "INT_ERR")
                     ELSE IF g.val \in Clusters THEN SetDir(g, <<g.val, 1>>)
                     ELSE Stretch(g, e)) ELSE g

(* dir_next with stretching, written out.  *)
LEMMA Reaches ==
  ASSUME NEW m, ~(m.dir[2] < DirPer), NEW g, g = get_fat(m, m.dir[1]), NEW w, w = Reach(m)
  PROVE  ReachIs(w, g, m.dir[1])
BY DEF Reach, ReachIs, dir_next, Then, SetDir

(* dir_next with stretching: the next slot, which may be of a new cluster.  *)
LEMMA NextReaches ==
  ASSUME NEW m, NEW R, NEW C, Held(m, R, C), OK(m), NEW q, Standing(m, R, q), NEW w, w = Reach(m)
  PROVE  \E Q : Grown(m, R, C, w, Q, C, Names) /\ (OK(w) => Standing(w, Q, NextSlot(q)))
<1>1. q \in Slots(R) /\ R \in Seq(Clusters) /\ m.dir[2] = q[2] /\ m.dir[1] = R[q[1]] /\ Layout(Effective(m), R, C)
  BY ChainsAre DEF Standing, Held
<1>2. CASE q[2] < DirPer
  <2>1. Held(w, R, C) /\ Moves(m, w) /\ OK(w) /\ Standing(w, R, NextSlot(q))
    BY <1>2, StepsWithin DEF Reach
  <2>2. Grown(m, R, C, w, R, C, Names)
    BY <1>1, <2>1, ChainsAre DEF Grown, Grows, Moves
  <2> QED BY <2>1, <2>2
<1>3. CASE ~(q[2] < DirPer)
  <2>g. PICK g : g = get_fat(m, m.dir[1])
    OBVIOUS
  <2>1. /\ Held(g, R, C) /\ Keeps(m, g) /\ g.res \in {"OK", "DISK_ERR"}
        /\ OK(g) => ~(g.val <= 1)
        /\ OK(g) /\ q[1] # Len(R) => g.val \in Clusters /\ g.val = R[q[1] + 1]
        /\ OK(g) /\ q[1] = Len(R) => g.val \notin Clusters
    BY <1>3, <2>g, FollowsRoot
  <2>i. ReachIs(w, g, R[q[1]])
    BY <1>1, <1>3, <2>g, Reaches
  <2>2. CASE ~OK(g)
    <3>1. w = g
      BY <2>i, <2>2 DEF ReachIs
    <3> QED BY <2>1, <2>2, <3>1, GrownKeeps
  <2>3. CASE OK(g) /\ q[1] # Len(R)
    <3>1. PICK d : d = <<R[q[1] + 1], 1>> /\ w = SetDir(g, d)
      BY <2>1, <2>3, <2>i DEF ReachIs
    <3>2. Held(w, R, C) /\ Effective(w) = Effective(g) /\ w.dir = d /\ w.res = g.res /\ w.fil = g.fil /\ w.fs = g.fs
      BY <2>1, <3>1, SetsDir
    <3>3. NextSlot(q) \in Slots(R) /\ NextSlot(q) = <<q[1] + 1, 1>>
      BY <1>1, <1>3, <2>3, NextSlotIs
    <3>4. Standing(w, R, NextSlot(q))
      BY <3>1, <3>2, <3>3 DEF Standing
    <3>5. Grown(m, R, C, w, R, C, Names)
      BY <1>1, <2>1, <3>2, ChainsAre DEF Grown, Grows, Keeps
    <3> QED BY <3>4, <3>5
  <2>4. CASE OK(g) /\ q[1] = Len(R)
    <3>1. w = Stretch(g, R[Len(R)])
      BY <2>1, <2>4, <2>i DEF ReachIs
    <3>0. PICK Q : Stretched(g, R, C, w, Q)
      BY <2>1, <2>4, <3>1, Stretches
    <3>2. /\ Held(w, Q, C) /\ Grows(Effective(g), R, C, Effective(w), Q, C, Names)
          /\ w.fil = g.fil /\ w.fs.fs_type = g.fs.fs_type
          /\ OK(w) => Len(Q) = Len(R) + 1 /\ w.dir = <<Q[Len(Q)], 1>>
      BY <3>0 DEF Stretched
    <3>3. Grown(m, R, C, w, Q, C, Names)
      BY <2>1, <3>2 DEF Grown, Keeps
    <3>4. ASSUME OK(w)
          PROVE  Standing(w, Q, NextSlot(q))
      <4>1. NextSlot(q) = <<q[1] + 1, 1>> /\ Len(R) \in Nat
        BY <1>1, <1>3, NextSlotIs
      <4>2. NextSlot(q) \in Slots(Q)
        BY <2>4, <3>2, <3>4, <4>1, SizesAssumption DEF Slots
      <4> QED BY <2>4, <3>2, <3>4, <4>1, <4>2 DEF Standing
    <3> QED BY <3>3, <3>4
  <2> QED BY <2>2, <2>3, <2>4
<1> QED BY <1>2, <1>3

(* A pass of dir_alloc, written out.  *)
LEMMA AllocPassIs ==
  ASSUME NEW p, ~p.ended, NEW w, w = dir_move(p.m), NEW x, x = Reach(w), NEW r, r = AllocPass(p)
  PROVE  \/ (~OK(w) \/ Here(w) = Zero) /\ r.m = w /\ r.ended
         \/ OK(w) /\ Here(w) # Zero /\ r.m = x /\ (r.ended <=> ~OK(x))
BY DEF AllocPass, Stop, GoOn, Reach

(* A pass of dir_alloc: no slot so far is free.  *)
LEMMA AllocPassGrows ==
  ASSUME NEW m, NEW R, NEW C, Layout(Effective(m), R, C), NEW k \in Nat,
         NEW p, Allocating(m, R, C, k, p), NEW r, r = AllocPass(p)
  PROVE  Allocating(m, R, C, k + 1, r)
<1>1. CASE p.ended
  <2>1. r = p
    BY <1>1 DEF AllocPass
  <2>2. PICK Q : /\ Grown(m, R, C, p.m, Q, C, Names)
                 /\ OK(p.m) => \E q \in Slots(Q) :
                        /\ Standing(p.m, Q, q) /\ Rank(q) <= k
                        /\ At(Effective(p.m), Q, q) = Zero /\ Before(Effective(p.m), Q, Rank(q))
    BY <1>1 DEF Allocating
  <2>3. \A t \in Slots(Q) : Rank(t) \in Nat
    BY <2>2, ChainsAre, RankIs DEF Grown, Held
  <2>4. OK(p.m) => \E q \in Slots(Q) :
                        /\ Standing(p.m, Q, q) /\ Rank(q) <= k + 1
                        /\ At(Effective(p.m), Q, q) = Zero /\ Before(Effective(p.m), Q, Rank(q))
    BY <2>2, <2>3
  <2> QED BY <1>1, <2>1, <2>2, <2>4 DEF Allocating
<1>2. CASE ~p.ended
  <2>1. PICK Q, q : /\ Grown(m, R, C, p.m, Q, C, Names) /\ OK(p.m) /\ Before(Effective(p.m), Q, k + 1)
                    /\ q \in Slots(Q) /\ Standing(p.m, Q, q) /\ Rank(q) = k + 1
    BY <1>2 DEF Allocating
  <2>w. PICK w : w = dir_move(p.m)
    OBVIOUS
  <2>x. PICK x : x = Reach(w)
    OBVIOUS
  <2>2. Held(p.m, Q, C) /\ Layout(Effective(p.m), Q, C)
    BY <2>1 DEF Grown, Held
  <2>3. /\ Held(w, Q, C) /\ Keeps(p.m, w) /\ Standing(w, Q, q)
        /\ OK(w) => Here(w) = At(Effective(p.m), Q, q)
    BY <2>1, <2>2, <2>w, MovesDir
  <2>4. Grown(m, R, C, w, Q, C, Names) /\ Effective(w) = Effective(p.m)
    BY <2>1, <2>3 DEF Grown, Keeps
  <2>5. \/ (~OK(w) \/ Here(w) = Zero) /\ r.m = w /\ r.ended
        \/ OK(w) /\ Here(w) # Zero /\ r.m = x /\ (r.ended <=> ~OK(x))
    BY <1>2, <2>w, <2>x, AllocPassIs
  <2>6. CASE (~OK(w) \/ Here(w) = Zero) /\ r.m = w /\ r.ended
    <3>1. OK(w) => At(Effective(w), Q, q) = Zero
      BY <2>3, <2>4, <2>6
    <3>2. Rank(q) <= k + 1 /\ Before(Effective(w), Q, Rank(q))
      BY <2>1, <2>4
    <3>3. OK(r.m) => \E t \in Slots(Q) :
                       /\ Standing(r.m, Q, t) /\ Rank(t) <= k + 1
                       /\ At(Effective(r.m), Q, t) = Zero /\ Before(Effective(r.m), Q, Rank(t))
      BY <2>1, <2>3, <2>6, <3>1, <3>2
    <3> QED BY <2>4, <2>6, <3>3 DEF Allocating
  <2>7. CASE OK(w) /\ Here(w) # Zero /\ r.m = x /\ (r.ended <=> ~OK(x))
    <3>1. PICK P : Grown(w, Q, C, x, P, C, Names) /\ (OK(x) => Standing(x, P, NextSlot(q)))
      BY <2>3, <2>7, <2>x, NextReaches
    <3>2. Grown(m, R, C, x, P, C, Names)
      BY <2>4, <3>1, GrownTwice
    <3>3. ASSUME OK(x)
          PROVE  /\ Before(Effective(x), P, k + 1 + 1)
                 /\ NextSlot(q) \in Slots(P) /\ Standing(x, P, NextSlot(q)) /\ Rank(NextSlot(q)) = k + 1 + 1
      <4>1. P \in Seq(Clusters) /\ Q \in Seq(Clusters) /\ q \in Slots(P)
        BY <2>1, <2>2, <3>1, ChainsAre DEF Grown, Grows, Held
      <4>2. Rank(NextSlot(q)) = k + 1 + 1
        BY <2>1, <4>1, NextSlotIs
      <4>3. ASSUME NEW t \in Slots(P), Rank(t) < k + 1 + 1
            PROVE  At(Effective(x), P, t) # Zero
        <5>0. Rank(t) \in Nat
          BY <4>1, RankIs
        <5>1. CASE t \in Slots(Q)
          <6>1. Rank(t) < k + 1 \/ t = q
            BY <2>1, <4>1, <4>3, <5>0, <5>1, RankIs
          <6>2. At(Effective(p.m), Q, t) # Zero
            BY <2>1, <2>3, <2>7, <5>1, <6>1 DEF Before
          <6> QED BY <2>4, <3>1, <5>1, <6>2 DEF Grown, Grows
        <5>2. CASE t \notin Slots(Q)
          <6>1. q[1] < t[1]
            BY <2>1, <4>1, <5>2 DEF Slots
          <6>2. Rank(q) < Rank(t)
            BY <4>1, <6>1, RankIs
          <6> QED BY <2>1, <4>3, <5>0, <6>2
        <5> QED BY <5>1, <5>2
      <4> QED BY <3>1, <3>3, <4>2, <4>3 DEF Before, Standing
    <3>4. ~r.ended => OK(x)
      BY <2>7
    <3>5. ~r.ended => /\ OK(r.m) /\ Before(Effective(r.m), P, k + 1 + 1)
                      /\ \E t \in Slots(P) : Standing(r.m, P, t) /\ Rank(t) = k + 1 + 1
      BY <2>7, <3>3, <3>4
    <3>6. ~(r.ended /\ OK(r.m))
      BY <2>7
    <3> QED BY <2>7, <3>2, <3>5, <3>6 DEF Allocating
  <2> QED BY <2>5, <2>6, <2>7
<1> QED BY <1>1, <1>2

(* dir_alloc: the first free slot.  *)
LEMMA AllocatesSlot ==
  ASSUME NEW m, NEW R, NEW C, Held(m, R, C), OK(m), NEW w, w = dir_alloc(m)
  PROVE  \E Q : /\ Grown(m, R, C, w, Q, C, Names)
                /\ OK(w) => \E q \in Slots(Q) :
                     /\ Standing(w, Q, q) /\ Rank(q) <= MaxIndex
                     /\ At(Effective(w), Q, q) = Zero /\ Before(Effective(w), Q, Rank(q))
<1>1. PICK g : /\ dir_alloc(m) = IF g[MaxIndex].ended THEN g[MaxIndex].m ELSE Fail(g[MaxIndex].m, "DENIED")
               /\ g[0] = [m |-> dir_sdi(m), ended |-> FALSE]
               /\ \A k \in 1 .. MaxIndex : g[k] = AllocPass(g[k - 1])
  BY AllocRuns
<1> DEFINE S == {k \in Nat : k \in 0 .. MaxIndex => Allocating(m, R, C, k, g[k])}
<1>2. 0 \in S
  <2>1. g[0].m = dir_sdi(m) /\ ~g[0].ended
    BY <1>1
  <2>2. /\ Held(g[0].m, R, C) /\ Moves(m, g[0].m) /\ OK(g[0].m)
        /\ \E q \in Slots(R) : Standing(g[0].m, R, q) /\ Rank(q) = 1
        /\ \A t \in Slots(R) : Rank(t) \in Nat \ {0}
    BY <2>1, FirstSlot
  <2>3. Before(Effective(g[0].m), R, 0 + 1)
    BY <2>2 DEF Before
  <2>4. Grown(m, R, C, g[0].m, R, C, Names)
    BY <2>2, ChainsAre DEF Grown, Grows, Moves, Held
  <2>5. Allocating(m, R, C, 0, g[0])
    BY <2>1, <2>2, <2>3, <2>4 DEF Allocating
  <2> QED BY <2>5
<1>3. ASSUME NEW k \in Nat, k \in S
      PROVE  k + 1 \in S
  <2>1. SUFFICES ASSUME k + 1 \in 0 .. MaxIndex
                 PROVE  Allocating(m, R, C, k + 1, g[k + 1])
    OBVIOUS
  <2>2. Allocating(m, R, C, k, g[k]) /\ g[k + 1] = AllocPass(g[k])
    BY <1>1, <1>3, <2>1, SizesAssumption
  <2> QED BY <2>2, AllocPassGrows DEF Held
<1>4. Allocating(m, R, C, MaxIndex, g[MaxIndex])
  <2>1. MaxIndex \in Nat /\ MaxIndex \in 0 .. MaxIndex
    BY SizesAssumption
  <2>2. MaxIndex \in S
    <3> HIDE DEF S
    <3> QED BY <1>2, <1>3, <2>1, Induction
  <2> QED BY <2>1, <2>2
<1>5. CASE g[MaxIndex].ended
  BY <1>1, <1>4, <1>5 DEF Allocating
<1>6. CASE ~g[MaxIndex].ended
  <2>1. PICK x, Q : x = g[MaxIndex].m /\ Grown(m, R, C, x, Q, C, Names) /\ w = Fail(x, "DENIED")
    BY <1>1, <1>4, <1>6 DEF Allocating
  <2>2. Held(w, Q, C) /\ Keeps(x, w) /\ w.res = "DENIED"
    BY <2>1, SetsRes DEF Grown
  <2> QED BY <2>1, <2>2 DEF Grown, Keeps, OK
<1> QED BY <1>5, <1>6
------------------------------------------------------------------------------
(* A directory entry is set in the window.  *)
Enter(m, i, e) == [m EXCEPT !.fs.win[i] = e, !.fs.wflag = TRUE]
SlotSet(D, E, R, q, e) == \A t \in Slots(R) : At(E, R, t) = IF t = q THEN e ELSE At(D, R, t)

(* What setting an entry in the window leaves.  *)
LEMMA EnterIs ==
  ASSUME NEW m, NEW i, NEW e, Shape(m), NEW w, w = Enter(m, i, e)
  PROVE  /\ Shape(w) /\ w.disk = m.disk /\ w.cards = m.cards /\ w.fil = m.fil /\ w.dir = m.dir /\ w.res = m.res
         /\ w.fs.winsect = m.fs.winsect /\ w.fs.win = [m.fs.win EXCEPT ![i] = e]
         /\ w.fs.fs_type = m.fs.fs_type /\ Dirty(w)
<1>1. /\ w.disk = m.disk /\ w.cards = m.cards /\ w.fil = m.fil /\ w.dir = m.dir /\ w.res = m.res
      /\ DOMAIN w = DOMAIN m
      /\ w.fs = [m.fs EXCEPT !.win = [m.fs.win EXCEPT ![i] = e], !.wflag = TRUE]
  BY DEF Shape, Enter
<1> QED BY <1>1 DEF Shape, Dirty

(* An entry is no unit of data.  *)
LEMMA EntryIs ==
  ASSUME NEW n \in Names, NEW a \in Nat, NEW z \in Nat, NEW e, e = Entry(n, a, z)
  PROVE  ~IsUnit(e) /\ e[1] = n /\ e[2] = a /\ e[3] = z
BY DEF Entry, IsUnit, Zero

(* An entry is set in a slot that is free or has the name already.  *)
LEMMA Enters ==
  ASSUME NEW w, NEW R, NEW C, Held(w, R, C), NEW q \in Slots(R), NEW n \in Names, NEW a \in Nat, NEW z \in Nat,
         Holds(a, z, C[n]), Before(Effective(w), R, Rank(q)),
         \A t \in Slots(R) : Taking(Effective(w), R, t, n) => t = q,
         At(Effective(w), R, q) = Zero \/ Taking(Effective(w), R, q, n),
         w.fs.winsect = clust2sect(R[q[1]]), w.fs.win = Effective(w)[clust2sect(R[q[1]])],
         NEW e, e = Entry(n, a, z), NEW v, v = Enter(w, q[2], e)
  PROVE  /\ Held(v, R, C) /\ SlotSet(Effective(w), Effective(v), R, q, e)
         /\ v.fil = w.fil /\ v.fs.fs_type = w.fs.fs_type /\ v.dir = w.dir /\ v.res = w.res
         /\ v.fs.winsect = clust2sect(R[q[1]]) /\ v.fs.win = Effective(v)[clust2sect(R[q[1]])]
<1> DEFINE D == Effective(w)
           c == R[q[1]]
           b == v.fs.win
<1>d. /\ Layout(D, R, C) /\ IsDisk(D) /\ Shape(w)
      /\ q[1] \in 1 .. Len(R) /\ q[2] \in 1 .. DirPer /\ c \in Clusters
      /\ c \in Members(R) /\ q[2] \in DOMAIN D[clust2sect(c)]
  BY SlotsAre DEF Held, Raw, Layout
<1>1. /\ Shape(v) /\ v.disk = w.disk /\ v.cards = w.cards /\ v.fil = w.fil /\ v.dir = w.dir /\ v.res = w.res
      /\ v.fs.winsect = clust2sect(c) /\ b = [D[clust2sect(c)] EXCEPT ![q[2]] = e]
      /\ v.fs.fs_type = w.fs.fs_type /\ Dirty(v)
  <2> PICK i : i = q[2]
    OBVIOUS
  <2>1. v = Enter(w, i, e)
    OBVIOUS
  <2> QED BY <1>d, <2>1, EnterIs
<1>2. /\ DOMAIN b = DOMAIN D[clust2sect(c)]
      /\ \A i \in DOMAIN b : b[i] = IF i = q[2] THEN e ELSE D[clust2sect(c)][i]
  BY <1>d, <1>1
<1>3. /\ Layout(SetData(D, c, b), R, C)
      /\ \A t \in Slots(R) : At(SetData(D, c, b), R, t) = IF t = q THEN e ELSE At(D, R, t)
  <2>1. /\ \A t \in Slots(R) : Rank(t) < Rank(q) => At(D, R, t) # Zero
        /\ \A i \in DOMAIN b : b[i] = IF i = q[2] THEN Entry(n, a, z) ELSE D[clust2sect(c)][i]
    BY <1>2 DEF Before
  <2> QED BY <1>d, <1>2, <2>1, LayoutEnters
<1>4. Held(v, R, C) /\ Effective(v) = SetData(D, c, b)
  <2>1. ClearTo(w, c)
    BY DEF ClearTo
  <2> QED BY <1>1, <1>d, <1>3, <2>1, WindowSet
<1>5. Effective(v)[clust2sect(c)] = b
  <2>1. DOMAIN b \in {1 .. DirPer, 1 .. SS}
    BY <1>d, <1>2 DEF IsDisk
  <2> QED BY <1>d, <1>4, <2>1, SetDataIs
<1> QED BY <1>1, <1>3, <1>4, <1>5 DEF SlotSet

(* A slot that was free is taken: the open files keep their entries.  *)
LEMMA FilesStay ==
  ASSUME NEW D, NEW E, NEW R, NEW C, C \in [Names -> Seq(Clusters)], NEW q, NEW e, SlotSet(D, E, R, q, e),
         At(D, R, q) = Zero, NEW fil, FilesOk(D, R, C, fil)
  PROVE  FilesOk(E, R, C, fil)
<1>1. SUFFICES ASSUME NEW f \in Files, fil[f].fs
               PROVE  FileOk(E, R, C[NameOf(f)], fil[f], NameOf(f))
  BY DEF FilesOk
<1>2. FileOk(D, R, C[NameOf(f)], fil[f], NameOf(f))
  BY <1>1 DEF FilesOk
<1>3. \E t \in Slots(R) : Place(E, R, t, fil[f], NameOf(f))
  BY <1>2 DEF FileOk, Place, Taking, SlotSet, IsUnit
<1> QED BY <1>2, <1>3 DEF FileOk

(* dir_register: a name that has no entry is entered.  *)
Survives(m, R, C, w, Q, B) ==
  /\ Held(w, Q, B) /\ w.fil = m.fil /\ w.fs.fs_type = m.fs.fs_type
  /\ FilesOk(Effective(m), R, C, m.fil) => FilesOk(Effective(w), Q, B, w.fil)

(* A call that lengthens chains keeps what the open files depend on.  *)
LEMMA GrownSurvives ==
  ASSUME NEW m, NEW R, NEW C, Layout(Effective(m), R, C), NEW w, NEW Q, NEW B, Grown(m, R, C, w, Q, B, Names)
  PROVE  Survives(m, R, C, w, Q, B)
<1>1. \A f \in Files : NameOf(f) \in Names
  BY DEF NameOf, Names
<1>2. FilesOk(Effective(m), R, C, m.fil) => FilesOk(Effective(w), Q, B, m.fil)
  BY <1>1, FilesCarry
<1> QED BY <1>2 DEF Survives, Grown

RegisterIs(w, a, v, n) == w = IF ~OK(a) THEN a ELSE IF ~OK(v) THEN v ELSE Enter(v, v.dir[2], Entry(n, 0, 0))

(* dir_register, written out.  *)
LEMMA RegisterSteps ==
  ASSUME NEW m, NEW n, NEW a, a = dir_alloc(m), NEW v, v = dir_move(a), NEW w, w = dir_register(m, n)
  PROVE  RegisterIs(w, a, v, n)
BY DEF dir_register, RegisterIs, Then, Enter

(* dir_register: an entry for a name that has none.  *)
LEMMA Registers ==
  ASSUME NEW m, NEW R, NEW C, Held(m, R, C), OK(m), NEW n \in Names, None(Effective(m), R, n, MaxIndex),
         NEW w, w = dir_register(m, n)
  PROVE  \E Q : /\ Survives(m, R, C, w, Q, C)
                /\ OK(w) => \E q \in Slots(Q) : FoundAt(w, Effective(w), Q, q, n) /\ Here(w) = Entry(n, 0, 0)
<1>a. PICK a : a = dir_alloc(m)
  OBVIOUS
<1>v. PICK v : v = dir_move(a)
  OBVIOUS
<1>i. RegisterIs(w, a, v, n)
  BY <1>a, <1>v, RegisterSteps
<1>d. Layout(Effective(m), R, C)
  BY DEF Held
<1>1. PICK Q : /\ Grown(m, R, C, a, Q, C, Names)
               /\ OK(a) => \E q \in Slots(Q) :
                     /\ Standing(a, Q, q) /\ Rank(q) <= MaxIndex
                     /\ At(Effective(a), Q, q) = Zero /\ Before(Effective(a), Q, Rank(q))
  BY <1>a, AllocatesSlot
<1>2. CASE ~OK(a)
  <2>1. w = a
    BY <1>2, <1>i DEF RegisterIs
  <2> QED BY <1>1, <1>2, <1>d, <2>1, GrownSurvives
<1>3. CASE OK(a)
  <2>1. PICK q \in Slots(Q) :
               /\ Standing(a, Q, q) /\ Rank(q) <= MaxIndex
               /\ At(Effective(a), Q, q) = Zero /\ Before(Effective(a), Q, Rank(q))
    BY <1>1, <1>3
  <2>2. /\ Held(v, Q, C) /\ Keeps(a, v) /\ Standing(v, Q, q)
        /\ OK(v) => v.fs.winsect = clust2sect(Q[q[1]]) /\ v.fs.win = Effective(a)[clust2sect(Q[q[1]])]
    BY <1>1, <1>3, <1>v, <2>1, MovesDir DEF Grown
  <2>3. Effective(v) = Effective(a) /\ Grown(m, R, C, v, Q, C, Names)
    BY <1>1, <2>2 DEF Grown, Keeps
  <2>4. CASE ~OK(v)
    <3>1. w = v
      BY <1>3, <1>i, <2>4 DEF RegisterIs
    <3> QED BY <1>d, <2>3, <2>4, <3>1, GrownSurvives
  <2>5. CASE OK(v)
    <3>1. PICK e : e = Entry(n, 0, 0)
      OBVIOUS
    <3>2. w = Enter(v, q[2], e)
      BY <1>3, <1>i, <2>2, <2>5, <3>1 DEF RegisterIs, Standing
    <3>3. \A t \in Slots(Q) : ~Taking(Effective(v), Q, t, n)
      <4>1. SUFFICES ASSUME NEW t \in Slots(Q), Taking(Effective(v), Q, t, n)
                     PROVE  FALSE
        OBVIOUS
      <4>2. t \in Slots(R) /\ Taking(Effective(m), R, t, n)
        BY <2>3, <4>1 DEF Grown, Grows, Taking
      <4>3. ~(Rank(t) <= MaxIndex)
        BY <4>2 DEF None
      <4>4. Rank(t) \in Nat /\ Rank(q) \in Nat /\ MaxIndex \in Nat
        BY <2>2, <4>1, ChainsAre, RankIs, SizesAssumption DEF Held
      <4>5. Rank(q) < Rank(t)
        BY <2>1, <4>3, <4>4
      <4>6. IsUnit(At(Effective(v), Q, t))
        BY <2>1, <2>2, <2>3, <4>5 DEF Held, Layout, Directory
      <4> QED BY <4>1, <4>6 DEF Taking
    <3>4. Holds(0, 0, C[n])
      BY DEF Holds
    <3>5. /\ Held(w, Q, C) /\ SlotSet(Effective(v), Effective(w), Q, q, e)
          /\ w.fil = v.fil /\ w.fs.fs_type = v.fs.fs_type /\ w.dir = v.dir /\ w.res = v.res
          /\ w.fs.winsect = clust2sect(Q[q[1]]) /\ w.fs.win = Effective(w)[clust2sect(Q[q[1]])]
      <4>1. /\ Before(Effective(v), Q, Rank(q)) /\ At(Effective(v), Q, q) = Zero
            /\ v.fs.winsect = clust2sect(Q[q[1]]) /\ v.fs.win = Effective(v)[clust2sect(Q[q[1]])]
        BY <2>1, <2>2, <2>3, <2>5
      <4>2. 0 \in Nat
        OBVIOUS
      <4> QED BY <2>2, <3>1, <3>2, <3>3, <3>4, <4>1, <4>2, Enters
    <3>6. Survives(m, R, C, w, Q, C)
      <4>1. Survives(m, R, C, v, Q, C)
        BY <1>d, <2>3, GrownSurvives
      <4>2. C \in [Names -> Seq(Clusters)]
        BY <1>d, ChainsAre
      <4>3. FilesOk(Effective(v), Q, C, v.fil) => FilesOk(Effective(w), Q, C, v.fil)
        BY <2>1, <2>3, <3>5, <4>2, FilesStay
      <4> QED BY <3>5, <4>1, <4>3 DEF Survives
    <3>7. FoundAt(w, Effective(w), Q, q, n) /\ Here(w) = Entry(n, 0, 0)
      <4>1. At(Effective(w), Q, q) = e /\ ~IsUnit(e) /\ e[1] = n
        <5>1. 0 \in Nat
          OBVIOUS
        <5> QED BY <3>1, <3>5, <5>1, EntryIs DEF SlotSet
      <4>2. Standing(w, Q, q) /\ w.dir[2] = q[2]
        BY <2>2, <3>5 DEF Standing
      <4> QED BY <3>1, <3>5, <4>1, <4>2 DEF FoundAt, Taking, Here, At
    <3> QED BY <3>6, <3>7
  <2> QED BY <2>4, <2>5
<1> QED BY <1>2, <1>3
==============================================================================
