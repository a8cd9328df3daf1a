--------------------------- MODULE Storage_proofs ----------------------------
(***************************************************************************)
(* What the tasks do to the card, call by call, for every number of calls, *)
(* of losses of power and of commands refused.                             *)
(***************************************************************************)
EXTENDS Storage, FatFs_proofs

(* The entries of a name are those of its slot.  *)
LEMMA NamedIs ==
  ASSUME NEW D, NEW R, NEW C, Layout(D, R, C), NEW n \in Names
  PROVE  \A e \in Named(D, n) : \E p \in Slots(R) : Taking(D, R, p, n) /\ e = At(D, R, p)
<1>1. SUFFICES ASSUME NEW e \in Named(D, n)
               PROVE  \E p \in Slots(R) : Taking(D, R, p, n) /\ e = At(D, R, p)
  OBVIOUS
<1>2. e \in Entries(D) /\ e[1] = n
  BY DEF Named
<1>3. Chain(D, dirbase) = R /\ R \in Seq(Clusters)
  BY ChainIs DEF Layout, Directory, Chained
<1>4. ClustersOf(D, dirbase) = {R[i] : i \in DOMAIN R} /\ DOMAIN R = 1 .. Len(R)
  BY <1>3 DEF ClustersOf
<1>5. PICK k \in 1 .. Len(R) : /\ e \in {D[clust2sect(R[k])][i] : i \in DOMAIN D[clust2sect(R[k])]}
                               /\ e # Zero
  BY <1>2, <1>4 DEF Entries
<1>6. PICK i \in DOMAIN D[clust2sect(R[k])] : e = D[clust2sect(R[k])][i]
  BY <1>5
<1>7. ~IsUnit(e)
  BY <1>2, <1>5 DEF IsUnit
<1>8. i \in 1 .. DirPer
  <2>1. DirSector(D[clust2sect(R[k])])
    BY DEF Layout, Directory
  <2> QED BY <1>6, <1>7, <2>1 DEF DirSector
<1>9. PICK p : p = <<k, i>>
  OBVIOUS
<1>10. p \in Slots(R) /\ At(D, R, p) = e
  BY <1>6, <1>8, <1>9 DEF Slots, At
<1> QED BY <1>2, <1>7, <1>10 DEF Taking

(* A name has one entry at most.  *)
LEMMA OneEntry ==
  ASSUME NEW D, NEW R, NEW C, Layout(D, R, C), NEW n \in Names
  PROVE  /\ \A e, g \in Named(D, n) : e = g
         /\ Cardinality(Named(D, n)) <= 1
<1>1. ASSUME NEW e \in Named(D, n), NEW g \in Named(D, n)
      PROVE  e = g
  <2>1. PICK p \in Slots(R) : Taking(D, R, p, n) /\ e = At(D, R, p)
    BY NamedIs
  <2>2. PICK q \in Slots(R) : Taking(D, R, q, n) /\ g = At(D, R, q)
    BY NamedIs
  <2>3. p = q
    BY <2>1, <2>2 DEF Layout, Directory
  <2> QED BY <2>1, <2>2, <2>3
<1>2. CASE Named(D, n) = {}
  BY <1>2, FS_EmptySet
<1>3. CASE Named(D, n) # {}
  <2>1. PICK e : e \in Named(D, n)
    BY <1>3
  <2>2. Named(D, n) = {e}
    BY <1>1, <2>1
  <2>3. Cardinality({e}) = 1
    BY FS_Singleton
  <2> QED BY <2>2, <2>3
<1> QED BY <1>1, <1>2, <1>3

(* The chain of an entry is that of its file, or empty.  *)
LEMMA EntrySound ==
  ASSUME NEW D, NEW R, NEW C, Layout(D, R, C), NEW n \in Names, NEW e \in Named(D, n)
  PROVE  Sound(D, e) /\ ClustersOf(D, e[2]) \subseteq Members(C[n])
<1>1. PICK p \in Slots(R) : Taking(D, R, p, n) /\ e = At(D, R, p)
  BY NamedIs
<1>2. Holds(e[2], e[3], C[n])
  BY <1>1 DEF Layout, Entering
<1>3. Chained(D, C[n])
  BY DEF Layout, Chains
<1>4. CASE e[2] = 0
  <2>1. e[3] = 0
    BY <1>2, <1>4 DEF Holds
  <2>2. ClustersOf(D, 0) = {}
    BY NoChain DEF ClustersOf
  <2> QED BY <1>4, <2>1, <2>2 DEF Sound
<1>5. CASE e[2] # 0
  <2>1. C[n] # <<>> /\ e[2] = C[n][1] /\ e[3] <= SS * Len(C[n])
    BY <1>2, <1>5 DEF Holds
  <2>2. Chain(D, e[2]) = C[n]
    BY <1>3, <2>1, ChainIs
  <2>3. C[n] \in Seq(Clusters) /\ Len(C[n]) \in Nat \ {0} /\ DOMAIN C[n] = 1 .. Len(C[n])
    BY <1>3, <2>1 DEF Chained
  <2>4. Fat(D, C[n][Len(C[n])]) = EOC
    BY <1>3, <2>3 DEF Chained
  <2>5. ClustersOf(D, e[2]) = Members(C[n])
    BY <2>2, <2>3 DEF ClustersOf, Members
  <2>6. Cardinality(Members(C[n])) = Len(C[n])
    BY <1>3, ChainFits
  <2>7. SoundChain(D, e[2])
    BY <2>1, <2>2, <2>4 DEF SoundChain
  <2> QED BY <1>5, <2>1, <2>5, <2>6, <2>7 DEF Sound
<1> QED BY <1>4, <1>5

(* A volume is one a reader can follow.  *)
LEMMA VolumeSound ==
  ASSUME Volume(card)
  PROVE  VolumeConsistent
<1>1. PICK R, C : Layout(card, R, C)
  BY DEF Volume
<1>2. Chained(card, R) /\ R # <<>> /\ R[1] = dirbase
  BY <1>1 DEF Layout, Directory
<1>3. Chain(card, dirbase) = R /\ R \in Seq(Clusters) /\ DOMAIN R = 1 .. Len(R) /\ Len(R) \in Nat \ {0}
  <2>1. R \in Seq(Clusters)
    BY <1>2 DEF Chained
  <2>2. Chain(card, dirbase) = R
    BY <1>2, ChainIs
  <2> QED BY <1>2, <2>1, <2>2
<1>4. SoundChain(card, dirbase)
  <2>1. Fat(card, R[Len(R)]) = EOC
    <3>1. PICK i : i = Len(R) /\ i \in 1 .. Len(R)
      BY <1>3
    <3>2. \A k \in 1 .. Len(R) : Fat(card, R[k]) = IF k = Len(R) THEN EOC ELSE R[k + 1]
      BY <1>2 DEF Chained
    <3>3. Fat(card, R[i]) = EOC
      BY <3>1, <3>2
    <3> QED BY <3>1, <3>3
  <2> QED BY <1>2, <1>3, <2>1 DEF SoundChain
<1>5. ClustersOf(card, dirbase) = Members(R)
  BY <1>3 DEF ClustersOf, Members
<1>6. "csv" \in Names /\ "log" \in Names /\ Names = {"csv", "log"}
  BY DEF Names
<1>7. Cardinality(Named(card, "csv")) <= 1 /\ Cardinality(Named(card, "log")) <= 1
  BY <1>1, <1>6, OneEntry
<1>8. ASSUME NEW e \in Named(card, "csv") \cup Named(card, "log")
      PROVE  Sound(card, e) /\ ClustersOf(card, e[2]) \cap ClustersOf(card, dirbase) = {}
  <2>1. PICK n \in Names : e \in Named(card, n)
    BY <1>6
  <2>2. Sound(card, e) /\ ClustersOf(card, e[2]) \subseteq Members(C[n])
    BY <1>1, <2>1, EntrySound
  <2>3. Members(C[n]) \cap Members(R) = {}
    BY <1>1 DEF Layout, Chains
  <2> QED BY <1>5, <2>2, <2>3
<1>9. ASSUME NEW e \in Named(card, "csv") \cup Named(card, "log"),
             NEW g \in Named(card, "csv") \cup Named(card, "log"), e # g
      PROVE  ClustersOf(card, e[2]) \cap ClustersOf(card, g[2]) = {}
  <2>1. PICK n \in Names, o \in Names : e \in Named(card, n) /\ g \in Named(card, o)
    BY <1>6
  <2>2. n # o
    BY <1>1, <1>9, <2>1, OneEntry
  <2>3. ClustersOf(card, e[2]) \subseteq Members(C[n]) /\ ClustersOf(card, g[2]) \subseteq Members(C[o])
    BY <1>1, <2>1, EntrySound
  <2>4. Members(C[n]) \cap Members(C[o]) = {}
    BY <1>1, <2>2 DEF Layout, Chains
  <2> QED BY <2>3, <2>4
<1> QED BY <1>4, <1>7, <1>8, <1>9 DEF VolumeConsistent
------------------------------------------------------------------------------
(* The card as it is formatted.  *)
LEMMA FormattedIs ==
  /\ \A c \in Clusters : /\ Formatted[FatSect(c)] \in [EntriesOf(c) -> Nat]
                         /\ Fat(Formatted, c) = IF c = dirbase THEN EOC ELSE 0
                         /\ Formatted[clust2sect(c)] = IF c = dirbase THEN NoDir ELSE Blank
  /\ Sectors \subseteq DOMAIN Formatted
<1>1. ASSUME NEW c \in Clusters
      PROVE  /\ Formatted[FatSect(c)] \in [EntriesOf(c) -> Nat]
             /\ Fat(Formatted, c) = IF c = dirbase THEN EOC ELSE 0
             /\ Formatted[clust2sect(c)] = IF c = dirbase THEN NoDir ELSE Blank
  <2>1. FatSect(c) \in Sectors /\ clust2sect(c) \in Sectors
    BY DEF Sectors
  <2>2. FatSect(c)[1] = "fat" /\ clust2sect(c)[1] = "data" /\ (clust2sect(c) = clust2sect(dirbase) <=> c = dirbase)
    BY DEF FatSect, clust2sect
  <2>3. Formatted[FatSect(c)] = [d \in EntriesOf(c) |-> IF d = dirbase THEN EOC ELSE 0]
    BY <2>1, <2>2 DEF Formatted, EntriesOf
  <2>4. Formatted[clust2sect(c)] = IF c = dirbase THEN NoDir ELSE Blank
    BY <2>1, <2>2 DEF Formatted
  <2>5. EOC \in Nat /\ c \in EntriesOf(c)
    BY SizesAssumption DEF EOC, EntriesOf
  <2> QED BY <2>3, <2>4, <2>5 DEF Fat
<1> QED BY <1>1 DEF Formatted

(* It is a volume whose directory has one cluster and no entry.  *)
LEMMA FormattedVolume ==
  \E C : Layout(Formatted, <<dirbase>>, C)
<1>r. PICK R : R = <<dirbase>>
  OBVIOUS
<1>c. PICK C : C = [n \in Names |-> <<>>]
  OBVIOUS
<1>1. dirbase \in Clusters /\ DirPer \in Nat /\ SS \in Nat
  BY SizesAssumption DEF dirbase, Clusters
<1>2. R \in Seq(Clusters) /\ Len(R) = 1 /\ R[1] = dirbase /\ Members(R) = {dirbase} /\ R # <<>>
  BY <1>1, <1>r DEF Members
<1>3. IsDisk(Formatted)
  <2>1. DOMAIN NoDir = 1 .. DirPer /\ DOMAIN Blank = 1 .. SS
    BY DEF NoDir, Blank
  <2> QED BY <2>1, FormattedIs DEF IsDisk
<1>4. Chained(Formatted, R)
  BY <1>1, <1>2, FormattedIs DEF Chained
<1>5. \A p \in Slots(R) : At(Formatted, R, p) = Zero
  <2>1. SUFFICES ASSUME NEW p \in Slots(R)
                 PROVE  At(Formatted, R, p) = Zero
    OBVIOUS
  <2>2. p[1] = 1 /\ p[2] \in 1 .. DirPer
    BY <1>2 DEF Slots
  <2>3. Formatted[clust2sect(R[p[1]])] = NoDir
    BY <1>1, <1>2, <2>2, FormattedIs
  <2> QED BY <2>2, <2>3 DEF At, NoDir
<1>6. \A p \in Slots(R), n \in Names : ~Taking(Formatted, R, p, n)
  BY <1>5 DEF Taking, IsUnit
<1>7. Directory(Formatted, R)
  <2>1. \A k \in 1 .. Len(R) : DirSector(Formatted[clust2sect(R[k])])
    <3>1. DirSector(NoDir)
      BY DEF DirSector, NoDir, IsUnit
    <3> QED BY <1>1, <1>2, <3>1, FormattedIs
  <2>2. \A q \in Slots(R) : IsUnit(At(Formatted, R, q))
    BY <1>5 DEF IsUnit
  <2> QED BY <1>2, <1>4, <1>6, <2>1, <2>2 DEF Directory
<1>8. Chains(Formatted, R, C)
  <2>1. \A n \in Names : C[n] = <<>>
    BY <1>c
  <2>2. Chained(Formatted, <<>>) /\ Members(<<>>) = {}
    BY DEF Chained, Members
  <2>3. C \in [Names -> Seq(Clusters)]
    BY <1>c
  <2> QED BY <2>1, <2>2, <2>3 DEF Chains
<1>9. \A c \in Clusters \ Members(R) : Plain(Formatted[clust2sect(c)])
  <2>1. Plain(Blank)
    BY DEF Plain, Blank, IsUnit
  <2> QED BY <1>2, <2>1, FormattedIs
<1> QED BY <1>3, <1>6, <1>7, <1>8, <1>9, <1>r DEF Layout, Entering
------------------------------------------------------------------------------
(* A machine at the beginning of a call.  *)
Made(D, fs, fil, ready, selected, q) ==
  [disk |-> D, cards |-> {D}, fs |-> fs, fil |-> fil, ready |-> ready, selected |-> selected,
   res |-> "OK", val |-> 0, dir |-> <<0, 0>>, fail |-> q, refused |-> FALSE]

(* The next call begins where the last one ended.  *)
LEMMA MadeGood ==
  ASSUME NEW m, GoodMachine(m), NEW D, D = m.disk, NEW fs, fs = m.fs, NEW fil, fil = m.fil,
         NEW r, NEW s, NEW q, NEW u, u = Made(D, fs, fil, r, s, q)
  PROVE  GoodMachine(u)
<1>1. PICK R, C : Good(m, R, C)
  BY DEF GoodMachine
<1>2. u.disk = m.disk /\ u.cards = {m.disk} /\ u.fs = m.fs /\ u.fil = m.fil
  BY DEF Made
<1>3. Shape(u)
  BY <1>1, <1>2 DEF Made, Shape, Good, Held, Raw
<1>4. Effective(u) = Effective(m)
  BY <1>2 DEF Effective
<1>5. Window(u, Members(R))
  BY <1>1, <1>2 DEF Window, Good, Held, Raw
<1>6. Good(u, R, C)
  BY <1>1, <1>2, <1>3, <1>4, <1>5 DEF Good, Held, Raw
<1> QED BY <1>6 DEF GoodMachine

(* The first call after a loss of power begins with a volume.  *)
LEMMA FreshGood ==
  ASSUME NEW D, Volume(D), NEW fs, fs = Unmounted, NEW fil, fil = Booted.fil,
         NEW r, NEW s, NEW q, NEW u, u = Made(D, fs, fil, r, s, q)
  PROVE  GoodMachine(u)
<1>1. PICK R, C : Layout(D, R, C)
  BY DEF Volume
<1>2. u.disk = D /\ u.cards = {D} /\ u.fs = Unmounted /\ u.fil = [f \in Files |-> NoFile]
  BY DEF Made, Booted, Files
<1>3. Unmounted.fs_type = 0 /\ ~Unmounted.wflag /\ Unmounted.winsect = Nowhere /\ Unmounted.wflag \in BOOLEAN
  BY DEF Unmounted
<1>4. Shape(u)
  BY <1>2 DEF Made, Shape, Unmounted, NoFile
<1>5. Effective(u) = D
  BY <1>2, <1>3 DEF Effective
<1>6. Nowhere \notin Cached(Members(R))
  BY DEF Nowhere, Cached, FatSect, clust2sect
<1>7. Window(u, Members(R))
  BY <1>2, <1>3, <1>6 DEF Window
<1>8. VolumeIn(D, Members(R))
  BY <1>1 DEF VolumeIn
<1>9. Good(u, R, C)
  BY <1>1, <1>2, <1>3, <1>4, <1>5, <1>7, <1>8 DEF Good, Held, Raw
<1> QED BY <1>9 DEF GoodMachine
------------------------------------------------------------------------------
(* Whatever has happened, the card and what the RAM knows of it are those  *)
(* of a good machine.                                                      *)
StorageInv ==
  \E m : GoodMachine(m) /\ m.disk = card /\ m.fs = ram.fs /\ m.fil = ram.fil

(* The invariant implies the property.  *)
LEMMA InvSound ==
  ASSUME StorageInv
  PROVE  VolumeConsistent
<1>1. Volume(card)
  BY DEF StorageInv, GoodMachine, Good, Held, Raw
<1> QED BY <1>1, VolumeSound

(* A call begins with a good machine.  *)
LEMMA Machines ==
  ASSUME StorageInv, NEW q, NEW u, u = Machine(q)
  PROVE  GoodMachine(u) /\ OK(u)
<1>1. PICK m : GoodMachine(m) /\ m.disk = card /\ m.fs = ram.fs /\ m.fil = ram.fil
  BY DEF StorageInv
<1>2. u = Made(card, ram.fs, ram.fil, ram.ready, ram.selected, q)
  BY DEF Machine, Made
<1>3. GoodMachine(u)
  BY <1>1, <1>2, MadeGood
<1>4. OK(u)
  BY DEF Machine, OK
<1> QED BY <1>3, <1>4

(* Init.  *)
LEMMA InvStarts ==
  ASSUME StorageInit
  PROVE  StorageInv
<1>1. Volume(card)
  BY FormattedVolume DEF StorageInit, Volume
<1>2. PICK u : u = Made(card, Unmounted, Booted.fil, FALSE, FALSE, 0)
  OBVIOUS
<1>3. GoodMachine(u)
  BY <1>1, <1>2, FreshGood
<1>4. u.disk = card /\ u.fs = ram.fs /\ u.fil = ram.fil
  BY <1>2 DEF Made, StorageInit, Booted
<1> QED BY <1>3, <1>4 DEF StorageInv

(* The loss of power leaves a content the card had in the call.  *)
LEMMA InvSurvives ==
  ASSUME NEW m, GoodMachine(m), Crash(m)
  PROVE  StorageInv'
<1>1. Volume(card') /\ ram' = Booted
  BY DEF Crash, GoodMachine, Good, Held, Raw
<1>2. PICK u : u = Made(card', Unmounted, Booted.fil, FALSE, FALSE, 0)
  OBVIOUS
<1>3. GoodMachine(u)
  BY <1>1, <1>2, FreshGood
<1>4. u.disk = card' /\ u.fs = ram'.fs /\ u.fil = ram'.fil
  BY <1>1, <1>2 DEF Made, Booted
<1> QED BY <1>3, <1>4 DEF StorageInv

(* A call returns.  *)
LEMMA InvReturns ==
  ASSUME NEW m, GoodMachine(m), NEW res, Returns(m, res)
  PROVE  StorageInv'
<1>1. m.disk = card' /\ m.fs = ram'.fs /\ m.fil = ram'.fil
  BY DEF Returns
<1> QED BY <1>1 DEF StorageInv
------------------------------------------------------------------------------
(* The calls, as the tasks make them.  *)
LEMMA SdSteps ==
  ASSUME StorageInv, SD_DateFileAppend
  PROVE  StorageInv'
<1>f. "fp" \in Files /\ NameOf("fp") = "csv"
  BY DEF Files, NameOf
<1>r. ASSUME NEW m, GoodMachine(m), Crash(m) \/ \E s : SdReturns(m, s)
      PROVE  StorageInv'
  BY <1>r, InvSurvives, InvReturns DEF SdReturns
<1>1. CASE SdMount
  <2>1. PICK q, m : m = f_mount(Machine(q)) /\ (Crash(m) \/ Returns(m, m.res))
    BY <1>1 DEF SdMount
  <2>2. GoodMachine(m)
    BY <2>1, Machines, Mounts
  <2> QED BY <2>1, <2>2, InvSurvives, InvReturns
<1>2. CASE SdOpen
  <2>1. PICK q, m : m = f_open(Machine(q), "fp", "csv", FALSE) /\ (Crash(m) \/ \E s : SdReturns(m, s))
    BY <1>2 DEF SdOpen
  <2>2. GoodMachine(m)
    BY <1>f, <2>1, Machines, OpensFile
  <2> QED BY <1>r, <2>1, <2>2
<1>3. CASE SdRead
  <2>1. PICK q, m : m = f_read(Machine(q), "fp") /\ (Crash(m) \/ \E s : SdReturns(m, s))
    BY <1>3 DEF SdRead
  <2>2. GoodMachine(m)
    BY <1>f, <2>1, Machines, Reads
  <2> QED BY <1>r, <2>1, <2>2
<1>4. CASE SdCloseRead
  <2>1. PICK q, m : m = f_close(Machine(q), "fp") /\ (Crash(m) \/ \E s : SdReturns(m, s))
    BY <1>4 DEF SdCloseRead
  <2>2. GoodMachine(m)
    BY <1>f, <2>1, Machines, Closes DEF GoodMachine
  <2> QED BY <1>r, <2>1, <2>2
<1>5. CASE SdAppend
  <2>1. PICK q, m : m = f_append(Machine(q), "fp", "csv") /\ (Crash(m) \/ \E s : SdReturns(m, s))
    BY <1>5 DEF SdAppend
  <2>2. GoodMachine(m)
    BY <1>f, <2>1, Machines, Appends
  <2> QED BY <1>r, <2>1, <2>2
<1>6. CASE SdHeader
  <2>1. PICK q, m : m = f_write(Machine(q), "fp", Header) /\ (Crash(m) \/ \E s : SdReturns(m, s))
    BY <1>6 DEF SdHeader
  <2>2. Units({<<"header", 0>>}) /\ Header \in Seq({<<"header", 0>>})
    BY DEF Units, IsUnit, Names, Header
  <2>3. GoodMachine(m)
    BY <1>f, <2>1, <2>2, Machines, Writes
  <2> QED BY <1>r, <2>1, <2>3
<1>7. CASE SdPoint
  <2>1. PICK q, m : m = f_write(Machine(q), "fp", Point(point)) /\ (Crash(m) \/ \E s : SdReturns(m, s))
    BY <1>7 DEF SdPoint
  <2>2. Units({<<"point", point>>}) /\ Point(point) \in Seq({<<"point", point>>})
    BY DEF Units, IsUnit, Names, Point
  <2>3. GoodMachine(m)
    BY <1>f, <2>1, <2>2, Machines, Writes
  <2> QED BY <1>r, <2>1, <2>3
<1>8. CASE SdClose
  <2>1. PICK q, m : m = f_close(Machine(q), "fp") /\ (Crash(m) \/ \E s : SdReturns(m, s))
    BY <1>8 DEF SdClose
  <2>2. GoodMachine(m)
    BY <1>f, <2>1, Machines, Closes DEF GoodMachine
  <2> QED BY <1>r, <2>1, <2>2
<1> QED BY <1>1, <1>2, <1>3, <1>4, <1>5, <1>6, <1>7, <1>8 DEF SD_DateFileAppend

(* LOG, call by call.  *)
LEMMA LogSteps ==
  ASSUME StorageInv, LOG
  PROVE  StorageInv'
<1>f. "fp_log" \in Files /\ NameOf("fp_log") = "log"
  BY DEF Files, NameOf
<1>r. ASSUME NEW m, GoodMachine(m), Crash(m) \/ \E s : LogReturns(m, s)
      PROVE  StorageInv'
  BY <1>r, InvSurvives, InvReturns DEF LogReturns
<1>1. CASE LogMount
  <2>1. PICK q, m : m = f_mount(Machine(q)) /\ (Crash(m) \/ \E s : LogReturns(m, s))
    BY <1>1 DEF LogMount
  <2>2. GoodMachine(m)
    BY <2>1, Machines, Mounts
  <2> QED BY <1>r, <2>1, <2>2
<1>2. CASE LogAppend
  <2>1. PICK q, m : m = f_append(Machine(q), "fp_log", "log") /\ (Crash(m) \/ \E s : LogReturns(m, s))
    BY <1>2 DEF LogAppend
  <2>2. GoodMachine(m)
    BY <1>f, <2>1, Machines, Appends
  <2> QED BY <1>r, <2>1, <2>2
<1>3. CASE LogWrite
  <2>1. PICK q, m : m = f_write(Machine(q), "fp_log", Line) /\ (Crash(m) \/ \E s : LogReturns(m, s))
    BY <1>3 DEF LogWrite
  <2>2. PICK T : T = {<<"line", i>> : i \in 1 .. LogLine}
    OBVIOUS
  <2>3. Units(T) /\ Line \in Seq(T)
    <3>1. Units(T)
      BY <2>2 DEF Units, IsUnit, Names
    <3>2. Line \in [1 .. LogLine -> T]
      BY <2>2 DEF Line
    <3> QED BY <3>1, <3>2, LogLineAssumption
  <2>4. GoodMachine(m)
    BY <1>f, <2>1, <2>3, Machines, Writes
  <2> QED BY <1>r, <2>1, <2>4
<1>4. CASE LogClose
  <2>1. PICK q, m : m = f_close(Machine(q), "fp_log") /\ (Crash(m) \/ \E s : LogReturns(m, s))
    BY <1>4 DEF LogClose
  <2>2. GoodMachine(m)
    BY <1>f, <2>1, Machines, Closes DEF GoodMachine
  <2> QED BY <1>r, <2>1, <2>2
<1> QED BY <1>1, <1>2, <1>3, <1>4 DEF LOG

(* Whatever the card refuses, whenever the power is lost, and however the  *)
(* calls of SD_DateFileAppend and LOG alternate on the volume they share:  *)
(* the card holds a volume a reader can follow (VolumeConsistent), for     *)
(* every size of the card, the sectors and the directory, and any number   *)
(* of data points, lines, losses of power and refused commands.            *)
THEOREM StorageConsistent == StorageSpec => []VolumeConsistent
<1>1. StorageInit => StorageInv
  BY InvStarts
<1>2. StorageInv /\ [StorageNext]_storageVars => StorageInv'
  <2>1. CASE StorageInv /\ SD_DateFileAppend
    BY <2>1, SdSteps
  <2>2. CASE StorageInv /\ LOG
    BY <2>2, LogSteps
  <2>3. CASE StorageInv /\ UNCHANGED storageVars
    BY <2>3 DEF StorageInv, storageVars, stored
  <2> QED BY <2>1, <2>2, <2>3 DEF StorageNext
<1>3. StorageInv => VolumeConsistent
  BY InvSound
<1> QED BY <1>1, <1>2, <1>3, PTL DEF StorageSpec
==============================================================================
