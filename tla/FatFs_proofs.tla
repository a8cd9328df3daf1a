---------------------------- MODULE FatFs_proofs -----------------------------
(***************************************************************************)
(* The calls of the application: mounting, f_open, f_sync, f_close,        *)
(* f_append, f_read and f_write, whatever the card refuses.                *)
(*                                                                         *)
(* The argument: a machine is good when its volume is laid out and every   *)
(* file open on it has its entry, a chain that holds all that was written, *)
(* and a buffer of a cluster of that chain (FileOk).  Each call takes good *)
(* machines to good machines, and every content of the card on the way is  *)
(* a volume.                                                               *)
(***************************************************************************)
EXTENDS Volume_proofs

(* Mounting.  A machine is good when its volume is, and its open files are *)
(* those of the volume, as long as it is mounted.                          *)
Good(m, R, C) ==
  /\ Held(m, R, C)
  /\ m.fs.fs_type # 0 => FilesOk(Effective(m), R, C, m.fil)

GoodMachine(m) == \E R, C : Good(m, R, C)

(* disk_initialize leaves the volume.  *)
LEMMA Initializes ==
  ASSUME NEW m, NEW R, NEW C, Held(m, R, C), NEW w, w = disk_initialize(m)
  PROVE  Held(w, R, C) /\ Keeps(m, w) /\ w.fs = m.fs /\ w.disk = m.disk
<1>1. /\ Shape(w) /\ w.disk = m.disk /\ w.cards = m.cards /\ w.fs = m.fs /\ w.dir = m.dir /\ w.fil = m.fil
  BY DEF disk_initialize, Identified, Fail, Held, Raw, Shape
<1>2. Raw(w, Members(R)) /\ Effective(w) = Effective(m)
  BY <1>1, Frame DEF Held
<1> QED BY <1>1, <1>2 DEF Held, Keeps

(* Without its window a machine has the volume of its card.  *)
Bare(w) == w.fs.wflag = FALSE /\ w.fs.winsect \in {FsInfo, Nowhere}

(* A window that is forgotten: the volume is what was written of it.  *)
LEMMA LosesWindow ==
  ASSUME NEW m, NEW R, NEW C, Held(m, R, C), NEW w, Shape(w), w.disk = m.disk, w.cards = m.cards, Bare(w)
  PROVE  \E Q, B : Held(w, Q, B) /\ Effective(w) = w.disk
<1>1. PICK Q, B : Layout(m.disk, Q, B) /\ Members(Q) \subseteq Members(R)
  BY DEF Held, Raw, VolumeIn
<1>2. Effective(w) = w.disk
  BY DEF Effective, Bare
<1>3. Window(w, Members(Q))
  <2>1. Q \in Seq(Clusters)
    BY <1>1, ChainsAre
  <2> QED BY <2>1, CachedAre DEF Window, Bare
<1>4. VolumeIn(w.disk, Members(Q))
  BY <1>1 DEF VolumeIn
<1> QED BY <1>1, <1>2, <1>3, <1>4 DEF Held, Raw

MountAs(w, m) ==
  /\ w.disk = m.disk /\ w.cards = m.cards /\ Shape(w) /\ Bare(w)
  /\ \A f \in Files : w.fil[f].fs = FALSE

(* What mounting leaves.  *)
LEMMA MountIs ==
  ASSUME NEW m, Shape(m), NEW w,
         w = [m EXCEPT !.res = "OK", !.fs = MountedFs(m), !.fil = [f \in DOMAIN @ |-> NoFile]]
  PROVE  MountAs(w, m)
<1>1. /\ w.disk = m.disk /\ w.cards = m.cards /\ DOMAIN w = DOMAIN m
      /\ w.fs = MountedFs(m) /\ w.fil = [f \in DOMAIN m.fil |-> NoFile]
  BY DEF Shape
<1>2. \A f \in Files : f \in DOMAIN w.fil /\ w.fil[f] = NoFile
  BY <1>1 DEF Shape
<1>3. Bare(w) /\ {"fs_type", "winsect", "win", "wflag", "free_clust", "last_clust", "fsi_flag"} \subseteq DOMAIN w.fs
  BY <1>1 DEF MountedFs, Unmounted, Bare
<1> QED BY <1>1, <1>2, <1>3 DEF Shape, NoFile, MountAs

(* What forgetting the mount leaves.  *)
LEMMA UnmountedIs ==
  ASSUME NEW m, Shape(m), NEW w, w = [m EXCEPT !.fs = Unmounted]
  PROVE  /\ Shape(w) /\ Bare(w) /\ w.disk = m.disk /\ w.cards = m.cards /\ w.fs.fs_type = 0
<1>1. /\ w.disk = m.disk /\ w.cards = m.cards /\ DOMAIN w = DOMAIN m /\ w.fs = Unmounted /\ w.fil = m.fil
  BY DEF Shape
<1> QED BY <1>1 DEF Shape, Unmounted, Bare

FindIs(w, u, i, n, c) ==
  w = IF ~OK(i) THEN i ELSE IF ~OK(n) THEN n
      ELSE [c EXCEPT !.res = "OK", !.fs = MountedFs(c), !.fil = [f \in DOMAIN @ |-> NoFile]]

(* find_volume, written out.  *)
LEMMA FindVolumeIs ==
  ASSUME NEW m, NEW u, u = [m EXCEPT !.fs = Unmounted], NEW i, i = disk_initialize(u),
         NEW n, n = disk_read(i), NEW c, c = disk_read(n), NEW w, w = find_volume(m)
  PROVE  w = m \/ FindIs(w, u, i, n, c)
BY DEF find_volume, FindIs, Then

(* find_volume, whether it mounts or finds the volume mounted.  *)
LEMMA FindsVolume ==
  ASSUME NEW m, GoodMachine(m), NEW w, w = find_volume(m)
  PROVE  GoodMachine(w)
<1>m. PICK R, C : Held(m, R, C)
  BY DEF GoodMachine, Good
<1>u. PICK u : u = [m EXCEPT !.fs = Unmounted]
  OBVIOUS
<1>i. PICK i : i = disk_initialize(u)
  OBVIOUS
<1>n. PICK n : n = disk_read(i)
  OBVIOUS
<1>c. PICK c : c = disk_read(n)
  OBVIOUS
<1>w. w = m \/ FindIs(w, u, i, n, c)
  BY <1>u, <1>i, <1>n, <1>c, FindVolumeIs
<1>1. Shape(u) /\ Bare(u) /\ u.disk = m.disk /\ u.cards = m.cards /\ u.fs.fs_type = 0
  BY <1>m, <1>u, UnmountedIs DEF Held, Raw
<1>2. PICK Q, B : Held(u, Q, B) /\ Effective(u) = u.disk
  BY <1>m, <1>1, LosesWindow
<1>3. Held(i, Q, B) /\ i.fs = u.fs /\ i.disk = u.disk
  BY <1>2, <1>i, Initializes
<1>4. Held(n, Q, B) /\ n.fs = u.fs /\ n.disk = u.disk
  BY <1>3, <1>n, DiskReads
<1>5. Held(c, Q, B) /\ c.fs = u.fs /\ c.disk = u.disk
  BY <1>4, <1>c, DiskReads
<1>6. CASE w = m
  BY <1>6
<1>7. CASE w = i \/ w = n
  BY <1>1, <1>3, <1>4, <1>7 DEF GoodMachine, Good
<1>8. CASE w = [c EXCEPT !.res = "OK", !.fs = MountedFs(c), !.fil = [f \in DOMAIN @ |-> NoFile]]
  <2>1. MountAs(w, c)
    BY <1>5, <1>8, MountIs DEF Held, Raw
  <2>2. PICK P, A : Held(w, P, A)
    BY <1>5, <2>1, LosesWindow DEF MountAs
  <2>3. FilesOk(Effective(w), P, A, w.fil)
    BY <2>1 DEF MountAs, FilesOk
  <2> QED BY <2>2, <2>3 DEF GoodMachine, Good
<1> QED BY <1>w, <1>6, <1>7, <1>8 DEF FindIs

(* f_mount: whatever it finds on the card, of the volume and of the card it  *)
(* makes a good machine of a good one, and every content of the card in the  *)
(* call is a volume.                                                         *)
THEOREM Mounts ==
  ASSUME NEW m, GoodMachine(m), NEW w, w = f_mount(m)
  PROVE  GoodMachine(w)
<1>1. PICK R, C : Held(m, R, C)
  BY DEF GoodMachine, Good
<1>2. PICK u : u = [m EXCEPT !.fs.fs_type = 0]
  OBVIOUS
<1>3. /\ Shape(u) /\ u.disk = m.disk /\ u.cards = m.cards /\ u.fs.fs_type = 0
      /\ u.fs.win = m.fs.win /\ u.fs.winsect = m.fs.winsect /\ u.fs.wflag = m.fs.wflag
  <2>1. /\ u.disk = m.disk /\ u.cards = m.cards /\ DOMAIN u = DOMAIN m /\ u.fil = m.fil
        /\ u.fs = [m.fs EXCEPT !.fs_type = 0]
    BY <1>1, <1>2 DEF Held, Raw, Shape
  <2> QED BY <1>1, <2>1 DEF Held, Raw, Shape
<1>4. Raw(u, Members(R)) /\ Effective(u) = Effective(m)
  BY <1>1, <1>3, Frame DEF Held
<1>5. GoodMachine(u)
  BY <1>1, <1>3, <1>4 DEF GoodMachine, Good, Held
<1> QED BY <1>2, <1>5, FindsVolume DEF f_mount
------------------------------------------------------------------------------
(* A change of one file.  *)
FileFields == {"fs", "write", "written", "dirty", "err", "fptr", "fsize", "sclust", "clust", "dsect", "buf", "dir"}

Changed(m, w, f, p) ==
  /\ DOMAIN w = DOMAIN m /\ w.disk = m.disk /\ w.cards = m.cards /\ w.fs = m.fs /\ w.dir = m.dir
  /\ w.fil = [m.fil EXCEPT ![f] = p] /\ FileFields \subseteq DOMAIN p

(* A change of a file is no change of the volume.  *)
LEMMA Changes ==
  ASSUME NEW m, NEW R, NEW C, Held(m, R, C), NEW f \in Files, NEW p, NEW w, Changed(m, w, f, p)
  PROVE  /\ Held(w, R, C) /\ Effective(w) = Effective(m) /\ w.fil[f] = p
         /\ \A g \in Files \ {f} : w.fil[g] = m.fil[g]
<1>1. /\ w.fil[f] = p
      /\ \A g \in Files \ {f} : w.fil[g] = m.fil[g]
      /\ Shape(w)
  BY DEF Changed, Held, Raw, Shape, FileFields
<1>2. Raw(w, Members(R)) /\ Effective(w) = Effective(m)
  BY <1>1, Frame DEF Held, Changed
<1> QED BY <1>1, <1>2 DEF Held

(* A change of a file to one of the volume, or to none.  *)
LEMMA ChangesWell ==
  ASSUME NEW m, NEW R, NEW C, Good(m, R, C), NEW f \in Files, NEW p, NEW w, Changed(m, w, f, p),
         p.fs => FileOk(Effective(m), R, C[NameOf(f)], p, NameOf(f))
  PROVE  Good(w, R, C) /\ w.fil[f] = p /\ Effective(w) = Effective(m)
<1>1. /\ Held(w, R, C) /\ Effective(w) = Effective(m) /\ w.fil[f] = p
      /\ \A g \in Files \ {f} : w.fil[g] = m.fil[g]
  BY Changes DEF Good
<1>2. w.fs.fs_type # 0 => FilesOk(Effective(w), R, C, w.fil)
  BY <1>1 DEF Good, FilesOk, Changed
<1> QED BY <1>1, <1>2 DEF Good

(* A file is closed without being written.  *)
LEMMA Forgets ==
  ASSUME NEW m, NEW R, NEW C, Good(m, R, C), NEW f \in Files, NEW w, w = [m EXCEPT !.fil[f] = NoFile]
  PROVE  Good(w, R, C)
<1>1. PICK p : p = NoFile
  OBVIOUS
<1>2. Changed(m, w, f, p) /\ ~p.fs
  BY <1>1 DEF Changed, Good, Held, Raw, Shape, NoFile, FileFields
<1> QED BY <1>2, ChangesWell
------------------------------------------------------------------------------
(* f_open.  *)
LEMMA StaysGood ==
  ASSUME NEW m, NEW R, NEW C, Good(m, R, C), NEW w, Held(w, R, C), Moves(m, w)
  PROVE  Good(w, R, C)
BY DEF Good, Moves

(* A call that leaves the volume and the files.  *)
LEMMA KeepsGood ==
  ASSUME NEW m, NEW R, NEW C, Good(m, R, C), NEW w, Held(w, R, C), Keeps(m, w)
  PROVE  Good(w, R, C)
BY DEF Good, Keeps

(* A call that keeps what the files depend on.  *)
LEMMA SurvivesGood ==
  ASSUME NEW m, NEW R, NEW C, Good(m, R, C), NEW w, NEW Q, NEW B, Survives(m, R, C, w, Q, B)
  PROVE  Good(w, Q, B)
BY DEF Good, Survives

FileOpened(m, write, new) ==
  [NoFile EXCEPT !.fs = TRUE, !.write = write, !.written = new,
                 !.sclust = Here(m)[2], !.fsize = Here(m)[3], !.dir = m.dir]

Untouched(p) == p.fs /\ p.fptr = 0 /\ ~p.dirty /\ p.buf = Blank

(* The fields of a file just opened.  *)
LEMMA FileOpenedIs ==
  ASSUME NEW m, NEW write, NEW new, NEW p, p = FileOpened(m, write, new)
  PROVE  /\ p.sclust = Here(m)[2] /\ p.fsize = Here(m)[3] /\ p.dir = m.dir
         /\ Untouched(p) /\ FileFields \subseteq DOMAIN p
BY DEF FileOpened, NoFile, FileFields, Untouched

(* A file is opened from its entry.  *)
LEMMA Opens ==
  ASSUME NEW m, NEW R, NEW C, Good(m, R, C), NEW f \in Files, NEW q, q \in Slots(R),
         FoundAt(m, Effective(m), R, q, NameOf(f)), NEW write, NEW new, NEW w, w = Opened(m, f, write, new)
  PROVE  Good(w, R, C) /\ Untouched(w.fil[f])
<1> DEFINE n == NameOf(f)
<1>p. PICK p : p = FileOpened(m, write, new)
  OBVIOUS
<1>d. Layout(Effective(m), R, C) /\ n \in Names
  BY DEF Good, Held, NameOf, Names
<1>1. Here(m) = At(Effective(m), R, q) /\ Taking(Effective(m), R, q, n) /\ m.dir = <<R[q[1]], q[2]>>
  BY DEF FoundAt, Standing, Here, At
<1>2. PICK o \in Names, a \in Nat, z \in Nat : At(Effective(m), R, q) = Entry(o, a, z)
  BY <1>1, <1>d, SlotsAre DEF Taking, IsEntry
<1>3. Here(m)[2] = a /\ Here(m)[3] = z /\ At(Effective(m), R, q)[2] = a /\ At(Effective(m), R, q)[3] = z
  BY <1>1, <1>2 DEF Entry
<1>4. Holds(a, z, C[n])
  <2>1. Holds(At(Effective(m), R, q)[2], At(Effective(m), R, q)[3], C[n])
    BY <1>1, <1>d DEF Layout, Entering
  <2> QED BY <1>3, <2>1
<1>5. /\ p.sclust = a /\ p.fsize = z /\ p.dir = m.dir
      /\ Untouched(p) /\ FileFields \subseteq DOMAIN p
  BY <1>3, <1>p, FileOpenedIs
<1>6. Place(Effective(m), R, q, p, n)
  BY <1>1, <1>3, <1>5 DEF Place
<1>7. Plain(p.buf) /\ DOMAIN p.buf = 1 .. SS
  BY <1>5 DEF Plain, Blank, IsUnit, Untouched
<1>8. FileOk(Effective(m), R, C[n], p, n)
  <2>1. p.sclust \in Nat /\ p.fsize \in Nat /\ Holds(p.sclust, p.fsize, C[n])
    BY <1>4, <1>5
  <2>2. p.fptr = 0 /\ ~p.dirty
    BY <1>5 DEF Untouched
  <2>3. \E t \in Slots(R) : Place(Effective(m), R, t, p, n)
    BY <1>6
  <2> HIDE DEF n
  <2> QED BY <1>7, <2>1, <2>2, <2>3, SizesAssumption DEF FileOk, Inside
<1>9. Changed(m, w, f, p)
  BY <1>5, <1>p DEF Changed, Opened, FileOpened, Good, Held, Raw, Shape
<1>10. Good(w, R, C) /\ w.fil[f] = p
  BY <1>8, <1>9, ChangesWell
<1> QED BY <1>5, <1>10

LookupIs(w, d, s, r, f, write) ==
  \/ OK(d) /\ \E new : w = Opened(d, f, write, new)
  \/ ~OK(d) /\ d.res # "NO_FILE" /\ w = d
  \/ d.res = "NO_FILE" /\ ~OK(r) /\ w = r
  \/ d.res = "NO_FILE" /\ OK(r) /\ \E new : w = Opened(r, f, write, new)

(* Lookup, written out.  *)
LEMMA LookupSteps ==
  ASSUME NEW m, NEW f, NEW n, NEW write, NEW d, d = dir_find(m, n), NEW s, s = Fail(d, "OK"),
         NEW r, r = dir_register(s, n), NEW w, w = Lookup(m, f, n, write)
  PROVE  LookupIs(w, d, s, r, f, write)
BY DEF Lookup, LookupIs, Then, OK

(* Lookup: the entry is found, or made.  *)
LEMMA Looks ==
  ASSUME NEW m, NEW R, NEW C, Good(m, R, C), OK(m), NEW f \in Files, NEW write,
         NEW w, w = Lookup(m, f, NameOf(f), write)
  PROVE  GoodMachine(w) /\ (OK(w) => Untouched(w.fil[f]))
<1>n. PICK n \in Names : n = NameOf(f)
  BY DEF NameOf, Names
<1>d. PICK d : d = dir_find(m, n)
  OBVIOUS
<1>s. PICK s : s = Fail(d, "OK")
  OBVIOUS
<1>r. PICK r : r = dir_register(s, n)
  OBVIOUS
<1>i. LookupIs(w, d, s, r, f, write)
  BY <1>n, <1>d, <1>s, <1>r, LookupSteps
<1>1. /\ Held(d, R, C) /\ Moves(m, d)
      /\ OK(d) => \E q \in Slots(R) : FoundAt(d, Effective(m), R, q, n)
      /\ d.res = "NO_FILE" => None(Effective(m), R, n, MaxIndex)
  BY <1>n, <1>d, Finds DEF Good
<1>2. Good(d, R, C) /\ Effective(d) = Effective(m)
  BY <1>1, StaysGood DEF Moves
<1>3. CASE OK(d)
  <2>1. PICK q, new : q \in Slots(R) /\ FoundAt(d, Effective(d), R, q, n) /\ w = Opened(d, f, write, new)
    BY <1>1, <1>2, <1>3, <1>i DEF LookupIs, OK
  <2> QED BY <1>2, <1>n, <2>1, Opens DEF GoodMachine
<1>4. CASE ~OK(d) /\ d.res # "NO_FILE"
  BY <1>2, <1>4, <1>i DEF LookupIs, GoodMachine
<1>5. CASE d.res = "NO_FILE"
  <2>1. Held(s, R, C) /\ Keeps(d, s) /\ OK(s)
    BY <1>1, <1>s, SetsRes DEF OK
  <2>2. Good(s, R, C) /\ None(Effective(s), R, n, MaxIndex)
    BY <1>1, <1>2, <1>5, <2>1, KeepsGood DEF Keeps
  <2>3. PICK Q : /\ Survives(s, R, C, r, Q, C)
                 /\ OK(r) => \E q \in Slots(Q) : FoundAt(r, Effective(r), Q, q, n) /\ Here(r) = Entry(n, 0, 0)
    BY <1>r, <2>1, <2>2, Registers
  <2>4. Good(r, Q, C)
    BY <2>2, <2>3, SurvivesGood
  <2>5. CASE ~OK(r)
    <3>1. w = r
      BY <1>5, <1>i, <2>5 DEF LookupIs, OK
    <3> QED BY <2>4, <2>5, <3>1 DEF GoodMachine
  <2>6. CASE OK(r)
    <3>1. PICK q, new : q \in Slots(Q) /\ FoundAt(r, Effective(r), Q, q, n) /\ w = Opened(r, f, write, new)
      BY <1>5, <1>i, <2>3, <2>6 DEF LookupIs, OK
    <3> QED BY <1>n, <2>4, <3>1, Opens DEF GoodMachine
  <2> QED BY <2>5, <2>6
<1> QED BY <1>3, <1>4, <1>5

(* f_open with FA_OPEN_ALWAYS, which may register an entry and stretch the   *)
(* directory for it: a power loss at any of its writes leaves a volume, and  *)
(* the file opened is at its beginning.                                      *)
THEOREM OpensFile ==
  ASSUME NEW m, GoodMachine(m), NEW f \in Files, NEW write, NEW w, w = f_open(m, f, NameOf(f), write)
  PROVE  GoodMachine(w) /\ (OK(w) => Untouched(w.fil[f]))
<1>1. PICK u, v : u = [m EXCEPT !.fil[f] = NoFile] /\ v = find_volume(u)
  OBVIOUS
<1>2. GoodMachine(u)
  BY <1>1, Forgets DEF GoodMachine
<1>3. GoodMachine(v)
  BY <1>1, <1>2, FindsVolume
<1>4. w = IF OK(v) THEN Lookup(v, f, NameOf(f), write) ELSE v
  BY <1>1 DEF f_open, Then
<1>5. CASE OK(v)
  BY <1>3, <1>4, <1>5, Looks DEF GoodMachine
<1>6. CASE ~OK(v)
  BY <1>3, <1>4, <1>6
<1> QED BY <1>5, <1>6
------------------------------------------------------------------------------
(* A write to a sector of data, and to FSINFO, and to the buffer.  *)
Valid(m, f) == m.fil[f].fs /\ m.fs.fs_type # 0
FileOf(m, R, C, f) == FileOk(Effective(m), R, C[NameOf(f)], m.fil[f], NameOf(f))

(* A valid file is one of the volume.  *)
LEMMA ValidIs ==
  ASSUME NEW m, NEW R, NEW C, Good(m, R, C), NEW f \in Files, Valid(m, f)
  PROVE  FileOf(m, R, C, f)
BY DEF Good, FilesOk, Valid, FileOf

(* A call that lengthens chains leaves a good machine.  *)
LEMMA GrownGood ==
  ASSUME NEW m, NEW R, NEW C, Good(m, R, C), NEW w, NEW Q, NEW B, Grown(m, R, C, w, Q, B, Names)
  PROVE  Good(w, Q, B) /\ \A f : Valid(m, f) => Valid(w, f)
<1>1. Good(w, Q, B)
  BY GrownSurvives, SurvivesGood DEF Good, Held
<1> QED BY <1>1 DEF Grown, Valid

Wrote(m, w, s, b) ==
  \/ w.disk = m.disk /\ w.cards = m.cards
  \/ w.disk = [m.disk EXCEPT ![s] = b] /\ w.cards = m.cards \cup {w.disk}

(* disk_write, written out.  *)
LEMMA CardWritten ==
  ASSUME NEW m, NEW s, NEW b, NEW w, w = disk_write(m, s, b), Shape(m)
  PROVE  Shape(w) /\ w.fs = m.fs /\ w.fil = m.fil /\ w.dir = m.dir /\ Wrote(m, w, s, b)
BY DEF disk_write, Refused, Written, Shape, Wrote

(* disk_write of data to a cluster that is not of the directory.  *)
LEMMA WritesData ==
  ASSUME NEW m, NEW R, NEW C, Held(m, R, C), NEW c \in Clusters, c \notin Members(R),
         NEW b, Plain(b), DOMAIN b = 1 .. SS, NEW w, w = disk_write(m, clust2sect(c), b)
  PROVE  Grown(m, R, C, w, R, C, Names)
<1>s. Shape(m) /\ Layout(Effective(m), R, C)
  BY DEF Held, Raw
<1>1. PICK s : s = clust2sect(c)
  OBVIOUS
<1>2. Shape(w) /\ w.fs = m.fs /\ w.fil = m.fil /\ w.dir = m.dir /\ Wrote(m, w, s, b)
  BY <1>s, <1>1, CardWritten
<1>3. CASE w.disk = m.disk /\ w.cards = m.cards
  <2>1. Raw(w, Members(R)) /\ Effective(w) = Effective(m)
    BY <1>2, <1>3, Frame DEF Held
  <2>2. Held(w, R, C) /\ Keeps(m, w)
    BY <1>2, <2>1 DEF Held, Keeps
  <2> QED BY <2>2, GrownKeeps
<1>4. CASE w.disk = [m.disk EXCEPT ![s] = b] /\ w.cards = m.cards \cup {w.disk}
  <2>1. s \notin Cached(Members(R)) /\ s \notin {FsInfo, Nowhere}
    <3>1. Members(R) \subseteq Clusters
      BY <1>s, ChainsAre, MembersAre
    <3> QED BY <1>1, <3>1, SectorsDiffer DEF Cached
  <2>2. PICK Q, B : Layout(m.disk, Q, B) /\ Members(Q) \subseteq Members(R)
    BY DEF Held, Raw, VolumeIn
  <2>3. Layout(w.disk, Q, B)
    <3>1. Layout(SetData(m.disk, c, b), Q, B)
      BY <2>2, LayoutWrites
    <3> QED BY <1>1, <1>4, <3>1 DEF SetData
  <2>4. VolumeIn(w.disk, Members(R)) /\ \A D \in w.cards : Volume(D)
    BY <1>4, <2>2, <2>3 DEF VolumeIn, Volume, Held, Raw
  <2>5. Window(w, Members(R))
    <3>1. \A t : t # s => w.disk[t] = m.disk[t]
      <4>1. DOMAIN w.disk = DOMAIN m.disk
        BY <1>4
      <4>2. \A t \in DOMAIN m.disk : t # s => w.disk[t] = m.disk[t]
        BY <1>4
      <4>3. Cached(Members(R)) \subseteq DOMAIN m.disk
        <5>1. Cached(Members(R)) \subseteq Sectors
          BY <1>s, ChainsAre, CachedAre
        <5> QED BY <5>1, <2>2 DEF Layout, IsDisk
      <4> QED BY <1>4
    <3> QED BY <1>2, <2>1, <3>1 DEF Window, Held, Raw
  <2>6. Effective(w) = SetData(Effective(m), c, b)
    <3>1. CASE m.fs.wflag
      <4>1. m.fs.winsect # s
        BY <2>1, <3>1 DEF Held, Raw, Window
      <4>2. Effective(m) = [m.disk EXCEPT ![m.fs.winsect] = m.fs.win]
        BY <3>1 DEF Effective
      <4>3. Effective(w) = [w.disk EXCEPT ![m.fs.winsect] = m.fs.win]
        BY <1>2, <3>1 DEF Effective
      <4> QED BY <1>1, <1>4, <4>1, <4>2, <4>3 DEF SetData
    <3>2. CASE ~m.fs.wflag
      BY <1>1, <1>2, <1>4, <3>2 DEF Effective, SetData
    <3> QED BY <3>1, <3>2
  <2>7. /\ Layout(Effective(w), R, C)
        /\ \A p \in Slots(R) : At(Effective(w), R, p) = At(Effective(m), R, p)
    BY <1>s, <2>6, LayoutWrites
  <2>8. Held(w, R, C)
    BY <1>2, <1>4, <2>4, <2>5, <2>7 DEF Held, Raw
  <2> QED BY <1>2, <1>s, <2>7, <2>8, ChainsAre DEF Grown, Grows
<1> QED BY <1>2, <1>3, <1>4 DEF Wrote

InfoWin(m, i) == [m EXCEPT !.fs.win = i, !.fs.winsect = FsInfo, !.fs.fsi_flag = FALSE]

(* The window is filled with FSINFO.  *)
LEMMA InfoWindow ==
  ASSUME NEW m, NEW R, NEW C, Held(m, R, C), ~m.fs.wflag, NEW i,
         NEW y, y = InfoWin(m, i)
  PROVE  Held(y, R, C) /\ Keeps(m, y) /\ ~y.fs.wflag /\ y.fs.winsect = FsInfo
<1>1. /\ y.disk = m.disk /\ y.cards = m.cards /\ y.fil = m.fil /\ y.dir = m.dir /\ Shape(y)
      /\ y.fs.winsect = FsInfo /\ y.fs.wflag = m.fs.wflag /\ y.fs.fs_type = m.fs.fs_type
  <2>1. /\ y.disk = m.disk /\ y.cards = m.cards /\ y.fil = m.fil /\ y.dir = m.dir /\ DOMAIN y = DOMAIN m
        /\ y.fs = [m.fs EXCEPT !.win = i, !.winsect = FsInfo, !.fsi_flag = FALSE]
    BY DEF Held, Raw, Shape, InfoWin
  <2> QED BY <2>1 DEF Held, Raw, Shape
<1>2. Effective(y) = Effective(m)
  BY <1>1 DEF Effective
<1>3. Window(y, Members(R))
  BY <1>1, ChainsAre, CachedAre DEF Window, Held, Raw
<1> QED BY <1>1, <1>2, <1>3 DEF Held, Raw, Keeps

(* WriteInfo leaves the volume.  *)
LEMMA WritesInfo ==
  ASSUME NEW m, NEW R, NEW C, Held(m, R, C), ~m.fs.wflag, NEW w, w = WriteInfo(m)
  PROVE  Grown(m, R, C, w, R, C, Names)
<1>i. PICK i, t : i = <<m.fs.free_clust, m.fs.last_clust>> /\ t = FsInfo
  OBVIOUS
<1>y. PICK y : y = InfoWin(m, i)
  OBVIOUS
<1>z. PICK z : z = disk_write(y, t, i)
  OBVIOUS
<1>w. w = Fail(z, "OK")
  BY <1>i, <1>y, <1>z DEF WriteInfo, InfoWin
<1>1. Held(y, R, C) /\ Keeps(m, y) /\ ~y.fs.wflag /\ y.fs.winsect = FsInfo
  BY <1>y, InfoWindow
<1>s. Shape(y) /\ Layout(Effective(y), R, C) /\ Effective(y) = y.disk
  BY <1>1 DEF Held, Raw, Effective
<1>2. Shape(z) /\ z.fs = y.fs /\ z.fil = y.fil /\ z.dir = y.dir /\ Wrote(y, z, FsInfo, i)
  BY <1>i, <1>s, <1>z, CardWritten
<1>3. Held(z, R, C) /\ \A c \in Clusters : Effective(z)[clust2sect(c)] = Effective(m)[clust2sect(c)]
  <2>1. Effective(y) = Effective(m)
    BY <1>1 DEF Keeps
  <2>2. CASE z.disk = y.disk /\ z.cards = y.cards
    <3>1. Raw(z, Members(R)) /\ Effective(z) = Effective(y)
      BY <1>1, <1>2, <2>2, Frame DEF Held
    <3> QED BY <1>s, <2>1, <3>1 DEF Held
  <2>3. CASE z.disk = [y.disk EXCEPT ![FsInfo] = i] /\ z.cards = y.cards \cup {z.disk}
    <3>1. Effective(z) = z.disk
      BY <1>1, <1>2 DEF Effective
    <3>2. Layout(z.disk, R, C) /\ \A c \in Clusters : z.disk[clust2sect(c)] = y.disk[clust2sect(c)]
      BY <1>s, <2>3, LayoutInfo
    <3>3. VolumeIn(z.disk, Members(R)) /\ \A D \in z.cards : Volume(D)
      BY <1>1, <2>3, <3>2 DEF VolumeIn, Volume, Held, Raw
    <3>4. Window(z, Members(R))
      <4>1. FsInfo \notin Cached(Members(R))
        BY <1>s, ChainsAre, CachedAre
      <4> QED BY <1>1, <1>2, <4>1 DEF Window, Held, Raw
    <3> QED BY <1>2, <1>s, <2>1, <2>3, <3>1, <3>2, <3>3, <3>4 DEF Held, Raw
  <2> QED BY <1>2, <2>2, <2>3 DEF Wrote
<1>4. Held(w, R, C) /\ Keeps(z, w)
  BY <1>3, <1>w, SetsRes
<1>5. \A p \in Slots(R) : At(Effective(w), R, p) = At(Effective(m), R, p)
  <2>1. \A c \in Clusters : Effective(w)[clust2sect(c)] = Effective(m)[clust2sect(c)]
    BY <1>3, <1>4 DEF Keeps
  <2> QED BY <2>1, SameSlots DEF Held
<1> QED BY <1>1, <1>2, <1>4, <1>5, ChainsAre DEF Grown, Grows, Keeps, Held

(* sync_fs leaves the volume.  *)
LEMMA SyncsFs ==
  ASSUME NEW m, NEW R, NEW C, Held(m, R, C), OK(m), NEW w, w = sync_fs(m)
  PROVE  Grown(m, R, C, w, R, C, Names)
<1>1. PICK s : s = sync_window(m)
  OBVIOUS
<1>2. Held(s, R, C) /\ Keeps(m, s) /\ (OK(s) => ~s.fs.wflag)
  BY <1>1, SyncsWindow
<1>3. w = s \/ (OK(s) /\ w = WriteInfo(s))
  BY <1>1 DEF sync_fs, Then
<1>4. Grown(m, R, C, s, R, C, Names)
  BY <1>2, GrownKeeps
<1>5. CASE w = s
  BY <1>4, <1>5
<1>6. CASE OK(s) /\ w = WriteInfo(s)
  <2>1. Grown(s, R, C, w, R, C, Names)
    BY <1>2, <1>6, WritesInfo
  <2> QED BY <1>4, <2>1, GrownTwice DEF Held
<1> QED BY <1>3, <1>5, <1>6
------------------------------------------------------------------------------
(* What of a file its entry and its chain depend on.  *)
Alike(p, r) ==
  /\ r.fs = p.fs /\ r.sclust = p.sclust /\ r.fsize = p.fsize /\ r.fptr = p.fptr /\ r.clust = p.clust
  /\ r.dsect = p.dsect /\ r.buf = p.buf /\ r.dir = p.dir
  /\ r.dirty => p.dirty
  /\ r.err = "OK" => p.err = "OK"

(* A file that is alike is one of the volume.  *)
LEMMA FileOkAlike ==
  ASSUME NEW D, NEW R, NEW ch, NEW p, NEW n, FileOk(D, R, ch, p, n), NEW r, Alike(p, r)
  PROVE  FileOk(D, R, ch, r, n)
BY DEF FileOk, Alike, Place, Inside

(* A file is changed to one that is alike.  *)
LEMMA ChangesAlike ==
  ASSUME NEW m, NEW R, NEW C, Good(m, R, C), NEW f \in Files, Valid(m, f),
         NEW p, Alike(m.fil[f], p), NEW w, Changed(m, w, f, p)
  PROVE  Good(w, R, C) /\ Valid(w, f) /\ w.fil[f] = p /\ Effective(w) = Effective(m)
<1>1. FileOk(Effective(m), R, C[NameOf(f)], p, NameOf(f))
  BY ValidIs, FileOkAlike DEF FileOf
<1>2. Good(w, R, C) /\ w.fil[f] = p /\ Effective(w) = Effective(m)
  BY <1>1, ChangesWell
<1> QED BY <1>2 DEF Valid, Alike, Changed

(* ABORT, written out.  *)
LEMMA AbortIs ==
  ASSUME NEW m, Shape(m), NEW f \in Files, NEW r, r # "OK", NEW w, w = Abort(m, f, r)
  PROVE  w.res = r /\ \E p : Alike(m.fil[f], p) /\ Changed(m, w, f, p)
<1>1. PICK p : p = [m.fil[f] EXCEPT !.err = r]
  OBVIOUS
<1>2. Changed(m, w, f, p) /\ w.res = r
  BY <1>1 DEF Abort, Changed, Shape, FileFields
<1>3. Alike(m.fil[f], p)
  BY <1>1 DEF Alike, Shape
<1> QED BY <1>2, <1>3

(* ABORT: the file keeps its error and is one of the volume.  *)
LEMMA Aborts ==
  ASSUME NEW m, NEW R, NEW C, Good(m, R, C), NEW f \in Files, Valid(m, f), NEW r, r # "OK", NEW w, w = Abort(m, f, r)
  PROVE  Good(w, R, C) /\ Valid(w, f) /\ w.res = r /\ Effective(w) = Effective(m)
<1>1. PICK p : Alike(m.fil[f], p) /\ Changed(m, w, f, p) /\ w.res = r
  BY AbortIs DEF Good, Held, Raw
<1> QED BY <1>1, ChangesAlike

(* validate, written out.  *)
LEMMA ValidatedIs ==
  ASSUME NEW m, OK(m), NEW f, NEW v, v = validate(m, f)
  PROVE  (~OK(v) /\ v = Fail(m, "INVALID_OBJECT")) \/ (v = m /\ Valid(m, f))
BY DEF validate, Valid, OK, Fail

(* validate.  *)
LEMMA Validates ==
  ASSUME NEW m, NEW R, NEW C, Good(m, R, C), OK(m), NEW f \in Files, NEW v, v = validate(m, f)
  PROVE  Good(v, R, C) /\ (OK(v) => Valid(v, f))
<1>1. CASE ~OK(v) /\ v = Fail(m, "INVALID_OBJECT")
  BY <1>1, SetsRes, KeepsGood DEF Good
<1>2. CASE v = m /\ Valid(m, f)
  BY <1>2
<1> QED BY <1>1, <1>2, ValidatedIs

CheckedIs(w, v, f) == w = v \/ (OK(v) /\ v.fil[f].err # "OK" /\ w = Fail(v, v.fil[f].err))

(* Checked, written out.  *)
LEMMA CheckedSteps ==
  ASSUME NEW m, NEW f, NEW v, v = validate(m, f), NEW w, w = Checked(m, f)
  PROVE  CheckedIs(w, v, f)
BY DEF Checked, CheckedIs, Then

(* Checked.  *)
LEMMA Checks ==
  ASSUME NEW m, NEW R, NEW C, Good(m, R, C), OK(m), NEW f \in Files, NEW w, w = Checked(m, f)
  PROVE  Good(w, R, C) /\ (OK(w) => Valid(w, f))
<1>v. PICK v : v = validate(m, f)
  OBVIOUS
<1>1. Good(v, R, C) /\ (OK(v) => Valid(v, f))
  BY <1>v, Validates
<1>2. CheckedIs(w, v, f)
  BY <1>v, CheckedSteps
<1>3. CASE w = v
  BY <1>1, <1>3
<1>4. CASE w # v
  <2>1. PICK r : r # "OK" /\ w = Fail(v, r)
    BY <1>2, <1>4 DEF CheckedIs
  <2>2. Held(w, R, C) /\ Keeps(v, w) /\ w.res = r
    BY <1>1, <2>1, SetsRes DEF Good
  <2> QED BY <1>1, <2>1, <2>2, KeepsGood DEF OK
<1> QED BY <1>3, <1>4
------------------------------------------------------------------------------
(* The buffer and the entry are written back.  *)
Buffered(m, f) == disk_write(m, clust2sect(m.fil[f].dsect), m.fil[f].buf)
Clean(m, f) == [m EXCEPT !.fil[f].dirty = FALSE]

(* PutBuffer, written out.  *)
LEMMA PutBufferIs ==
  ASSUME NEW m, NEW f, NEW b, b = Buffered(m, f), NEW w, w = PutBuffer(m, f)
  PROVE  (~m.fil[f].dirty /\ w = m) \/ (m.fil[f].dirty /\ w = IF OK(b) THEN Clean(b, f) ELSE b)
BY DEF PutBuffer, Buffered, Clean, Then

(* The buffer is marked as written.  *)
LEMMA CleanIs ==
  ASSUME NEW m, Shape(m), NEW f \in Files, NEW w, w = Clean(m, f)
  PROVE  w.res = m.res /\ \E p : Alike(m.fil[f], p) /\ ~p.dirty /\ Changed(m, w, f, p)
<1>1. PICK p : p = [m.fil[f] EXCEPT !.dirty = FALSE]
  OBVIOUS
<1>2. Changed(m, w, f, p) /\ w.res = m.res
  BY <1>1 DEF Clean, Changed, Shape, FileFields
<1>3. Alike(m.fil[f], p) /\ ~p.dirty
  BY <1>1 DEF Alike, Shape
<1> QED BY <1>2, <1>3

(* A cluster of a file is not of the directory.  *)
LEMMA OfFile ==
  ASSUME NEW D, NEW R, NEW C, Layout(D, R, C), NEW n \in Names, NEW c \in Members(C[n])
  PROVE  c \in Clusters /\ c \notin Members(R)
BY ChainsAre, MembersAre DEF Layout, Chains

(* PutBuffer writes to a cluster of the file.  *)
LEMMA PutsBuffer ==
  ASSUME NEW m, NEW R, NEW C, Good(m, R, C), NEW f \in Files, Valid(m, f), OK(m), NEW w, w = PutBuffer(m, f)
  PROVE  Good(w, R, C) /\ Valid(w, f) /\ Alike(m.fil[f], w.fil[f]) /\ (OK(w) => ~w.fil[f].dirty)
<1>f. FileOf(m, R, C, f) /\ NameOf(f) \in Names /\ Alike(m.fil[f], m.fil[f])
  BY ValidIs DEF NameOf, Names, Alike
<1>b. PICK b : b = Buffered(m, f)
  OBVIOUS
<1>1. CASE ~m.fil[f].dirty /\ w = m
  BY <1>1, <1>f
<1>2. CASE m.fil[f].dirty /\ w = IF OK(b) THEN Clean(b, f) ELSE b
  <2>1. PICK c, x : /\ c = m.fil[f].dsect /\ c \in Clusters /\ c \notin Members(R)
                    /\ x = m.fil[f].buf /\ Plain(x) /\ DOMAIN x = 1 .. SS
    <3>1. m.fil[f].dsect \in Members(C[NameOf(f)]) /\ Plain(m.fil[f].buf) /\ DOMAIN m.fil[f].buf = 1 .. SS
      BY <1>2, <1>f DEF FileOf, FileOk
    <3>2. m.fil[f].dsect \in Clusters /\ m.fil[f].dsect \notin Members(R)
      BY <1>f, <3>1, OfFile DEF Good, Held
    <3> QED BY <3>1, <3>2
  <2>2. b = disk_write(m, clust2sect(c), x)
    BY <1>b, <2>1 DEF Buffered
  <2>3. Grown(m, R, C, b, R, C, Names)
    BY <2>1, <2>2, WritesData DEF Good
  <2>4. Good(b, R, C) /\ Valid(b, f) /\ b.fil = m.fil
    BY <2>3, GrownGood DEF Grown
  <2>5. CASE OK(b)
    <3>1. w = Clean(b, f)
      BY <1>2, <2>5
    <3>2. PICK p : Alike(b.fil[f], p) /\ ~p.dirty /\ Changed(b, w, f, p)
      BY <2>4, <3>1, CleanIs DEF Good, Held, Raw
    <3>3. Good(w, R, C) /\ Valid(w, f) /\ w.fil[f] = p
      BY <2>4, <3>2, ChangesAlike
    <3> QED BY <2>4, <3>2, <3>3
  <2>6. CASE ~OK(b)
    BY <1>2, <1>f, <2>4, <2>6
  <2> QED BY <2>5, <2>6
<1> QED BY <1>1, <1>2, <1>b, PutBufferIs
------------------------------------------------------------------------------
(* The open files are those of a volume whose entry of one of them is set    *)
(* anew.                                                                     *)
LEMMA EntryFiles ==
  ASSUME NEW D, NEW E, NEW R, NEW C, NEW fil, FilesOk(D, R, C, fil), NEW f \in Files, fil[f].fs,
         NEW q, q \in Slots(R), Place(D, R, q, fil[f], NameOf(f)),
         NEW e, ~IsUnit(e), e[1] = NameOf(f), e[2] = fil[f].sclust, SlotSet(D, E, R, q, e)
  PROVE  FilesOk(E, R, C, fil)
<1>1. SUFFICES ASSUME NEW g \in Files, fil[g].fs
               PROVE  FileOk(E, R, C[NameOf(g)], fil[g], NameOf(g))
  BY DEF FilesOk
<1>2. FileOk(D, R, C[NameOf(g)], fil[g], NameOf(g))
  BY <1>1 DEF FilesOk
<1>3. \E t \in Slots(R) : Place(E, R, t, fil[g], NameOf(g))
  <2>1. CASE g = f
    <3>1. At(E, R, q) = e
      BY DEF SlotSet
    <3>2. Place(E, R, q, fil[f], NameOf(f))
      BY <3>1 DEF Place, Taking
    <3> QED BY <2>1, <3>2
  <2>2. CASE g # f
    <3>1. NameOf(g) # NameOf(f)
      BY <2>2 DEF Files, NameOf
    <3>2. PICK t \in Slots(R) : Place(D, R, t, fil[g], NameOf(g))
      BY <1>2 DEF FileOk
    <3>3. At(D, R, t)[1] = NameOf(g) /\ At(D, R, q)[1] = NameOf(f)
      BY <3>2 DEF Place, Taking
    <3>4. t # q
      BY <3>1, <3>3
    <3>5. At(E, R, t) = At(D, R, t)
      BY <3>4 DEF SlotSet
    <3> QED BY <3>2, <3>5 DEF Place, Taking
  <2> QED BY <2>1, <2>2
<1> QED BY <1>2, <1>3 DEF FileOk

Unwritten(m, f) == [m EXCEPT !.fil[f].written = FALSE]

(* The file is marked as synchronized.  *)
LEMMA UnwrittenIs ==
  ASSUME NEW m, Shape(m), NEW f \in Files, NEW w, w = Unwritten(m, f)
  PROVE  w.res = m.res /\ \E p : Alike(m.fil[f], p) /\ Changed(m, w, f, p)
<1>1. PICK p : p = [m.fil[f] EXCEPT !.written = FALSE]
  OBVIOUS
<1>2. Changed(m, w, f, p) /\ w.res = m.res
  BY <1>1 DEF Unwritten, Changed, Shape, FileFields
<1>3. Alike(m.fil[f], p)
  BY <1>1 DEF Alike, Shape
<1> QED BY <1>2, <1>3

NewEntry(w, p) == Entry(w.fs.win[p.dir[2]][1], p.sclust, p.fsize)

(* PutEntry, written out.  *)
LEMMA PutEntryIs ==
  ASSUME NEW m, NEW f, NEW p, p = m.fil[f], NEW w, w = move_window(m, clust2sect(p.dir[1])), Shape(w),
         NEW y, y = Enter(w, p.dir[2], NewEntry(w, p)), NEW z, z = PutEntry(m, f)
  PROVE  z = IF OK(w) THEN sync_fs(Unwritten(y, f)) ELSE w
BY DEF PutEntry, Then, Enter, NewEntry, Unwritten, Shape

(* PutEntry: the entry says no more than the chain holds.  *)
LEMMA PutsEntry ==
  ASSUME NEW m, NEW R, NEW C, Good(m, R, C), NEW f \in Files, Valid(m, f), OK(m), NEW z, z = PutEntry(m, f)
  PROVE  Good(z, R, C)
<1>n. PICK n \in Names : n = NameOf(f)
  BY DEF NameOf, Names
<1>p. PICK p : p = m.fil[f]
  OBVIOUS
<1>d. Layout(Effective(m), R, C) /\ R \in Seq(Clusters) /\ Held(m, R, C)
  BY ChainsAre DEF Good, Held
<1>f. FileOk(Effective(m), R, C[n], p, n)
  BY <1>n, <1>p, ValidIs DEF FileOf
<1>q. PICK q \in Slots(R) : Place(Effective(m), R, q, p, n)
  BY <1>f DEF FileOk
<1>s. PICK s \in Cached(Members(R)) : s = clust2sect(p.dir[1]) /\ s = clust2sect(R[q[1]]) /\ p.dir[2] = q[2]
  <2>1. p.dir[1] = R[q[1]] /\ p.dir[2] = q[2] /\ R[q[1]] \in Members(R)
    BY <1>d, <1>q, SlotsAre DEF Place
  <2> QED BY <2>1 DEF Cached
<1>w. PICK w : w = move_window(m, s)
  OBVIOUS
<1>1. /\ Held(w, R, C) /\ Keeps(m, w)
      /\ OK(w) => w.fs.winsect = s /\ w.fs.win = Effective(m)[s]
  BY <1>d, <1>w, MovesWindow
<1>2. Good(w, R, C) /\ Valid(w, f) /\ Effective(w) = Effective(m) /\ w.fil = m.fil
  BY <1>1, KeepsGood DEF Keeps, Valid
<1>e. PICK e : e = NewEntry(w, p)
  OBVIOUS
<1>y. PICK y : y = Enter(w, q[2], e)
  OBVIOUS
<1>u. PICK u : u = Unwritten(y, f)
  OBVIOUS
<1>3. z = IF OK(w) THEN sync_fs(u) ELSE w
  <2>1. /\ w = move_window(m, clust2sect(p.dir[1])) /\ Shape(w)
        /\ y = Enter(w, p.dir[2], NewEntry(w, p))
    BY <1>1, <1>e, <1>s, <1>w, <1>y DEF Held, Raw
  <2> QED BY <1>p, <1>u, <2>1, PutEntryIs
<1>4. CASE ~OK(w)
  BY <1>2, <1>3, <1>4
<1>5. CASE OK(w)
  <2>1. Taking(Effective(w), R, q, n) /\ w.fs.winsect = clust2sect(R[q[1]]) /\ w.fs.win = Effective(w)[clust2sect(R[q[1]])]
    BY <1>1, <1>2, <1>5, <1>q, <1>s DEF Place
  <2>2. e = Entry(n, p.sclust, p.fsize)
    <3>1. w.fs.win[p.dir[2]][1] = n
      BY <1>s, <2>1 DEF Taking, At
    <3> QED BY <1>e, <3>1 DEF NewEntry
  <2>3. PICK a \in Nat, x \in Nat : a = p.sclust /\ x = p.fsize /\ Holds(a, x, C[n])
    BY <1>f DEF FileOk
  <2>4. Before(Effective(w), R, Rank(q))
    <3>1. ~IsUnit(At(Effective(w), R, q))
      BY <2>1 DEF Taking
    <3> QED BY <1>1, <3>1 DEF Held, Layout, Directory, Before
  <2>5. \A t \in Slots(R) : Taking(Effective(w), R, t, n) => t = q
    BY <1>1, <2>1 DEF Held, Layout, Directory
  <2>6. e = Entry(n, a, x) /\ ~IsUnit(e) /\ e[1] = n /\ e[2] = a
    BY <2>2, <2>3, EntryIs
  <2>7. /\ Held(y, R, C) /\ SlotSet(Effective(w), Effective(y), R, q, e)
        /\ y.fil = w.fil /\ y.fs.fs_type = w.fs.fs_type /\ y.dir = w.dir /\ y.res = w.res
    BY <1>1, <1>y, <2>1, <2>3, <2>4, <2>5, <2>6, Enters
  <2>8. Good(y, R, C) /\ Valid(y, f)
    <3>1. FilesOk(Effective(w), R, C, w.fil) /\ w.fil[f].fs /\ w.fil[f] = p
      BY <1>2, <1>p DEF Good, Valid
    <3>2. Place(Effective(w), R, q, w.fil[f], NameOf(f)) /\ e[1] = NameOf(f) /\ e[2] = w.fil[f].sclust
      BY <1>2, <1>n, <1>q, <2>3, <2>6, <3>1
    <3>3. FilesOk(Effective(y), R, C, w.fil)
      BY <2>6, <2>7, <3>1, <3>2, EntryFiles
    <3> QED BY <1>2, <2>7, <3>3 DEF Good, Valid
  <2>9. Good(u, R, C) /\ Valid(u, f) /\ OK(u)
    <3>1. PICK r : Alike(y.fil[f], r) /\ Changed(y, u, f, r) /\ u.res = y.res
      BY <1>u, <2>7, UnwrittenIs DEF Held, Raw
    <3> QED BY <1>5, <2>7, <2>8, <3>1, ChangesAlike DEF OK
  <2>10. Grown(u, R, C, z, R, C, Names)
    BY <1>3, <1>5, <2>9, SyncsFs DEF Good
  <2> QED BY <2>9, <2>10, GrownGood
<1> QED BY <1>4, <1>5

SyncIs(w, v, b, f) ==
  \/ ~OK(v) /\ w = v
  \/ OK(v) /\ w = v
  \/ OK(v) /\ ~OK(b) /\ w = b
  \/ OK(v) /\ OK(b) /\ w = PutEntry(b, f)

(* f_sync, written out.  *)
LEMMA SyncSteps ==
  ASSUME NEW m, NEW f, NEW v, v = validate(m, f), NEW b, b = PutBuffer(v, f), NEW w, w = f_sync(m, f)
  PROVE  SyncIs(w, v, b, f)
BY DEF f_sync, SyncIs, Then

(* f_sync, whose three writes (data, FAT, entry) may each be the last: the   *)
(* entry never claims more than the chain holds.                             *)
THEOREM Syncs ==
  ASSUME NEW m, NEW R, NEW C, Good(m, R, C), OK(m), NEW f \in Files, NEW w, w = f_sync(m, f)
  PROVE  Good(w, R, C)
<1>v. PICK v : v = validate(m, f)
  OBVIOUS
<1>b. PICK b : b = PutBuffer(v, f)
  OBVIOUS
<1>i. SyncIs(w, v, b, f)
  BY <1>v, <1>b, SyncSteps
<1>1. Good(v, R, C) /\ (OK(v) => Valid(v, f))
  BY <1>v, Validates
<1>2. OK(v) => Good(b, R, C) /\ Valid(b, f)
  BY <1>1, <1>b, PutsBuffer
<1>3. OK(v) /\ OK(b) /\ w = PutEntry(b, f) => Good(w, R, C)
  BY <1>2, PutsEntry
<1> QED BY <1>1, <1>2, <1>3, <1>i DEF SyncIs

(* f_close: as f_sync, and a file that could not be written stays open as it *)
(* was.                                                                      *)
THEOREM Closes ==
  ASSUME NEW m, NEW R, NEW C, Good(m, R, C), OK(m), NEW f \in Files, NEW w, w = f_close(m, f)
  PROVE  Good(w, R, C)
<1>s. PICK s : s = f_sync(m, f)
  OBVIOUS
<1>1. Good(s, R, C)
  BY <1>s, Syncs
<1>2. w = IF OK(s) THEN [s EXCEPT !.fil[f] = NoFile] ELSE s
  BY <1>s DEF f_close, Then
<1>3. CASE OK(s)
  BY <1>1, <1>2, <1>3, Forgets
<1>4. CASE ~OK(s)
  BY <1>1, <1>2, <1>4
<1> QED BY <1>3, <1>4
------------------------------------------------------------------------------
(* The position in a file.  *)
Moved(o, p, c, x) ==
  /\ p.fs = o.fs /\ p.sclust = o.sclust /\ p.fsize = o.fsize /\ p.dsect = o.dsect /\ p.buf = o.buf /\ p.dir = o.dir
  /\ p.dirty => o.dirty
  /\ p.clust = c /\ p.fptr = x

(* A position at the boundary of a cluster.  *)
LEMMA FileOkMoved ==
  ASSUME NEW D, NEW R, NEW ch, NEW o, NEW n, FileOk(D, R, ch, o, n), o.sclust # 0,
         NEW k \in 1 .. Len(ch), NEW c, c = ch[k], NEW x \in Nat, x <= SS * k, x % SS = 0, NEW p, Moved(o, p, c, x)
  PROVE  FileOk(D, R, ch, p, n)
<1>1. \E q \in Slots(R) : Place(D, R, q, p, n)
  BY DEF FileOk, Moved, Place
<1> QED BY <1>1 DEF FileOk, Moved, Inside

(* A file is moved to the boundary of a cluster.  *)
LEMMA ChangesMoved ==
  ASSUME NEW m, NEW R, NEW C, Good(m, R, C), NEW f \in Files, Valid(m, f), m.fil[f].sclust # 0,
         NEW k \in 1 .. Len(C[NameOf(f)]), NEW c, c = C[NameOf(f)][k], NEW x \in Nat, x <= SS * k, x % SS = 0,
         NEW p, Moved(m.fil[f], p, c, x), NEW w, Changed(m, w, f, p)
  PROVE  Good(w, R, C) /\ Valid(w, f) /\ w.fil[f] = p /\ Effective(w) = Effective(m)
<1>1. FileOk(Effective(m), R, C[NameOf(f)], m.fil[f], NameOf(f))
  BY ValidIs DEF FileOf
<1>2. FileOk(Effective(m), R, C[NameOf(f)], p, NameOf(f))
  BY <1>1, FileOkMoved
<1>3. Good(w, R, C) /\ w.fil[f] = p /\ Effective(w) = Effective(m)
  BY <1>2, ChangesWell
<1> QED BY <1>3 DEF Valid, Moved, Changed

By(m, f, n) == [m EXCEPT !.fil[f].fptr = @ + n]
On(m, f, c, n) == [m EXCEPT !.fil[f].clust = c, !.fil[f].fptr = @ + n]

(* A move within the cluster, written out.  *)
LEMMA ByIs ==
  ASSUME NEW m, Shape(m), NEW f \in Files, NEW n, NEW w, w = By(m, f, n)
  PROVE  w.res = m.res /\ \E p : Moved(m.fil[f], p, m.fil[f].clust, m.fil[f].fptr + n) /\ Changed(m, w, f, p)
<1>1. PICK p : p = [m.fil[f] EXCEPT !.fptr = @ + n]
  OBVIOUS
<1>2. Changed(m, w, f, p) /\ w.res = m.res
  BY <1>1 DEF By, Changed, Shape, FileFields
<1>3. Moved(m.fil[f], p, m.fil[f].clust, m.fil[f].fptr + n)
  BY <1>1 DEF Moved, Shape
<1> QED BY <1>2, <1>3

(* A move to the next cluster, written out.  *)
LEMMA OnIs ==
  ASSUME NEW m, Shape(m), NEW f \in Files, NEW c, NEW n, NEW w, w = On(m, f, c, n)
  PROVE  w.res = m.res /\ \E p : Moved(m.fil[f], p, c, m.fil[f].fptr + n) /\ Changed(m, w, f, p)
<1>1. PICK p : p = [m.fil[f] EXCEPT !.clust = c, !.fptr = @ + n]
  OBVIOUS
<1>2. Changed(m, w, f, p) /\ w.res = m.res
  BY <1>1 DEF On, Changed, Shape, FileFields
<1>3. Moved(m.fil[f], p, c, m.fil[f].fptr + n)
  BY <1>1 DEF Moved, Shape
<1> QED BY <1>2, <1>3
------------------------------------------------------------------------------
(* The sector of a file is read into its buffer.  *)
LEMMA DataIsPlain ==
  ASSUME NEW m, NEW R, NEW C, Held(m, R, C), NEW c \in Clusters, c \notin Members(R)
  PROVE  Plain(m.disk[clust2sect(c)])
BY DEF Held, Raw, VolumeIn, Layout

Loaded(o, p, c) ==
  /\ p.fs = o.fs /\ p.sclust = o.sclust /\ p.fsize = o.fsize /\ p.dir = o.dir
  /\ p.dirty = o.dirty
  /\ p.clust = o.clust /\ p.fptr = o.fptr
  /\ p.dsect = c /\ Plain(p.buf)

(* A buffer of a sector of the file.  *)
LEMMA FileOkLoaded ==
  ASSUME NEW D, NEW R, NEW ch, NEW o, NEW n, FileOk(D, R, ch, o, n), NEW c \in Members(ch),
         NEW p, Loaded(o, p, c)
  PROVE  FileOk(D, R, ch, p, n)
<1>1. \E q \in Slots(R) : Place(D, R, q, p, n)
  BY DEF FileOk, Loaded, Place
<1>2. Plain(p.buf) /\ DOMAIN p.buf = 1 .. SS
  BY DEF Loaded, Plain
<1> QED BY <1>1, <1>2 DEF FileOk, Loaded, Inside

Loads(m, f, c, b) == [m EXCEPT !.fil[f].dsect = c, !.fil[f].buf = b]

Buffers(o, p, c, b) == p = [o EXCEPT !.dsect = c, !.buf = b]

(* The buffer is filled, written out.  *)
LEMMA LoadsAre ==
  ASSUME NEW m, Shape(m), NEW f \in Files, NEW c, NEW b, NEW w, w = Loads(m, f, c, b),
         NEW p, Buffers(m.fil[f], p, c, b)
  PROVE  Changed(m, w, f, p) /\ w.res = m.res
BY DEF Loads, Changed, Shape, FileFields, Buffers

(* The buffer is filled with data.  *)
LEMMA LoadsIs ==
  ASSUME NEW m, Shape(m), NEW f \in Files, NEW c, NEW b, Plain(b), NEW w, w = Loads(m, f, c, b)
  PROVE  w.res = m.res /\ \E p : Loaded(m.fil[f], p, c) /\ Changed(m, w, f, p)
<1>1. PICK p : Buffers(m.fil[f], p, c, b)
  BY DEF Buffers
<1>2. Changed(m, w, f, p) /\ w.res = m.res
  BY <1>1, LoadsAre
<1>3. Loaded(m.fil[f], p, c)
  BY <1>1 DEF Loaded, Shape, Buffers
<1> QED BY <1>2, <1>3

(* Load, written out.  *)
LEMMA LoadIs ==
  ASSUME NEW m, NEW f, NEW c, NEW r, r = disk_read(m), NEW b, b = r.disk[clust2sect(c)], NEW w, w = Load(m, f, c)
  PROVE  w = IF OK(r) THEN Loads(r, f, c, b) ELSE Abort(r, f, "DISK_ERR")
BY DEF Load, Loads

(* Load reads a sector of the file.  *)
LEMMA LoadsData ==
  ASSUME NEW m, NEW R, NEW C, Good(m, R, C), NEW f \in Files, Valid(m, f),
         NEW c \in Members(C[NameOf(f)]), NEW w, w = Load(m, f, c)
  PROVE  Good(w, R, C) /\ Valid(w, f) /\ (OK(w) => Loaded(m.fil[f], w.fil[f], c))
<1>n. NameOf(f) \in Names
  BY DEF NameOf, Names
<1>r. PICK r : r = disk_read(m)
  OBVIOUS
<1>b. PICK b : b = r.disk[clust2sect(c)]
  OBVIOUS
<1>w. w = IF OK(r) THEN Loads(r, f, c, b) ELSE Abort(r, f, "DISK_ERR")
  BY <1>r, <1>b, LoadIs
<1>1. Held(r, R, C) /\ Keeps(m, r)
  BY <1>r, DiskReads DEF Good
<1>2. Good(r, R, C) /\ Valid(r, f) /\ r.fil = m.fil
  BY <1>1, KeepsGood DEF Keeps, Valid
<1>3. c \in Clusters /\ c \notin Members(R)
  BY <1>n, OfFile DEF Good, Held
<1>4. CASE OK(r)
  <2>1. w = Loads(r, f, c, b)
    BY <1>4, <1>w
  <2>2. Plain(b)
    BY <1>1, <1>3, <1>b, DataIsPlain
  <2>3. PICK p : Loaded(r.fil[f], p, c) /\ Changed(r, w, f, p)
    BY <1>1, <2>1, <2>2, LoadsIs DEF Held, Raw
  <2>4. FileOk(Effective(r), R, C[NameOf(f)], r.fil[f], NameOf(f))
    BY <1>2, ValidIs DEF FileOf
  <2>5. FileOk(Effective(r), R, C[NameOf(f)], p, NameOf(f))
    BY <2>3, <2>4, FileOkLoaded
  <2>6. Good(w, R, C) /\ w.fil[f] = p
    BY <1>2, <2>3, <2>5, ChangesWell
  <2> QED BY <1>2, <2>3, <2>6 DEF Valid, Loaded, Changed
<1>5. CASE ~OK(r)
  <2>1. Good(w, R, C) /\ Valid(w, f) /\ w.res = "DISK_ERR"
    BY <1>2, <1>5, <1>w, Aborts
  <2> QED BY <2>1 DEF OK
<1> QED BY <1>4, <1>5
------------------------------------------------------------------------------
(* f_lseek: the chain of a file is followed, or stretched.  *)
LinkFound(m, R, C, f, k, w, B) ==
  /\ Grown(m, R, C, w, R, B, Names)
  /\ OK(w) => w.val \notin Clusters \/ (k + 1 \in 1 .. Len(B[NameOf(f)]) /\ w.val = B[NameOf(f)][k + 1])

(* LinkAfter: the next cluster, if there is one.  *)
LEMMA Follows ==
  ASSUME NEW m, NEW R, NEW C, Held(m, R, C), OK(m), NEW f \in Files,
         NEW k \in 1 .. Len(C[NameOf(f)]), NEW c, c = C[NameOf(f)][k],
         NEW w, w = LinkAfter(m, f, c)
  PROVE  \E B : LinkFound(m, R, C, f, k, w, B)
<1>n. PICK n \in Names : n = NameOf(f)
  BY DEF NameOf, Names
<1>d. Layout(Effective(m), R, C) /\ C[n] \in Seq(Clusters) /\ Chained(Effective(m), C[n]) /\ Len(C[n]) \in Nat
  BY ChainsAre DEF Held, Layout, Chains
<1>1. CASE w = create_chain(m, c)
  <2>1. PICK B : /\ Grown(m, R, C, w, R, B, Names)
                 /\ OK(w) => w.val = 0 \/ (k + 1 \in 1 .. Len(B[n]) /\ w.val = B[n][k + 1])
    BY <1>1, <1>n, StretchesFile
  <2> QED BY <1>n, <2>1, ClustersAre DEF LinkFound
<1>2. CASE w = get_fat(m, c)
  <2>1. Held(w, R, C) /\ Keeps(m, w) /\ (OK(w) => w.val = IF k = Len(C[n]) THEN EOC ELSE C[n][k + 1])
    BY <1>2, <1>n, <1>d, ChainFollowed
  <2>2. Grown(m, R, C, w, R, C, Names)
    BY <2>1, GrownKeeps
  <2>3. k # Len(C[n]) => k + 1 \in 1 .. Len(C[n])
    BY <1>n, <1>d
  <2> QED BY <1>n, <2>1, <2>2, <2>3, ClustersAre DEF LinkFound
<1> QED BY <1>1, <1>2 DEF LinkAfter

(* The seek stands at the start of the k-th cluster.  *)
Starts(m, R, C, f, k, c) ==
  /\ Good(m, R, C) /\ Valid(m, f) /\ OK(m)
  /\ k \in 1 .. Len(C[NameOf(f)]) /\ c = C[NameOf(f)][k]
  /\ m.fil[f].sclust # 0 /\ m.fil[f].clust = c /\ m.fil[f].fptr = SS * (k - 1)

Sought(p, f) ==
  /\ p.ofs \in Nat
  /\ p.ofs = 0 => GoodMachine(p.m)
  /\ p.ofs # 0 => \E R, C, k : Starts(p.m, R, C, f, k, p.clst)

SeekIs(q, p, f, c) ==
  \/ p.ofs = 0 /\ q = p
  \/ p.ofs # 0 /\ p.ofs < SS /\ q.ofs = 0 /\ q.m = Load(By(p.m, f, p.ofs), f, p.clst)
  \/ p.ofs # 0 /\ q.ofs = 0 /\ q.m = By(p.m, f, SS)
  \/ p.ofs # 0 /\ q.ofs = 0 /\ q.m = Abort(c, f, "DISK_ERR")
  \/ p.ofs # 0 /\ OK(c) /\ q.ofs = 0 /\ q.m = By(c, f, SS)
  \/ p.ofs # 0 /\ OK(c) /\ q.ofs = 0 /\ q.m = Abort(c, f, "INT_ERR")
  \/ /\ p.ofs # 0 /\ OK(c) /\ c.val \in Clusters /\ p.ofs > SS
     /\ q.m = On(c, f, c.val, SS) /\ q.clst = c.val /\ q.ofs = p.ofs - SS

(* A pass of f_lseek, written out.  *)
LEMMA SeekSteps ==
  ASSUME NEW p, p.ofs \in Nat, NEW f, NEW c, c = LinkAfter(p.m, f, p.clst), NEW q, q = SeekPass(p, f)
  PROVE  SeekIs(q, p, f, c)
<1>s. SS \in Nat
  BY SizesAssumption
<1>1. CASE p.ofs = 0
  BY <1>1 DEF SeekPass, SeekIs
<1>2. CASE p.ofs # 0 /\ p.ofs < SS
  BY <1>2 DEF SeekPass, SeekIs, By
<1>3. CASE p.ofs # 0 /\ ~(p.ofs < SS) /\ p.ofs = SS
  BY <1>3 DEF SeekPass, SeekIs, By
<1>4. CASE p.ofs # 0 /\ ~(p.ofs < SS) /\ p.ofs # SS /\ ~OK(c)
  BY <1>4 DEF SeekPass, SeekIs
<1>5. CASE p.ofs # 0 /\ ~(p.ofs < SS) /\ p.ofs # SS /\ OK(c) /\ c.val = 0 /\ p.m.fil[f].write
  BY <1>5 DEF SeekPass, SeekIs, By
<1>6. CASE p.ofs # 0 /\ ~(p.ofs < SS) /\ p.ofs # SS /\ OK(c) /\ ~(c.val = 0 /\ p.m.fil[f].write) /\ c.val \notin Clusters
  BY <1>6 DEF SeekPass, SeekIs
<1>7. CASE p.ofs # 0 /\ ~(p.ofs < SS) /\ p.ofs # SS /\ OK(c) /\ ~(c.val = 0 /\ p.m.fil[f].write) /\ c.val \in Clusters
  <2>1. p.ofs > SS
    BY <1>7, <1>s
  <2>2. q = [m |-> On(c, f, c.val, SS), clst |-> c.val, ofs |-> p.ofs - SS]
    BY <1>7 DEF SeekPass, On
  <2> QED BY <1>7, <2>1, <2>2 DEF SeekIs
<1> QED BY <1>1, <1>2, <1>3, <1>4, <1>5, <1>6, <1>7

(* The multiples of the size of a sector.  *)
LEMMA Multiples ==
  ASSUME NEW k \in Nat \ {0}
  PROVE  /\ SS * k \in Nat /\ SS * (k - 1) \in Nat /\ SS * (k - 1) + SS = SS * k /\ (SS * k) % SS = 0
         /\ SS * k <= SS * (k + 1) /\ SS * ((k + 1) - 1) = SS * k
         /\ \A x \in Nat : x < SS => SS * (k - 1) + x \in Nat /\ SS * (k - 1) + x <= SS * k
<1>1. PICK j \in Nat : k = j + 1
  <2>1. k - 1 \in Nat /\ k = (k - 1) + 1
    OBVIOUS
  <2> QED BY <2>1
<1>s. SS \in Nat
  BY SizesAssumption
<1>3. \A i \in Nat : (SS * i) % SS = 0
  BY SizesAssumption
<1>2. SS * j \in Nat /\ SS * k = SS * j + SS /\ SS * (k + 1) = SS * j + SS + SS /\ k - 1 = j /\ (k + 1) - 1 = k
  BY <1>1, <1>s
<1> QED BY <1>2, <1>3, <1>s

(* The buffer is loaded at a position within its sector.  *)
LoadedBy(o, p, c, x, b) ==
  /\ p.fs = o.fs /\ p.sclust = o.sclust /\ p.fsize = o.fsize /\ p.dir = o.dir
  /\ p.dirty = o.dirty
  /\ p.clust = o.clust /\ p.fptr = x
  /\ (p.dsect = c /\ p.buf = b) \/ (p.dsect = o.dsect /\ p.buf = o.buf /\ p.err # "OK")

(* A move into a cluster, whose sector is read.  *)
LEMMA LoadByIs ==
  ASSUME NEW m, Shape(m), NEW f \in Files, NEW n, NEW c, NEW r, r = disk_read(m), NEW z, z = r.disk[clust2sect(c)],
         NEW x, x = m.fil[f].fptr + n, NEW w, w = Load(By(m, f, n), f, c)
  PROVE  \E p : LoadedBy(m.fil[f], p, c, x, z) /\ Changed(r, w, f, p)
<1>y. PICK y, o : y = By(m, f, n) /\ o = [m.fil[f] EXCEPT !.fptr = x]
  OBVIOUS
<1>1. /\ DOMAIN y = DOMAIN m /\ y.disk = m.disk /\ y.cards = m.cards /\ y.fs = m.fs /\ y.dir = m.dir /\ y.fail = m.fail
      /\ y.selected = m.selected /\ y.res = m.res /\ y.fil = [m.fil EXCEPT ![f] = o]
  BY <1>y DEF By, Shape
<1>s. PICK s, b : s = disk_read(y) /\ b = s.disk[clust2sect(c)]
  OBVIOUS
<1>2. /\ DOMAIN s = DOMAIN m /\ s.disk = m.disk /\ s.cards = m.cards /\ s.fs = m.fs /\ s.dir = m.dir /\ s.fil = y.fil
  BY <1>1, <1>s DEF disk_read, Refused, Shape
<1>3. DOMAIN r = DOMAIN m /\ r.disk = m.disk /\ r.cards = m.cards /\ r.fs = m.fs /\ r.dir = m.dir /\ r.fil = m.fil
  BY DEF disk_read, Refused, Shape
<1>7. Shape(s) /\ s.fil[f] = o /\ FileFields \subseteq DOMAIN o
  BY <1>1, <1>2, <1>y DEF Shape, FileFields
<1>8. ASSUME NEW p, Changed(s, w, f, p)
      PROVE  Changed(r, w, f, p)
  <2>1. [s.fil EXCEPT ![f] = p] = [m.fil EXCEPT ![f] = p]
    BY <1>1, <1>2
  <2> QED BY <1>2, <1>3, <1>8, <2>1 DEF Changed
<1>4. w = IF OK(s) THEN Loads(s, f, c, b) ELSE Abort(s, f, "DISK_ERR")
  BY <1>y, <1>s, LoadIs
<1>5. CASE OK(s)
  <2>1. PICK p : Buffers(s.fil[f], p, c, z)
    BY DEF Buffers
  <2>2. Changed(s, w, f, p)
    <3>1. w = Loads(s, f, c, z)
      BY <1>2, <1>3, <1>4, <1>5, <1>s
    <3>2. Shape(s)
      BY <1>7
    <3> QED BY <2>1, <3>1, <3>2, LoadsAre
  <2>3. LoadedBy(m.fil[f], p, c, x, z)
    <3>1. p = [o EXCEPT !.dsect = c, !.buf = z]
      BY <1>7, <2>1 DEF Buffers
    <3> QED BY <1>y, <3>1 DEF LoadedBy, Shape
  <2> QED BY <1>8, <2>2, <2>3
<1>6. CASE ~OK(s)
  <2>1. PICK p : p = [o EXCEPT !.err = "DISK_ERR"]
    OBVIOUS
  <2>2. Changed(s, w, f, p)
    <3>1. w = Abort(s, f, "DISK_ERR")
      BY <1>4, <1>6
    <3> QED BY <1>7, <2>1, <3>1 DEF Abort, Changed, Shape, FileFields
  <2>3. LoadedBy(m.fil[f], p, c, x, z)
    BY <1>y, <2>1 DEF LoadedBy, Shape
  <2> QED BY <1>8, <2>2, <2>3
<1> QED BY <1>5, <1>6

(* A position within the sector that has been read.  *)
LEMMA FileOkLoadedBy ==
  ASSUME NEW D, NEW R, NEW ch, NEW o, NEW n, FileOk(D, R, ch, o, n), o.sclust # 0,
         NEW k \in 1 .. Len(ch), NEW c, c = ch[k], c = o.clust, NEW x \in Nat, x <= SS * k,
         NEW b, Plain(b), NEW p, LoadedBy(o, p, c, x, b)
  PROVE  FileOk(D, R, ch, p, n)
<1>1. \E q \in Slots(R) : Place(D, R, q, p, n)
  BY DEF FileOk, LoadedBy, Place
<1>2. Plain(p.buf) /\ DOMAIN p.buf = 1 .. SS
  BY DEF LoadedBy, Plain, FileOk
<1>3. c \in Members(ch)
  BY DEF Members
<1>4. p.dirty \/ Inside(p) => p.dsect \in Members(ch)
  BY <1>3 DEF FileOk, LoadedBy, Inside
<1> QED BY <1>1, <1>2, <1>4 DEF FileOk, LoadedBy

(* A file is moved into a sector that is read.  *)
LEMMA LoadsMoved ==
  ASSUME NEW m, NEW R, NEW C, Good(m, R, C), NEW f \in Files, Valid(m, f), m.fil[f].sclust # 0,
         NEW k \in 1 .. Len(C[NameOf(f)]), NEW c, c = C[NameOf(f)][k], c = m.fil[f].clust, NEW x \in Nat, x <= SS * k,
         NEW r, r = disk_read(m), NEW z, z = r.disk[clust2sect(c)],
         NEW p, LoadedBy(m.fil[f], p, c, x, z), NEW w, Changed(r, w, f, p)
  PROVE  Good(w, R, C)
<1>n. NameOf(f) \in Names /\ C[NameOf(f)] \in Seq(Clusters)
  BY ChainsAre DEF NameOf, Names, Good, Held
<1>1. Held(r, R, C) /\ Keeps(m, r)
  BY DiskReads DEF Good
<1>2. Good(r, R, C) /\ Valid(r, f) /\ r.fil = m.fil
  BY <1>1, KeepsGood DEF Keeps, Valid
<1>3. c \in Clusters /\ c \notin Members(R)
  <2>1. c \in Members(C[NameOf(f)])
    BY <1>n, MembersAre
  <2> QED BY <1>n, <2>1, OfFile DEF Good, Held
<1>4. Plain(z)
  BY <1>1, <1>3, DataIsPlain
<1>5. FileOk(Effective(r), R, C[NameOf(f)], r.fil[f], NameOf(f))
  BY <1>2, ValidIs DEF FileOf
<1>6. FileOk(Effective(r), R, C[NameOf(f)], p, NameOf(f))
  BY <1>2, <1>4, <1>5, FileOkLoadedBy
<1> QED BY <1>2, <1>6, ChangesWell

(* A pass of f_lseek.  *)
LEMMA SeekPasses ==
  ASSUME NEW f \in Files, NEW p, Sought(p, f), NEW q, q = SeekPass(p, f)
  PROVE  Sought(q, f)
<1>c. PICK c : c = LinkAfter(p.m, f, p.clst)
  OBVIOUS
<1>i. SeekIs(q, p, f, c) /\ p.ofs \in Nat /\ SS \in Nat
  BY <1>c, SeekSteps, SizesAssumption DEF Sought
<1>1. CASE p.ofs = 0
  BY <1>1, <1>i DEF SeekIs
<1>2. CASE p.ofs # 0
  <2>n. PICK n \in Names : n = NameOf(f)
    BY DEF NameOf, Names
  <2>1. PICK R, C, k : Starts(p.m, R, C, f, k, p.clst)
    BY <1>2 DEF Sought
  <2>2. /\ Good(p.m, R, C) /\ Valid(p.m, f) /\ OK(p.m) /\ p.m.fil[f].sclust # 0 /\ Shape(p.m)
        /\ k \in 1 .. Len(C[n]) /\ p.clst = C[n][k] /\ C[n] \in Seq(Clusters)
        /\ p.m.fil[f].clust = p.clst /\ p.m.fil[f].fptr = SS * (k - 1) /\ Len(C[n]) \in Nat
    BY <2>1, <2>n, ChainsAre DEF Starts, Good, Held, Raw
  <2>k. /\ k \in Nat \ {0} /\ SS * k \in Nat /\ SS * (k - 1) \in Nat /\ SS * (k - 1) + SS = SS * k /\ (SS * k) % SS = 0
        /\ SS * k <= SS * (k + 1) /\ SS * ((k + 1) - 1) = SS * k
        /\ \A x \in Nat : x < SS => SS * (k - 1) + x \in Nat /\ SS * (k - 1) + x <= SS * k
    <3>1. k \in Nat \ {0}
      BY <2>2
    <3> HIDE <2>2
    <3> QED BY <3>1, Multiples
  <2>b. PICK B : LinkFound(p.m, R, C, f, k, c, B)
    BY <1>c, <2>2, <2>n, Follows DEF Good
  <2>3. Good(c, R, B) /\ Valid(c, f) /\ c.fil = p.m.fil /\ Shape(c) /\ c.fil[f].sclust # 0
    <3>1. Grown(p.m, R, C, c, R, B, Names)
      BY <2>b DEF LinkFound
    <3> QED BY <2>2, <3>1, GrownGood DEF Grown, Held, Raw
  <2>4. k \in 1 .. Len(B[n]) /\ p.clst = B[n][k] /\ Len(B[n]) \in Nat
    <3>1. Extends(B[n], C[n])
      BY <2>b DEF LinkFound, Grown, Grows
    <3>2. Len(B[n]) \in Nat
      BY <2>3, ChainsAre DEF Good, Held
    <3> QED BY <2>2, <3>1, <3>2 DEF Extends
  <2>5. CASE p.ofs < SS /\ q.ofs = 0 /\ q.m = Load(By(p.m, f, p.ofs), f, p.clst)
    <3>1. PICK r, x, z : r = disk_read(p.m) /\ x = SS * (k - 1) + p.ofs /\ z = r.disk[clust2sect(p.clst)]
      OBVIOUS
    <3>2. x \in Nat /\ x <= SS * k
      BY <1>i, <2>5, <2>k, <3>1
    <3>3. PICK o : LoadedBy(p.m.fil[f], o, p.clst, x, z) /\ Changed(r, q.m, f, o)
      BY <2>2, <2>5, <3>1, LoadByIs
    <3>4. Good(q.m, R, C)
      BY <2>2, <2>n, <3>1, <3>2, <3>3, LoadsMoved
    <3> QED BY <2>5, <3>4 DEF Sought, GoodMachine
  <2>6. CASE q.ofs = 0 /\ q.m = By(p.m, f, SS)
    <3>1. PICK o, x : Moved(p.m.fil[f], o, p.clst, x) /\ Changed(p.m, q.m, f, o) /\ x = SS * (k - 1) + SS
      BY <2>2, <2>6, ByIs
    <3>2. x \in Nat /\ x <= SS * k /\ x % SS = 0
      BY <2>k, <3>1
    <3>3. Good(q.m, R, C)
      BY <2>2, <2>n, <3>1, <3>2, ChangesMoved
    <3> QED BY <2>6, <3>3 DEF Sought, GoodMachine
  <2>7. CASE q.ofs = 0 /\ \E r : r # "OK" /\ q.m = Abort(c, f, r)
    <3>1. Good(q.m, R, B)
      BY <2>3, <2>7, Aborts
    <3> QED BY <2>7, <3>1 DEF Sought, GoodMachine
  <2>8. CASE q.ofs = 0 /\ q.m = By(c, f, SS)
    <3>1. PICK o, x : Moved(c.fil[f], o, p.clst, x) /\ Changed(c, q.m, f, o) /\ x = SS * (k - 1) + SS
      BY <2>2, <2>3, <2>8, ByIs
    <3>2. x \in Nat /\ x <= SS * k /\ x % SS = 0
      BY <2>k, <3>1
    <3>3. Good(q.m, R, B)
      BY <2>3, <2>4, <2>n, <3>1, <3>2, ChangesMoved
    <3> QED BY <2>8, <3>3 DEF Sought, GoodMachine
  <2>9. CASE /\ OK(c) /\ c.val \in Clusters /\ p.ofs > SS
             /\ q.m = On(c, f, c.val, SS) /\ q.clst = c.val /\ q.ofs = p.ofs - SS
    <3>1. PICK d, l : d = c.val /\ l = k + 1 /\ l \in 1 .. Len(B[n]) /\ d = B[n][l]
      BY <2>9, <2>b, <2>n DEF LinkFound
    <3>2. PICK o, x : Moved(c.fil[f], o, d, x) /\ Changed(c, q.m, f, o) /\ x = SS * (k - 1) + SS /\ q.m.res = c.res
      BY <2>2, <2>3, <2>9, <3>1, OnIs
    <3>3. x \in Nat /\ x <= SS * l /\ x = SS * (l - 1) /\ x % SS = 0
      BY <2>k, <3>1, <3>2
    <3>4. Good(q.m, R, B) /\ Valid(q.m, f) /\ q.m.fil[f] = o
      <4>1. l \in 1 .. Len(B[NameOf(f)]) /\ d = B[NameOf(f)][l] /\ x \in Nat /\ x <= SS * l /\ x % SS = 0
        BY <2>n, <3>1, <3>3
      <4>2. Moved(c.fil[f], o, d, x) /\ Changed(c, q.m, f, o)
        BY <3>2
      <4> QED BY <2>3, <4>1, <4>2, ChangesMoved
    <3>5. Starts(q.m, R, B, f, l, q.clst)
      BY <2>2, <2>3, <2>9, <2>n, <3>1, <3>2, <3>3, <3>4 DEF Starts, Moved, OK
    <3>6. q.ofs \in Nat /\ q.ofs # 0
      BY <1>i, <2>9
    <3> QED BY <3>5, <3>6 DEF Sought
  <2> QED BY <1>2, <1>i, <2>5, <2>6, <2>7, <2>8, <2>9 DEF SeekIs
<1> QED BY <1>1, <1>2
------------------------------------------------------------------------------
(* The offset is sought to its end.  *)
LEMMA Seeks ==
  ASSUME NEW m, NEW f \in Files, NEW R, NEW C, NEW c, Starts(m, R, C, f, 1, c), NEW ofs \in Nat \ {0},
         NEW w, w = Seek(m, f, c, ofs)
  PROVE  GoodMachine(w)
<1>1. PICK g : /\ Seek(m, f, c, ofs) = g[ofs].m
               /\ g[0] = [m |-> m, clst |-> c, ofs |-> ofs]
               /\ \A k \in 1 .. ofs : g[k] = SeekPass(g[k - 1], f)
  BY SeekRuns
<1> DEFINE S == {k \in Nat : k <= ofs => Sought(g[k], f)}
<1>2. 0 \in S
  <2>1. g[0].m = m /\ g[0].clst = c /\ g[0].ofs = ofs
    BY <1>1
  <2> QED BY <2>1 DEF Sought
<1>3. ASSUME NEW k \in Nat, k \in S
      PROVE  k + 1 \in S
  <2>1. SUFFICES ASSUME k + 1 <= ofs
                 PROVE  Sought(g[k + 1], f)
    OBVIOUS
  <2>2. Sought(g[k], f)
    BY <1>3, <2>1
  <2>3. g[k + 1] = SeekPass(g[k], f)
    <3>1. k + 1 \in 1 .. ofs /\ (k + 1) - 1 = k
      BY <2>1
    <3> QED BY <1>1, <3>1
  <2> QED BY <2>2, <2>3, SeekPasses
<1>4. ofs \in S
  <2> HIDE DEF S
  <2> QED BY <1>2, <1>3, Induction
<1>5. Sought(g[ofs], f)
  BY <1>4
<1> QED BY <1>1, <1>5 DEF Sought, Starts, GoodMachine
------------------------------------------------------------------------------
(* The first cluster of a file.  *)
AbortOr(w, c, f) == (OK(c) /\ w = c) \/ (~OK(c) /\ w = Abort(c, f, "DISK_ERR"))

(* OrAbort, written out.  *)
LEMMA OrAbortIs ==
  ASSUME NEW c, NEW f, NEW w, w = OrAbort(c, f)
  PROVE  AbortOr(w, c, f)
BY DEF OrAbort, AbortOr

(* OrAbort.  *)
LEMMA AbortsOr ==
  ASSUME NEW c, NEW R, NEW C, Good(c, R, C), NEW f \in Files, Valid(c, f), NEW w, AbortOr(w, c, f)
  PROVE  Good(w, R, C) /\ Valid(w, f) /\ (OK(w) => w = c)
BY Aborts DEF AbortOr, OK

(* A file that has no cluster has an entry without one.  *)
LEMMA Unstarted ==
  ASSUME NEW m, NEW R, NEW C, Good(m, R, C), NEW f \in Files, Valid(m, f), m.fil[f].sclust = 0
  PROVE  \A p \in Slots(R) : Taking(Effective(m), R, p, NameOf(f)) => At(Effective(m), R, p)[2] = 0
<1>n. NameOf(f) \in Names
  BY DEF NameOf, Names
<1>1. PICK q \in Slots(R) : Place(Effective(m), R, q, m.fil[f], NameOf(f))
  BY ValidIs DEF FileOf, FileOk
<1>2. Taking(Effective(m), R, q, NameOf(f)) /\ At(Effective(m), R, q)[2] = 0
  BY <1>1 DEF Place
<1>3. \A p \in Slots(R) : Taking(Effective(m), R, p, NameOf(f)) => p = q
  BY <1>2, <1>n DEF Good, Held, Layout, Directory
<1> QED BY <1>2, <1>3

(* A file gets its first cluster.  *)
LEMMA StartedGood ==
  ASSUME NEW m, NEW R, NEW C, Good(m, R, C), NEW f \in Files, Valid(m, f), m.fil[f].sclust = 0,
         NEW w, NEW B, Grown(m, R, C, w, R, B, Names \ {NameOf(f)})
  PROVE  Good(w, R, B) /\ Valid(w, f)
<1>1. \A g \in Files : m.fil[g].fs => NameOf(g) \in Names \ {NameOf(f)} \/ m.fil[g].sclust = 0
  <2>1. \A g \in Files \ {f} : NameOf(g) \in Names \ {NameOf(f)}
    BY DEF Files, NameOf, Names
  <2> QED BY <2>1
<1>2. FilesOk(Effective(m), R, C, m.fil) /\ Layout(Effective(m), R, C) /\ m.fs.fs_type # 0
  BY DEF Good, Held, Valid
<1>3. FilesOk(Effective(w), R, B, m.fil)
  BY <1>1, <1>2, FilesCarry
<1> QED BY <1>3 DEF Good, Grown, Valid

Based(w, R, B, m, f) ==
  /\ Good(w, R, B) /\ Valid(w, f)
  /\ OK(w) => w.fil = m.fil
  /\ OK(w) => w.val = 0 \/ (1 \in 1 .. Len(B[NameOf(f)]) /\ w.val = B[NameOf(f)][1])
  /\ OK(w) /\ m.fil[f].sclust # 0 => w.val = m.fil[f].sclust

(* Base, written out.  *)
LEMMA BaseIs ==
  ASSUME NEW m, NEW f, NEW c, c = create_chain(m, 0), NEW w, w = Base(m, f)
  PROVE  (m.fil[f].sclust # 0 /\ w = SetVal(m, m.fil[f].sclust)) \/ (m.fil[f].sclust = 0 /\ AbortOr(w, c, f))
BY OrAbortIs DEF Base, SetVal

(* Base: the first cluster of the file, or a full card.  *)
LEMMA Bases ==
  ASSUME NEW m, NEW R, NEW C, Good(m, R, C), OK(m), NEW f \in Files, Valid(m, f), NEW w, w = Base(m, f)
  PROVE  \E B : Based(w, R, B, m, f)
<1>n. PICK n \in Names : n = NameOf(f)
  BY DEF NameOf, Names
<1>c. PICK c : c = create_chain(m, 0)
  OBVIOUS
<1>d. Held(m, R, C) /\ C[n] \in Seq(Clusters)
  BY ChainsAre DEF Good, Held
<1>1. CASE m.fil[f].sclust # 0 /\ w = SetVal(m, m.fil[f].sclust)
  <2>1. Held(w, R, C) /\ Keeps(m, w) /\ w.val = m.fil[f].sclust /\ w.res = m.res
    BY <1>1, <1>d, SetsVal
  <2>2. Good(w, R, C) /\ w.fil = m.fil /\ Valid(w, f)
    BY <2>1, KeepsGood DEF Keeps, Valid
  <2>3. C[n] # <<>> /\ C[n][1] = m.fil[f].sclust
    BY <1>1, <1>n, ValidIs DEF FileOf, FileOk, Holds
  <2>4. 1 \in 1 .. Len(C[n])
    BY <1>d, <2>3
  <2> QED BY <1>n, <2>1, <2>2, <2>3, <2>4 DEF Based
<1>2. CASE m.fil[f].sclust = 0 /\ AbortOr(w, c, f)
  <2>1. \A p \in Slots(R) : Taking(Effective(m), R, p, n) => At(Effective(m), R, p)[2] = 0
    BY <1>2, <1>n, Unstarted
  <2>2. PICK B : /\ Grown(m, R, C, c, R, B, Names \ {n})
                 /\ OK(c) => FirstOf(c, B[n])
    BY <1>c, <1>d, <2>1, StartsFile
  <2>3. Good(c, R, B) /\ Valid(c, f) /\ c.fil = m.fil
    <3>1. Grown(m, R, C, c, R, B, Names \ {NameOf(f)})
      BY <1>n, <2>2
    <3>2. m.fil[f].sclust = 0
      BY <1>2
    <3> QED BY <3>1, <3>2, StartedGood DEF Grown
  <2>4. Good(w, R, B) /\ Valid(w, f) /\ (OK(w) => w = c)
    BY <1>2, <2>3, AbortsOr
  <2>5. OK(c) => c.val = 0 \/ (1 \in 1 .. Len(B[n]) /\ c.val = B[n][1])
    BY <2>2 DEF FirstOf
  <2>6. OK(w) => OK(c) /\ w.val = c.val /\ w.fil = m.fil
    BY <2>3, <2>4
  <2> QED BY <1>2, <1>n, <2>4, <2>5, <2>6 DEF Based
<1> QED BY <1>1, <1>2, <1>c, BaseIs
------------------------------------------------------------------------------
(* A file stands on a cluster of its chain: on the first when it had none. *)
StoodOn(o, p, c) ==
  /\ p.fs = o.fs /\ p.fsize = o.fsize /\ p.fptr = o.fptr /\ p.dsect = o.dsect /\ p.buf = o.buf /\ p.dir = o.dir
  /\ p.dirty => o.dirty
  /\ p.err = "OK" => o.err = "OK"
  /\ p.clust = c /\ p.sclust = IF o.sclust = 0 THEN c ELSE o.sclust

(* A file that stands on a cluster of its chain.  *)
LEMMA FileOkStood ==
  ASSUME NEW D, NEW R, NEW ch \in Seq(Clusters), NEW o, NEW n, FileOk(D, R, ch, o, n),
         NEW k \in 1 .. Len(ch), NEW c, c = ch[k], o.sclust = 0 => k = 1, o.fptr <= SS * k,
         NEW p, StoodOn(o, p, c)
  PROVE  FileOk(D, R, ch, p, n)
<1>1. c \in Clusters /\ c # 0 /\ c \in Nat
  <2>1. \A i \in 1 .. Len(ch) : ch[i] \in Clusters
    OBVIOUS
  <2> QED BY <2>1, ClustersAre
<1>2. \E q \in Slots(R) : Place(D, R, q, p, n)
  BY <1>1 DEF FileOk, StoodOn, Place
<1>3. p.sclust # 0 /\ p.sclust \in Nat
  BY <1>1 DEF FileOk, StoodOn
<1>4. Holds(p.sclust, p.fsize, ch)
  <2>1. CASE o.sclust # 0
    BY <2>1 DEF FileOk, StoodOn
  <2>2. CASE o.sclust = 0
    <3>1. p.sclust = ch[1] /\ p.fsize = 0 /\ ch # <<>> /\ Len(ch) \in Nat
      BY <2>2 DEF FileOk, StoodOn, Holds
    <3>2. SS * Len(ch) \in Nat
      BY <3>1, SizesAssumption
    <3> QED BY <1>3, <3>1, <3>2 DEF Holds
  <2> QED BY <2>1, <2>2
<1> QED BY <1>2, <1>3, <1>4 DEF FileOk, StoodOn, Inside

(* A file is set on a cluster of its chain.  *)
LEMMA ChangesStood ==
  ASSUME NEW m, NEW R, NEW C, Good(m, R, C), NEW f \in Files, Valid(m, f),
         NEW k \in 1 .. Len(C[NameOf(f)]), NEW c, c = C[NameOf(f)][k],
         m.fil[f].sclust = 0 => k = 1, m.fil[f].fptr <= SS * k,
         NEW p, StoodOn(m.fil[f], p, c), NEW w, Changed(m, w, f, p)
  PROVE  Good(w, R, C) /\ Valid(w, f) /\ w.fil[f] = p /\ p.sclust # 0
<1>n. NameOf(f) \in Names
  BY DEF NameOf, Names
<1>c. C[NameOf(f)] \in Seq(Clusters) /\ c \in Clusters /\ c # 0
  BY <1>n, ChainsAre, ClustersAre DEF Good, Held
<1>1. FileOk(Effective(m), R, C[NameOf(f)], m.fil[f], NameOf(f))
  BY ValidIs DEF FileOf
<1>2. FileOk(Effective(m), R, C[NameOf(f)], p, NameOf(f))
  BY <1>1, <1>c, FileOkStood
<1>3. Good(w, R, C) /\ w.fil[f] = p
  BY <1>2, ChangesWell
<1> QED BY <1>3, <1>c DEF Valid, StoodOn, Changed

Begun(m, f, c) == [m EXCEPT !.fil[f].sclust = c, !.fil[f].clust = c]

(* A file is set on its first cluster.  *)
LEMMA BegunIs ==
  ASSUME NEW m, Shape(m), NEW f \in Files, NEW c, m.fil[f].sclust # 0 => m.fil[f].sclust = c,
         NEW w, w = Begun(m, f, c)
  PROVE  w.res = m.res /\ \E p : StoodOn(m.fil[f], p, c) /\ Changed(m, w, f, p)
<1>1. PICK p : p = [m.fil[f] EXCEPT !.sclust = c, !.clust = c]
  OBVIOUS
<1>2. Changed(m, w, f, p) /\ w.res = m.res
  BY <1>1 DEF Begun, Changed, Shape, FileFields
<1>3. StoodOn(m.fil[f], p, c)
  BY <1>1 DEF StoodOn, Shape
<1> QED BY <1>2, <1>3
------------------------------------------------------------------------------
(* f_lseek and the append that uses it.  *)
LseekIs(w, v, b, u, f, c, ofs) ==
  \/ w = v /\ (~OK(v) \/ ofs = 0)
  \/ OK(v) /\ ofs # 0 /\ w = b
  \/ OK(v) /\ ofs # 0 /\ OK(b) /\ c # 0 /\ w = Seek(u, f, c, ofs)

(* f_lseek, written out.  *)
LEMMA LseekSteps ==
  ASSUME NEW m, NEW f, NEW ofs, NEW v, v = Checked(m, f), NEW b, b = Base(v, f), NEW c, c = b.val,
         NEW u, u = Begun(b, f, c), NEW w, w = f_lseek(m, f, ofs)
  PROVE  LseekIs(w, v, b, u, f, c, ofs)
BY DEF f_lseek, LseekIs, Then, Begun

(* Checked changes nothing when it succeeds.  *)
LEMMA CheckedSame ==
  ASSUME NEW m, OK(m), NEW f, NEW w, w = Checked(m, f), OK(w)
  PROVE  w = m
BY DEF Checked, validate, Then, OK, Fail

(* f_lseek to the end of a file just opened.  *)
LEMMA SeeksFile ==
  ASSUME NEW m, NEW R, NEW C, Good(m, R, C), OK(m), NEW f \in Files, m.fil[f].fptr = 0,
         NEW ofs, ofs = m.fil[f].fsize, NEW w, w = f_lseek(m, f, ofs)
  PROVE  GoodMachine(w)
<1>n. PICK n \in Names : n = NameOf(f)
  BY DEF NameOf, Names
<1>v. PICK v : v = Checked(m, f)
  OBVIOUS
<1>b. PICK b, c : b = Base(v, f) /\ c = b.val
  OBVIOUS
<1>u. PICK u : u = Begun(b, f, c)
  OBVIOUS
<1>i. LseekIs(w, v, b, u, f, c, ofs)
  BY <1>v, <1>b, <1>u, LseekSteps
<1>1. Good(v, R, C) /\ (OK(v) => Valid(v, f) /\ v = m)
  BY <1>v, Checks, CheckedSame
<1>2. OK(v) => ofs \in Nat
  <2>1. OK(v) => FileOf(v, R, C, f)
    BY <1>1, ValidIs
  <2> QED BY <1>1, <2>1 DEF FileOf, FileOk
<1>3. OK(v) => \E B : Based(b, R, B, v, f)
  BY <1>1, <1>b, Bases
<1>4. CASE OK(v) /\ ofs # 0 /\ OK(b) /\ c # 0 /\ w = Seek(u, f, c, ofs)
  <2>1. PICK B : Based(b, R, B, v, f)
    BY <1>3, <1>4
  <2>2. /\ Good(b, R, B) /\ Valid(b, f) /\ b.fil = v.fil /\ Shape(b)
        /\ 1 \in 1 .. Len(B[n]) /\ c = B[n][1] /\ (b.fil[f].sclust # 0 => b.fil[f].sclust = c)
        /\ b.fil[f].fptr = 0
    BY <1>1, <1>4, <1>b, <1>n, <2>1 DEF Based, Good, Held, Raw
  <2>3. PICK p : StoodOn(b.fil[f], p, c) /\ Changed(b, u, f, p) /\ u.res = b.res
    BY <1>u, <2>2, BegunIs
  <2>4. PICK k : k = 1 /\ k \in 1 .. Len(B[n]) /\ c = B[n][k] /\ 0 <= SS * k /\ 0 = SS * (k - 1)
    BY <2>2, SizesAssumption
  <2>5. Good(u, R, B) /\ Valid(u, f) /\ u.fil[f] = p /\ p.sclust # 0
    <3>1. k \in 1 .. Len(B[NameOf(f)]) /\ c = B[NameOf(f)][k] /\ (b.fil[f].sclust = 0 => k = 1) /\ b.fil[f].fptr <= SS * k
      BY <1>n, <2>2, <2>4
    <3> QED BY <2>2, <2>3, <3>1, ChangesStood
  <2>6. p.clust = c /\ p.fptr = 0
    BY <2>2, <2>3 DEF StoodOn
  <2>7. Starts(u, R, B, f, 1, c)
    <3>1. OK(u)
      BY <1>4, <2>3 DEF OK
    <3> QED BY <1>n, <2>2, <2>4, <2>5, <2>6, <3>1 DEF Starts
  <2> QED BY <1>2, <1>4, <2>7, Seeks
<1>5. CASE w = v
  BY <1>1, <1>5 DEF GoodMachine
<1>6. CASE OK(v) /\ w = b
  BY <1>3, <1>6 DEF GoodMachine, Based
<1> QED BY <1>4, <1>5, <1>6, <1>i DEF LseekIs

AppendIs(w, o, s, c, f) ==
  \/ ~OK(o) /\ w = o
  \/ OK(o) /\ OK(s) /\ w = s
  \/ OK(o) /\ ~OK(s) /\ \E r : w = Fail(c, r)

(* f_append, written out.  *)
LEMMA AppendSteps ==
  ASSUME NEW m, NEW f, NEW n, NEW o, o = f_open(m, f, n, TRUE), NEW z, z = o.fil[f].fsize,
         NEW s, s = f_lseek(o, f, z), NEW t, t = Fail(s, "OK"), NEW c, c = f_close(t, f), NEW w, w = f_append(m, f, n)
  PROVE  AppendIs(w, o, s, c, f)
BY DEF f_append, AppendIs, Then

OpenForWrite(m, f, n) == f_open(m, f, n, TRUE)

(* The file of f_append is at its beginning.  *)
LEMMA AppendOpens ==
  ASSUME NEW m, NEW f \in Files, GoodMachine(m), NEW o, o = OpenForWrite(m, f, NameOf(f))
  PROVE  GoodMachine(o) /\ (OK(o) => o.fil[f].fptr = 0)
<1>1. PICK b : b = TRUE
  OBVIOUS
<1>2. o = f_open(m, f, NameOf(f), b)
  BY <1>1 DEF OpenForWrite
<1> QED BY <1>2, OpensFile DEF Untouched

(* f_append, which opens, follows the chain to the end of the file,          *)
(* stretching it when it is too short, and closes the file when it fails:    *)
(* always a volume.                                                          *)
THEOREM Appends ==
  ASSUME NEW m, GoodMachine(m), NEW f \in Files, NEW w, w = f_append(m, f, NameOf(f))
  PROVE  GoodMachine(w)
<1>o. PICK o, z : o = OpenForWrite(m, f, NameOf(f)) /\ z = o.fil[f].fsize
  OBVIOUS
<1>s. PICK s, t : s = f_lseek(o, f, z) /\ t = Fail(s, "OK")
  OBVIOUS
<1>c. PICK c : c = f_close(t, f)
  OBVIOUS
<1>i. AppendIs(w, o, s, c, f)
  <2>1. o = f_open(m, f, NameOf(f), TRUE)
    BY <1>o DEF OpenForWrite
  <2> QED BY <1>o, <1>s, <1>c, <2>1, AppendSteps
<1>1. GoodMachine(o) /\ (OK(o) => o.fil[f].fptr = 0)
  BY <1>o, AppendOpens
<1>2. CASE ~OK(o)
  BY <1>1, <1>2, <1>i DEF AppendIs
<1>3. CASE OK(o)
  <2>1. GoodMachine(s)
    BY <1>1, <1>3, <1>o, <1>s, SeeksFile DEF GoodMachine
  <2>2. PICK R, C : Good(s, R, C)
    BY <2>1 DEF GoodMachine
  <2>3. Held(t, R, C) /\ Keeps(s, t) /\ OK(t)
    BY <1>s, <2>2, SetsRes DEF Good, OK
  <2>4. Good(c, R, C)
    BY <1>c, <2>2, <2>3, KeepsGood, Closes
  <2>5. \A r : Good(Fail(c, r), R, C)
    BY <2>4, SetsRes, KeepsGood DEF Good
  <2> QED BY <1>3, <1>i, <2>1, <2>5 DEF AppendIs, GoodMachine
<1> QED BY <1>2, <1>3
------------------------------------------------------------------------------
(* A file is read and written within the sector of its buffer.  *)
Within(o, p, c, x) ==
  /\ p.fs = o.fs /\ p.sclust = o.sclust /\ p.fsize = o.fsize /\ p.dir = o.dir /\ p.dsect = o.dsect
  /\ Plain(p.buf)
  /\ p.clust = c /\ p.fptr = x

(* A position within the sector of the buffer.  *)
LEMMA FileOkWithin ==
  ASSUME NEW D, NEW R, NEW ch, NEW o, NEW n, FileOk(D, R, ch, o, n), o.sclust # 0, o.dsect \in Members(ch),
         NEW k \in 1 .. Len(ch), NEW c, c = ch[k], NEW x \in Nat, x <= SS * k, NEW p, Within(o, p, c, x)
  PROVE  FileOk(D, R, ch, p, n)
<1>1. \E q \in Slots(R) : Place(D, R, q, p, n)
  BY DEF FileOk, Within, Place
<1>2. Plain(p.buf) /\ DOMAIN p.buf = 1 .. SS
  BY DEF Within, Plain
<1> QED BY <1>1, <1>2 DEF FileOk, Within

(* A file is moved within the sector of its buffer.  *)
LEMMA ChangesWithin ==
  ASSUME NEW m, NEW R, NEW C, Good(m, R, C), NEW f \in Files, Valid(m, f), m.fil[f].sclust # 0,
         m.fil[f].dsect \in Members(C[NameOf(f)]),
         NEW k \in 1 .. Len(C[NameOf(f)]), NEW c, c = C[NameOf(f)][k], NEW x \in Nat, x <= SS * k,
         NEW p, Within(m.fil[f], p, c, x), NEW w, Changed(m, w, f, p)
  PROVE  Good(w, R, C) /\ Valid(w, f) /\ w.fil[f] = p
<1>1. FileOk(Effective(m), R, C[NameOf(f)], m.fil[f], NameOf(f))
  BY ValidIs DEF FileOf
<1>2. FileOk(Effective(m), R, C[NameOf(f)], p, NameOf(f))
  BY <1>1, FileOkWithin
<1>3. Good(w, R, C) /\ w.fil[f] = p
  BY <1>2, ChangesWell
<1> QED BY <1>3 DEF Valid, Within, Changed
------------------------------------------------------------------------------
(* f_read.  *)
ReadOne(m, f, c) == [m EXCEPT !.fil[f].clust = c, !.fil[f].fptr = 1, !.val = 1]

(* One unit is read, written out.  *)
LEMMA ReadOneIs ==
  ASSUME NEW m, Shape(m), NEW f \in Files, NEW c, Plain(m.fil[f].buf), NEW w, w = ReadOne(m, f, c)
  PROVE  \E p : Within(m.fil[f], p, c, 1) /\ Changed(m, w, f, p)
<1>1. PICK p : p = [m.fil[f] EXCEPT !.clust = c, !.fptr = 1]
  OBVIOUS
<1>2. Changed(m, w, f, p)
  BY <1>1 DEF ReadOne, Changed, Shape, FileFields
<1>3. Within(m.fil[f], p, c, 1)
  BY <1>1 DEF Within, Shape
<1> QED BY <1>2, <1>3

FirstIs(w, m, l, f, c) ==
  \/ w = m
  \/ w = Abort(m, f, "INT_ERR")
  \/ m.fil[f].fsize # 0 /\ ~OK(l) /\ w = l
  \/ m.fil[f].fsize # 0 /\ OK(l) /\ w = ReadOne(l, f, c)

(* FirstSector, written out.  *)
LEMMA FirstSteps ==
  ASSUME NEW m, NEW f, NEW c, c = m.fil[f].sclust, NEW l, l = Load(m, f, c), NEW w, w = FirstSector(m, f)
  PROVE  FirstIs(w, m, l, f, c)
BY DEF FirstSector, FirstIs, Then, ReadOne

(* FirstSector.  *)
LEMMA ReadsFirst ==
  ASSUME NEW m, NEW R, NEW C, Good(m, R, C), NEW f \in Files, Valid(m, f), OK(m), NEW w, w = FirstSector(m, f)
  PROVE  Good(w, R, C)
<1>n. PICK n \in Names : n = NameOf(f)
  BY DEF NameOf, Names
<1>c. PICK c : c = m.fil[f].sclust
  OBVIOUS
<1>l. PICK l : l = Load(m, f, c)
  OBVIOUS
<1>i. FirstIs(w, m, l, f, c)
  BY <1>c, <1>l, FirstSteps
<1>1. CASE w = m
  BY <1>1
<1>2. CASE w = Abort(m, f, "INT_ERR")
  BY <1>2, Aborts
<1>3. CASE m.fil[f].fsize # 0
  <2>1. c # 0 /\ c = C[n][1] /\ C[n] # <<>> /\ C[n] \in Seq(Clusters)
    <3>1. FileOk(Effective(m), R, C[n], m.fil[f], n)
      BY <1>n, ValidIs DEF FileOf
    <3>2. C[n] \in Seq(Clusters)
      BY ChainsAre DEF Good, Held
    <3> QED BY <1>3, <1>c, <3>1, <3>2 DEF FileOk, Holds
  <2>2. PICK k : k = 1 /\ k \in 1 .. Len(C[n]) /\ c = C[n][k] /\ 1 <= SS * k
    BY <2>1, SizesAssumption
  <2>3. c \in Members(C[n])
    BY <2>2 DEF Members
  <2>4. Good(l, R, C) /\ Valid(l, f) /\ (OK(l) => Loaded(m.fil[f], l.fil[f], c))
    BY <1>l, <1>n, <2>3, LoadsData
  <2>5. CASE OK(l) /\ w = ReadOne(l, f, c)
    <3>1. l.fil[f].sclust # 0 /\ l.fil[f].dsect \in Members(C[n]) /\ Plain(l.fil[f].buf)
      BY <1>c, <2>1, <2>3, <2>4, <2>5 DEF Loaded
    <3>2. PICK p, x : Within(l.fil[f], p, c, x) /\ Changed(l, w, f, p) /\ x = 1 /\ x \in Nat
      BY <2>4, <2>5, <3>1, ReadOneIs DEF Good, Held, Raw
    <3>3. k \in 1 .. Len(C[NameOf(f)]) /\ c = C[NameOf(f)][k] /\ x <= SS * k /\ l.fil[f].dsect \in Members(C[NameOf(f)])
      BY <1>n, <2>2, <3>1, <3>2
    <3> QED BY <2>4, <3>1, <3>2, <3>3, ChangesWithin
  <2> QED BY <1>1, <1>2, <1>i, <2>4, <2>5 DEF FirstIs
<1> QED BY <1>1, <1>2, <1>3, <1>i DEF FirstIs

ReadIs(w, v, f) == w = IF OK(v) THEN FirstSector(v, f) ELSE v

(* f_read, written out.  *)
LEMMA ReadSteps ==
  ASSUME NEW m, NEW f, NEW u, u = SetVal(m, 0), NEW v, v = Checked(u, f), NEW w, w = f_read(m, f)
  PROVE  ReadIs(w, v, f)
BY DEF f_read, ReadIs, Then, SetVal

(* f_read of a unit: a sector of the file and no other is read into its      *)
(* buffer, and a volume stays one.                                           *)
THEOREM Reads ==
  ASSUME NEW m, GoodMachine(m), OK(m), NEW f \in Files, NEW w, w = f_read(m, f)
  PROVE  GoodMachine(w)
<1>0. PICK R, C : Good(m, R, C)
  BY DEF GoodMachine
<1>u. PICK u : u = SetVal(m, 0)
  OBVIOUS
<1>v. PICK v : v = Checked(u, f)
  OBVIOUS
<1>i. ReadIs(w, v, f)
  BY <1>u, <1>v, ReadSteps
<1>1. Held(u, R, C) /\ Keeps(m, u) /\ OK(u)
  BY <1>0, <1>u, SetsVal DEF Good, OK
<1>2. Good(u, R, C)
  BY <1>0, <1>1, KeepsGood
<1>3. Good(v, R, C) /\ (OK(v) => Valid(v, f))
  BY <1>1, <1>2, <1>v, Checks
<1>4. OK(v) => Good(FirstSector(v, f), R, C)
  BY <1>3, ReadsFirst
<1> QED BY <1>3, <1>4, <1>i DEF ReadIs, GoodMachine
------------------------------------------------------------------------------
(* f_write.  The next cluster has room for a sector more.  *)
Next(w, R, B, m, f) ==
  /\ Good(w, R, B) /\ Valid(w, f)
  /\ OK(w) => w.fil = m.fil
  /\ OK(w) => w.val = 0 \/ \E j \in 1 .. Len(B[NameOf(f)]) :
                /\ w.val = B[NameOf(f)][j] /\ m.fil[f].fptr + SS <= SS * j
                /\ m.fil[f].sclust = 0 => j = 1

(* NextCluster, written out.  *)
LEMMA NextIs ==
  ASSUME NEW m, NEW f, NEW e, e = m.fil[f].clust, NEW c, c = create_chain(m, e), NEW w, w = NextCluster(m, f)
  PROVE  (m.fil[f].fptr # 0 /\ AbortOr(w, c, f)) \/ (m.fil[f].fptr = 0 /\ w = Base(m, f))
BY OrAbortIs DEF NextCluster

(* NextCluster: one with room for a sector, or a full card.  *)
LEMMA Nexts ==
  ASSUME NEW m, NEW R, NEW C, Good(m, R, C), OK(m), NEW f \in Files, Valid(m, f), NEW w, w = NextCluster(m, f)
  PROVE  \E B : Next(w, R, B, m, f)
<1>n. PICK n \in Names : n = NameOf(f)
  BY DEF NameOf, Names
<1>c. PICK c, e : e = m.fil[f].clust /\ c = create_chain(m, e)
  OBVIOUS
<1>f. FileOk(Effective(m), R, C[n], m.fil[f], n)
  BY <1>n, ValidIs DEF FileOf
<1>1. CASE m.fil[f].fptr # 0 /\ AbortOr(w, c, f)
  <2>1. PICK k \in 1 .. Len(C[n]) : e = C[n][k] /\ m.fil[f].fptr <= SS * k
    BY <1>1, <1>c, <1>f DEF FileOk
  <2>2. PICK B : /\ Grown(m, R, C, c, R, B, Names)
                 /\ OK(c) => c.val = 0 \/ (k + 1 \in 1 .. Len(B[n]) /\ c.val = B[n][k + 1])
    <3>1. c = create_chain(m, C[n][k])
      BY <1>c, <2>1
    <3> QED BY <3>1, StretchesFile DEF Good
  <2>3. Good(c, R, B) /\ Valid(c, f) /\ c.fil = m.fil
    BY <2>2, GrownGood DEF Grown
  <2>4. Good(w, R, B) /\ Valid(w, f) /\ (OK(w) => w = c)
    BY <1>1, <2>3, AbortsOr
  <2>5. m.fil[f].fptr + SS <= SS * (k + 1) /\ m.fil[f].sclust # 0
    <3>1. m.fil[f].fptr \in Nat /\ m.fil[f].sclust # 0
      BY <1>1, <1>f DEF FileOk
    <3>2. SS * (k + 1) = SS * k + SS /\ SS * k \in Nat /\ SS \in Nat
      <4>1. k \in Nat \ {0}
        BY <1>n, ChainsAre DEF Good, Held
      <4>2. k + 1 \in Nat \ {0} /\ (k + 1) - 1 = k /\ SS \in Nat
        BY <4>1, SizesAssumption
      <4> QED BY <4>1, <4>2, Multiples
    <3>3. PICK y, z : y = SS * k /\ z = SS * (k + 1)
      OBVIOUS
    <3>4. z = y + SS /\ y \in Nat /\ SS \in Nat /\ m.fil[f].fptr <= y
      BY <2>1, <3>2, <3>3
    <3>5. m.fil[f].fptr + SS <= z
      BY <3>1, <3>4
    <3> QED BY <3>1, <3>3, <3>5
  <2>6. PICK j : j = k + 1 /\ (OK(c) => c.val = 0 \/ (j \in 1 .. Len(B[n]) /\ c.val = B[n][j])) /\ m.fil[f].fptr + SS <= SS * j
    BY <2>2, <2>5
  <2> QED BY <1>n, <2>3, <2>4, <2>5, <2>6 DEF Next
<1>2. CASE m.fil[f].fptr = 0 /\ w = Base(m, f)
  <2>1. PICK B : Based(w, R, B, m, f)
    BY <1>2, Bases
  <2>2. PICK j : j = 1 /\ m.fil[f].fptr + SS <= SS * j
    BY <1>2, SizesAssumption
  <2> QED BY <2>1, <2>2 DEF Based, Next
<1> QED BY <1>1, <1>2, <1>c, NextIs
------------------------------------------------------------------------------
(* The file is set on the cluster, and its buffer written back.  *)
Settled(m, f, c) == [m EXCEPT !.fil[f].clust = c, !.fil[f].sclust = IF @ = 0 THEN c ELSE @]

(* A file is set on a cluster that may be its first.  *)
LEMMA SettledIs ==
  ASSUME NEW m, Shape(m), NEW f \in Files, NEW c, NEW w, w = Settled(m, f, c)
  PROVE  w.res = m.res /\ \E p : StoodOn(m.fil[f], p, c) /\ Changed(m, w, f, p)
<1>1. PICK p : p = [m.fil[f] EXCEPT !.clust = c, !.sclust = IF @ = 0 THEN c ELSE @]
  OBVIOUS
<1>2. Changed(m, w, f, p) /\ w.res = m.res
  BY <1>1 DEF Settled, Changed, Shape, FileFields
<1>3. StoodOn(m.fil[f], p, c)
  BY <1>1 DEF StoodOn, Shape
<1> QED BY <1>2, <1>3

(* Into, written out.  *)
LEMMA IntoIs ==
  ASSUME NEW m, NEW f, NEW c, NEW u, u = Settled(m, f, c), NEW y, y = PutBuffer(u, f), NEW w, w = Into(m, f, c)
  PROVE  AbortOr(w, y, f)
BY OrAbortIs DEF Into, WriteBack, Settled

(* A file that stands on a cluster with room for a sector more.  *)
Room(m, R, C, f, j, c, x) ==
  /\ Good(m, R, C) /\ Valid(m, f) /\ OK(m)
  /\ j \in 1 .. Len(C[NameOf(f)]) /\ c = C[NameOf(f)][j]
  /\ m.fil[f].sclust # 0 /\ m.fil[f].clust = c
  /\ m.fil[f].fptr = x /\ x \in Nat /\ x + SS <= SS * j

(* Into: the file stands on the cluster, its buffer is written.  *)
LEMMA IntoCluster ==
  ASSUME NEW m, NEW R, NEW C, Good(m, R, C), OK(m), NEW f \in Files, Valid(m, f),
         NEW j \in 1 .. Len(C[NameOf(f)]), NEW c, c = C[NameOf(f)][j],
         NEW x, x = m.fil[f].fptr, x + SS <= SS * j, m.fil[f].sclust = 0 => j = 1,
         NEW w, w = Into(m, f, c)
  PROVE  Good(w, R, C) /\ Valid(w, f) /\ (OK(w) => Room(w, R, C, f, j, c, x))
<1>u. PICK u, y : u = Settled(m, f, c) /\ y = PutBuffer(u, f)
  OBVIOUS
<1>1. AbortOr(w, y, f)
  BY <1>u, IntoIs
<1>2. PICK p : StoodOn(m.fil[f], p, c) /\ Changed(m, u, f, p) /\ u.res = m.res
  BY <1>u, SettledIs DEF Good, Held, Raw
<1>x. x \in Nat /\ x <= SS * j
  <2>1. x \in Nat
    BY ValidIs DEF FileOf, FileOk
  <2>2. j \in Nat
    BY ChainsAre DEF Good, Held, NameOf, Names
  <2>3. SS * j \in Nat /\ SS \in Nat
    BY <2>2, SizesAssumption
  <2> QED BY <2>1, <2>3
<1>3. Good(u, R, C) /\ Valid(u, f) /\ u.fil[f] = p /\ p.sclust # 0
  BY <1>2, <1>x, ChangesStood
<1>4. Good(y, R, C) /\ Valid(y, f) /\ Alike(u.fil[f], y.fil[f])
  BY <1>2, <1>3, <1>u, PutsBuffer DEF OK
<1>5. Good(w, R, C) /\ Valid(w, f) /\ (OK(w) => w = y)
  BY <1>1, <1>4, AbortsOr
<1>6. y.fil[f].sclust # 0 /\ y.fil[f].clust = c /\ y.fil[f].fptr = x
  BY <1>2, <1>3, <1>4 DEF Alike, StoodOn
<1> QED BY <1>5, <1>6, <1>x DEF Room
------------------------------------------------------------------------------
(* Units go to the buffer.  *)
Units(T) == \A u \in T : IsUnit(u)
Copied(m, f, b, n) == [m EXCEPT !.fil[f].buf = b, !.fil[f].dirty = TRUE, !.fil[f].fptr = @ + n, !.val = n]

(* Units are copied, written out.  *)
LEMMA CopiedIs ==
  ASSUME NEW m, Shape(m), NEW f \in Files, NEW b, Plain(b), NEW n, NEW x, x = m.fil[f].fptr + n,
         NEW c, c = m.fil[f].clust, NEW w, w = Copied(m, f, b, n)
  PROVE  w.res = m.res /\ w.val = n /\ \E p : Within(m.fil[f], p, c, x) /\ Changed(m, w, f, p)
<1>1. PICK p : p = [m.fil[f] EXCEPT !.buf = b, !.dirty = TRUE, !.fptr = @ + n]
  OBVIOUS
<1>2. Changed(m, w, f, p) /\ w.res = m.res /\ w.val = n
  BY <1>1 DEF Copied, Changed, Shape, FileFields
<1>3. Within(m.fil[f], p, c, x)
  BY <1>1 DEF Within, Shape
<1> QED BY <1>2, <1>3

Blended(o, data, a, n) == [i \in 1 .. SS |-> IF i \in a + 1 .. a + n THEN data[i - a] ELSE o[i]]
Fitting(data, a) == IF Len(data) < SS - a THEN Len(data) ELSE SS - a
CopiedTo(m, f, data, a, n) == Copied(m, f, Blended(m.fil[f].buf, data, a, n), n)

(* IntoBuffer copies no more units than the sector has room for.  *)
LEMMA IntoBufferIs ==
  ASSUME NEW T, Units(T), NEW m, Shape(m), NEW f \in Files, Plain(m.fil[f].buf), m.fil[f].fptr \in Nat,
         NEW data, data \in Seq(T), NEW w, w = IntoBuffer(m, f, data)
  PROVE  \E b, n : /\ w = Copied(m, f, b, n) /\ Plain(b)
                   /\ n \in Nat /\ n <= Len(data) /\ n <= SS - (m.fil[f].fptr % SS)
<1>a. PICK a : a = m.fil[f].fptr % SS
  OBVIOUS
<1>1. a \in Nat /\ a < SS /\ SS \in Nat /\ Len(data) \in Nat
  BY <1>a, SizesAssumption
<1>n. PICK n : n = IF Len(data) < SS - a THEN Len(data) ELSE SS - a
  OBVIOUS
<1>2. n \in Nat /\ n <= Len(data) /\ n <= SS - a
  BY <1>1, <1>n
<1>b. PICK o, b : o = m.fil[f].buf /\ b = Blended(o, data, a, n)
  OBVIOUS
<1>3. Plain(b)
  <2>1. DOMAIN b = 1 .. SS
    BY <1>b DEF Blended
  <2>2. ASSUME NEW i \in 1 .. SS
        PROVE  IsUnit(b[i])
    <3>1. CASE i \in a + 1 .. a + n
      <4>1. i - a \in 1 .. Len(data) /\ b[i] = data[i - a]
        BY <1>1, <1>2, <1>b, <3>1 DEF Blended
      <4>2. data[i - a] \in T
        BY <4>1
      <4> QED BY <4>1, <4>2 DEF Units
    <3>2. CASE i \notin a + 1 .. a + n
      BY <1>b, <3>2 DEF Plain, Blended
    <3> QED BY <3>1, <3>2
  <2> QED BY <2>1, <2>2 DEF Plain
<1>4. w = Copied(m, f, b, n)
  <2>1. w = CopiedTo(m, f, data, m.fil[f].fptr % SS, Fitting(data, m.fil[f].fptr % SS))
    BY DEF IntoBuffer, Copied, Blended, CopiedTo, Fitting
  <2>2. n = Fitting(data, a)
    BY <1>n DEF Fitting
  <2>3. w = CopiedTo(m, f, data, a, n)
    BY <1>a, <2>1, <2>2
  <2> QED BY <1>b, <2>3 DEF CopiedTo
<1> QED BY <1>2, <1>3, <1>4, <1>a

(* A sector that is not full has room up to its end.  *)
LEMMA RoomIn ==
  ASSUME NEW a \in Nat, NEW k \in Nat, a <= SS * k, a % SS # 0, NEW n \in Nat, n <= SS - (a % SS)
  PROVE  a + n <= SS * k
<1>s. SS \in Nat \ {0}
  BY SizesAssumption
<1>1. PICK d \in Nat, r \in Nat : d = a \div SS /\ r = a % SS /\ r # 0 /\ r < SS /\ a = (SS * d) + r
  BY <1>s
<1>2. d < k
  <2> SUFFICES ASSUME ~(d < k)
               PROVE  FALSE
    OBVIOUS
  <2>1. PICK e \in Nat : d = k + e
    <3>1. d - k \in Nat /\ d = k + (d - k)
      OBVIOUS
    <3> QED BY <3>1
  <2>2. SS * d = SS * k + SS * e /\ SS * k \in Nat /\ SS * e \in Nat
    BY <1>s, <2>1
  <2> QED BY <1>1, <2>2
<1>3. PICK e \in Nat : k = d + 1 + e
  <2>1. k - d - 1 \in Nat /\ k = d + 1 + (k - d - 1)
    BY <1>2
  <2> QED BY <2>1
<1>4. SS * k = SS * d + SS + SS * e /\ SS * d \in Nat /\ SS * e \in Nat
  BY <1>s, <1>3
<1>5. n <= SS - r
  BY <1>1
<1> QED BY <1>s, <1>1, <1>4, <1>5

(* The multiple after a multiple.  *)
LEMMA NextMultiple ==
  ASSUME NEW a \in Nat, a % SS = 0
  PROVE  (a + SS) % SS = 0
<1>s. SS \in Nat \ {0}
  BY SizesAssumption
<1>1. PICK d \in Nat : a = SS * d
  <2>1. a = (SS * (a \div SS)) + (a % SS) /\ a \div SS \in Nat
    BY <1>s
  <2>2. SS * (a \div SS) \in Nat
    BY <1>s, <2>1
  <2>3. a = SS * (a \div SS)
    BY <2>1, <2>2
  <2> QED BY <2>1, <2>3
<1>2. \A i \in Nat : (SS * i) % SS = 0
  BY <1>s
<1>3. a + SS = SS * (d + 1) /\ d + 1 \in Nat
  BY <1>1, <1>s
<1> QED BY <1>2, <1>3

Fits(a, k) == \A n \in Nat : n <= SS - (a % SS) => a + n <= SS * k

Adds(x, o, n) == x = o.fptr + n
Stands(o, c) == o.clust = c

(* The buffer is filled with data.  *)
LEMMA FillsWith ==
  ASSUME NEW m, NEW R, NEW C, Good(m, R, C), NEW f \in Files, Valid(m, f), OK(m),
         m.fil[f].sclust # 0, m.fil[f].dsect \in Members(C[NameOf(f)]),
         NEW k \in 1 .. Len(C[NameOf(f)]), NEW c, c = C[NameOf(f)][k], Stands(m.fil[f], c),
         NEW b, Plain(b), NEW n, NEW x \in Nat, Adds(x, m.fil[f], n), x <= SS * k, NEW w, w = Copied(m, f, b, n)
  PROVE  Good(w, R, C) /\ Valid(w, f) /\ OK(w) /\ w.fil[f].dsect \in Members(C[NameOf(f)]) /\ w.val = n
<1>1. PICK p : w.res = m.res /\ w.val = n /\ Within(m.fil[f], p, c, x) /\ Changed(m, w, f, p)
  BY CopiedIs DEF Good, Held, Raw, Adds, Stands
<1>2. Good(w, R, C) /\ Valid(w, f) /\ w.fil[f] = p
  BY <1>1, ChangesWithin
<1> QED BY <1>1, <1>2 DEF OK, Within

(* IntoBuffer.  *)
LEMMA FillsBuffer ==
  ASSUME NEW T, Units(T), NEW m, NEW R, NEW C, Good(m, R, C), NEW f \in Files, Valid(m, f), OK(m),
         m.fil[f].sclust # 0, m.fil[f].dsect \in Members(C[NameOf(f)]),
         NEW k \in 1 .. Len(C[NameOf(f)]), NEW c, c = C[NameOf(f)][k], Stands(m.fil[f], c),
         Fits(m.fil[f].fptr, k),
         NEW data, data \in Seq(T), NEW w, w = IntoBuffer(m, f, data)
  PROVE  /\ Good(w, R, C) /\ Valid(w, f) /\ OK(w) /\ w.fil[f].dsect \in Members(C[NameOf(f)])
         /\ w.val \in Nat /\ w.val <= Len(data)
<1>1. Shape(m) /\ Plain(m.fil[f].buf) /\ m.fil[f].fptr \in Nat
  BY ValidIs DEF FileOf, FileOk, Good, Held, Raw
<1>2. PICK b, n : /\ w = Copied(m, f, b, n) /\ Plain(b)
                  /\ n \in Nat /\ n <= Len(data) /\ n <= SS - (m.fil[f].fptr % SS)
  BY <1>1, IntoBufferIs
<1>3. PICK x \in Nat : Adds(x, m.fil[f], n) /\ x <= SS * k
  BY <1>1, <1>2 DEF Fits, Adds
<1> QED BY <1>2, <1>3, FillsWith
------------------------------------------------------------------------------
(* The passes of a write.  *)
Buffering(m, f, c) == [m EXCEPT !.fil[f].dsect = c]

(* The buffer is that of another sector.  *)
LEMMA BufferingIs ==
  ASSUME NEW m, Shape(m), NEW f \in Files, NEW c, Plain(m.fil[f].buf), NEW w, w = Buffering(m, f, c)
  PROVE  w.res = m.res /\ \E p : Loaded(m.fil[f], p, c) /\ Changed(m, w, f, p)
<1>1. PICK p : p = [m.fil[f] EXCEPT !.dsect = c]
  OBVIOUS
<1>2. Changed(m, w, f, p) /\ w.res = m.res
  BY <1>1 DEF Buffering, Changed, Shape, FileFields
<1>3. Loaded(m.fil[f], p, c)
  BY <1>1 DEF Loaded, Shape
<1> QED BY <1>2, <1>3

(* IntoBuffer at the beginning of a sector.  *)
LEMMA Refills ==
  ASSUME NEW T, Units(T), NEW m, NEW R, NEW C, NEW f \in Files, NEW j, NEW c, NEW x, Room(m, R, C, f, j, c, x),
         NEW y, y = Buffering(m, f, c), NEW data, data \in Seq(T), NEW w, w = IntoBuffer(y, f, data)
  PROVE  /\ Good(w, R, C) /\ Valid(w, f) /\ OK(w) /\ w.fil[f].dsect \in Members(C[NameOf(f)])
         /\ w.val \in Nat /\ w.val <= Len(data)
<1>n. PICK n \in Names : n = NameOf(f)
  BY DEF NameOf, Names
<1>1. /\ Good(m, R, C) /\ Valid(m, f) /\ OK(m) /\ j \in 1 .. Len(C[n]) /\ c = C[n][j] /\ m.fil[f].sclust # 0
      /\ m.fil[f].clust = c /\ m.fil[f].fptr = x /\ x \in Nat /\ x + SS <= SS * j /\ C[n] \in Seq(Clusters) /\ Shape(m)
  BY <1>n, ChainsAre DEF Room, Good, Held, Raw
<1>2. c \in Members(C[n]) /\ j \in Nat
  BY <1>1, MembersAre
<1>3. FileOk(Effective(m), R, C[n], m.fil[f], n)
  BY <1>1, <1>n, ValidIs DEF FileOf
<1>4. PICK p : y.res = m.res /\ Loaded(m.fil[f], p, c) /\ Changed(m, y, f, p)
  BY <1>1, <1>3, BufferingIs DEF FileOk
<1>5. FileOk(Effective(m), R, C[n], p, n)
  BY <1>2, <1>3, <1>4, FileOkLoaded
<1>6. Good(y, R, C) /\ y.fil[f] = p
  BY <1>1, <1>4, <1>5, <1>n, ChangesWell
<1>7. Valid(y, f) /\ OK(y) /\ p.sclust # 0 /\ p.dsect = c /\ p.clust = c /\ p.fptr = x
  BY <1>1, <1>4, <1>6 DEF Valid, Loaded, Changed, OK
<1>8. Fits(x, j)
  <2>s. SS \in Nat \ {0} /\ SS * j \in Nat
    BY <1>2, SizesAssumption
  <2>1. x % SS \in Nat
    BY <1>1, <2>s
  <2> QED BY <1>1, <2>s, <2>1 DEF Fits
<1>9. /\ y.fil[f].sclust # 0 /\ y.fil[f].dsect \in Members(C[NameOf(f)]) /\ j \in 1 .. Len(C[NameOf(f)])
      /\ c = C[NameOf(f)][j] /\ Stands(y.fil[f], c) /\ Fits(y.fil[f].fptr, j)
  BY <1>1, <1>2, <1>6, <1>7, <1>8, <1>n DEF Stands
<1> QED BY <1>6, <1>7, <1>9, FillsBuffer

(* IntoBuffer within a sector.  *)
LEMMA FillsOn ==
  ASSUME NEW T, Units(T), NEW m, NEW R, NEW C, Good(m, R, C), NEW f \in Files, Valid(m, f), OK(m),
         m.fil[f].fptr % SS # 0, m.fil[f].dsect \in Members(C[NameOf(f)]),
         NEW data, data \in Seq(T), NEW w, w = IntoBuffer(m, f, data)
  PROVE  /\ Good(w, R, C) /\ Valid(w, f) /\ OK(w) /\ w.fil[f].dsect \in Members(C[NameOf(f)])
         /\ w.val \in Nat /\ w.val <= Len(data)
<1>n. PICK n \in Names : n = NameOf(f)
  BY DEF NameOf, Names
<1>s. SS \in Nat \ {0} /\ C[n] \in Seq(Clusters)
  BY SizesAssumption, ChainsAre DEF Good, Held
<1>1. FileOk(Effective(m), R, C[n], m.fil[f], n)
  BY <1>n, ValidIs DEF FileOf
<1>2. PICK a \in Nat : a = m.fil[f].fptr /\ a % SS # 0 /\ a # 0
  <2>1. m.fil[f].fptr \in Nat
    BY <1>1 DEF FileOk
  <2>2. m.fil[f].fptr # 0
    BY <1>s
  <2> QED BY <2>1, <2>2
<1>3. PICK k \in 1 .. Len(C[n]) : m.fil[f].clust = C[n][k] /\ a <= SS * k /\ m.fil[f].sclust # 0
  BY <1>1, <1>2 DEF FileOk
<1>4. Fits(a, k)
  <2>1. k \in Nat
    BY <1>s
  <2> QED BY <1>2, <1>3, <2>1, RoomIn DEF Fits
<1>5. PICK c : c = C[n][k] /\ Stands(m.fil[f], c)
  BY <1>3 DEF Stands
<1>6. k \in 1 .. Len(C[NameOf(f)]) /\ c = C[NameOf(f)][k] /\ Fits(m.fil[f].fptr, k)
  BY <1>2, <1>4, <1>5, <1>n
<1> QED BY <1>3, <1>5, <1>6, FillsBuffer

(* A whole sector goes to the card directly.  *)
LEMMA WritesSector ==
  ASSUME NEW m, NEW R, NEW C, NEW f \in Files, NEW j, NEW c, NEW x, Room(m, R, C, f, j, c, x),
         NEW b, Plain(b), NEW z, z = disk_write(m, clust2sect(c), b), NEW d, AbortOr(d, z, f)
  PROVE  Good(d, R, C) /\ Valid(d, f) /\ (OK(d) => Room(d, R, C, f, j, c, x))
<1>n. PICK n \in Names : n = NameOf(f)
  BY DEF NameOf, Names
<1>1. c \in Clusters /\ c \notin Members(R)
  <2>1. c \in Members(C[n]) /\ Layout(Effective(m), R, C)
    BY <1>n, MembersAre, ChainsAre DEF Room, Good, Held
  <2> QED BY <2>1, OfFile
<1>2. Grown(m, R, C, z, R, C, Names)
  BY <1>1, WritesData DEF Room, Good, Plain
<1>3. Good(z, R, C) /\ Valid(z, f) /\ z.fil = m.fil
  BY <1>2, GrownGood DEF Room, Grown
<1>4. Good(d, R, C) /\ Valid(d, f) /\ (OK(d) => d = z)
  BY <1>3, AbortsOr
<1> QED BY <1>3, <1>4 DEF Room

(* The position after a whole sector.  *)
LEMMA GoesOn ==
  ASSUME NEW m, NEW R, NEW C, NEW f \in Files, NEW j, NEW c, NEW x, Room(m, R, C, f, j, c, x), x % SS = 0,
         NEW w, w = By(m, f, SS)
  PROVE  Good(w, R, C) /\ Valid(w, f) /\ OK(w) /\ w.fil[f].fptr % SS = 0
<1>1. /\ Good(m, R, C) /\ Valid(m, f) /\ OK(m) /\ j \in 1 .. Len(C[NameOf(f)]) /\ c = C[NameOf(f)][j]
      /\ m.fil[f].sclust # 0 /\ m.fil[f].clust = c /\ m.fil[f].fptr = x /\ x \in Nat /\ x + SS <= SS * j /\ Shape(m)
  BY DEF Room, Good, Held, Raw
<1>2. PICK p, y : Moved(m.fil[f], p, c, y) /\ Changed(m, w, f, p) /\ y = x + SS /\ w.res = m.res
  BY <1>1, ByIs
<1>3. y \in Nat /\ y <= SS * j /\ y % SS = 0
  BY <1>1, <1>2, NextMultiple, SizesAssumption
<1>4. Good(w, R, C) /\ Valid(w, f) /\ w.fil[f] = p
  BY <1>1, <1>2, <1>3, ChangesMoved
<1> QED BY <1>1, <1>2, <1>3, <1>4 DEF Moved, OK
------------------------------------------------------------------------------
Going(m, R, C, f) ==
  /\ Good(m, R, C) /\ Valid(m, f) /\ OK(m)
  /\ m.fil[f].fptr % SS # 0 => m.fil[f].dsect \in Members(C[NameOf(f)])

Writing(p, f, T) ==
  /\ p.rest \in Seq(T)
  /\ \E R, C : Good(p.m, R, C) /\ Valid(p.m, f) /\ (p.rest # <<>> => Going(p.m, R, C, f))

Left(q, p, n) == q.rest = SubSeq(p.rest, n + 1, Len(p.rest))

WriteIs(q, p, f, c, v, i, y, d) ==
  \/ p.rest = <<>> /\ q = p
  \/ /\ p.rest # <<>> /\ p.m.fil[f].fptr % SS # 0
     /\ q.m = IntoBuffer(p.m, f, p.rest) /\ Left(q, p, q.m.val)
  \/ p.rest # <<>> /\ q.rest = <<>> /\ (q.m = c \/ q.m = Abort(c, f, "INT_ERR"))
  \/ p.rest # <<>> /\ OK(c) /\ v # 0 /\ q.m = i /\ q.rest = <<>>
  \/ /\ p.rest # <<>> /\ OK(c) /\ v # 0 /\ OK(i)
     /\ q.m = IntoBuffer(y, f, p.rest) /\ Left(q, p, q.m.val)
  \/ p.rest # <<>> /\ OK(c) /\ v # 0 /\ OK(i) /\ ~(Len(p.rest) < SS) /\ q.m = d /\ q.rest = <<>>
  \/ /\ p.rest # <<>> /\ p.m.fil[f].fptr % SS = 0 /\ OK(c) /\ v # 0 /\ OK(i) /\ ~(Len(p.rest) < SS) /\ OK(d)
     /\ q.m = By(d, f, SS) /\ Left(q, p, SS)

(* A pass of f_write, written out.  *)
LEMMA WriteSteps ==
  ASSUME NEW p, NEW f, NEW c, c = NextCluster(p.m, f), NEW v, v = c.val, NEW i, i = Into(c, f, v),
         NEW y, y = Buffering(i, f, v), NEW b, b = SubSeq(p.rest, 1, SS), NEW z, z = disk_write(i, clust2sect(v), b),
         NEW d, d = OrAbort(z, f), NEW q, q = WritePass(p, f)
  PROVE  WriteIs(q, p, f, c, v, i, y, d)
<1>1. CASE p.rest = <<>>
  BY <1>1 DEF WritePass, WriteIs
<1>2. CASE p.rest # <<>> /\ p.m.fil[f].fptr % SS # 0
  BY <1>2 DEF WritePass, WriteIs, Left
<1>3. CASE p.rest # <<>> /\ p.m.fil[f].fptr % SS = 0 /\ (~OK(c) \/ v = 0)
  BY <1>3 DEF WritePass, WriteIs
<1>4. CASE p.rest # <<>> /\ p.m.fil[f].fptr % SS = 0 /\ OK(c) /\ v = 1
  BY <1>4 DEF WritePass, WriteIs
<1>5. CASE p.rest # <<>> /\ p.m.fil[f].fptr % SS = 0 /\ OK(c) /\ v # 0 /\ v # 1 /\ ~OK(i)
  BY <1>5 DEF WritePass, WriteIs
<1>6. CASE p.rest # <<>> /\ p.m.fil[f].fptr % SS = 0 /\ OK(c) /\ v # 0 /\ v # 1 /\ OK(i) /\ Len(p.rest) < SS
  BY <1>6 DEF WritePass, WriteIs, Left, Buffering
<1>7. CASE p.rest # <<>> /\ p.m.fil[f].fptr % SS = 0 /\ OK(c) /\ v # 0 /\ v # 1 /\ OK(i) /\ ~(Len(p.rest) < SS) /\ ~OK(d)
  BY <1>7 DEF WritePass, WriteIs
<1>8. CASE p.rest # <<>> /\ p.m.fil[f].fptr % SS = 0 /\ OK(c) /\ v # 0 /\ v # 1 /\ OK(i) /\ ~(Len(p.rest) < SS) /\ OK(d)
  BY <1>8 DEF WritePass, WriteIs, Left, By
<1> QED BY <1>1, <1>2, <1>3, <1>4, <1>5, <1>6, <1>7, <1>8
------------------------------------------------------------------------------
(* What is left of the data.  *)
LEMMA Rests ==
  ASSUME NEW T, NEW s \in Seq(T), NEW n \in Nat, NEW q, q = SubSeq(s, n + 1, Len(s))
  PROVE  q \in Seq(T)
BY SMT

(* A sector of the data.  *)
LEMMA FirstUnits ==
  ASSUME NEW T, Units(T), NEW s \in Seq(T), ~(Len(s) < SS), NEW b, b = SubSeq(s, 1, SS)
  PROVE  Plain(b)
<1>s. SS \in Nat \ {0} /\ SS <= Len(s)
  BY SizesAssumption
<1>1. DOMAIN b = 1 .. SS /\ \A i \in 1 .. SS : b[i] = s[i]
  BY <1>s
<1>2. \A i \in 1 .. SS : s[i] \in T
  BY <1>s
<1> QED BY <1>1, <1>2 DEF Plain, Units

(* A pass of f_write.  *)
LEMMA WritePasses ==
  ASSUME NEW T, Units(T), NEW f \in Files, NEW p, Writing(p, f, T), NEW q, q = WritePass(p, f)
  PROVE  Writing(q, f, T)
<1>c. PICK c, v : c = NextCluster(p.m, f) /\ v = c.val
  OBVIOUS
<1>i. PICK i, y : i = Into(c, f, v) /\ y = Buffering(i, f, v)
  OBVIOUS
<1>b. PICK b, z : b = SubSeq(p.rest, 1, SS) /\ z = disk_write(i, clust2sect(v), b)
  OBVIOUS
<1>d. PICK d : d = OrAbort(z, f)
  OBVIOUS
<1>w. WriteIs(q, p, f, c, v, i, y, d)
  BY <1>c, <1>i, <1>b, <1>d, WriteSteps
<1>1. CASE p.rest = <<>>
  BY <1>1, <1>w DEF WriteIs
<1>2. CASE p.rest # <<>>
  <2>1. PICK R, C : Going(p.m, R, C, f)
    BY <1>2 DEF Writing
  <2>2. Good(p.m, R, C) /\ Valid(p.m, f) /\ OK(p.m) /\ p.rest \in Seq(T)
    BY <2>1 DEF Going, Writing
  <2>e. ASSUME q.rest = <<>>, NEW B, Good(q.m, R, B) /\ Valid(q.m, f)
        PROVE  Writing(q, f, T)
    <3>1. q.rest \in Seq(T)
      BY <2>e
    <3> QED BY <2>e, <3>1 DEF Writing
  <2>r. ASSUME NEW n \in Nat, Left(q, p, n), NEW B, Going(q.m, R, B, f)
        PROVE  Writing(q, f, T)
    <3>1. q.rest \in Seq(T)
      BY <2>2, <2>r, Rests DEF Left
    <3> QED BY <2>r, <3>1 DEF Writing, Going
  <2>3. CASE /\ p.m.fil[f].fptr % SS # 0
             /\ q.m = IntoBuffer(p.m, f, p.rest) /\ Left(q, p, q.m.val)
    <3>1. p.m.fil[f].dsect \in Members(C[NameOf(f)])
      BY <2>1, <2>3 DEF Going
    <3>2. Good(q.m, R, C) /\ Valid(q.m, f) /\ OK(q.m) /\ q.m.fil[f].dsect \in Members(C[NameOf(f)]) /\ q.m.val \in Nat
      BY <2>2, <2>3, <3>1, FillsOn
    <3> QED BY <2>3, <2>r, <3>2 DEF Going
  <2>n. PICK B : Next(c, R, B, p.m, f)
    BY <1>c, <2>2, Nexts
  <2>4. Good(c, R, B) /\ Valid(c, f)
    BY <2>n DEF Next
  <2>5. CASE q.rest = <<>> /\ (q.m = c \/ q.m = Abort(c, f, "INT_ERR"))
    <3>1. Good(q.m, R, B) /\ Valid(q.m, f)
      BY <2>4, <2>5, Aborts
    <3> QED BY <2>5, <2>e, <3>1
  <2>6. CASE OK(c) /\ v # 0
    <3>1. PICK j, x : /\ j \in 1 .. Len(B[NameOf(f)]) /\ v = B[NameOf(f)][j]
                      /\ x = c.fil[f].fptr /\ x + SS <= SS * j /\ (c.fil[f].sclust = 0 => j = 1)
      BY <1>c, <2>6, <2>n DEF Next
    <3>2. Good(i, R, B) /\ Valid(i, f) /\ (OK(i) => Room(i, R, B, f, j, v, x))
      BY <1>i, <2>4, <2>6, <3>1, IntoCluster
    <3>3. CASE q.m = i /\ q.rest = <<>>
      BY <2>e, <3>2, <3>3
    <3>4. CASE OK(i) /\ q.m = IntoBuffer(y, f, p.rest) /\ Left(q, p, q.m.val)
      <4>1. Good(q.m, R, B) /\ Valid(q.m, f) /\ OK(q.m) /\ q.m.fil[f].dsect \in Members(B[NameOf(f)]) /\ q.m.val \in Nat
        BY <1>i, <2>2, <3>2, <3>4, Refills
      <4> QED BY <2>r, <3>4, <4>1 DEF Going
    <3>5. CASE OK(i) /\ ~(Len(p.rest) < SS)
      <4>1. Plain(b)
        BY <1>b, <2>2, <3>5, FirstUnits
      <4>2. AbortOr(d, z, f)
        BY <1>d, OrAbortIs
      <4>3. Good(d, R, B) /\ Valid(d, f) /\ (OK(d) => Room(d, R, B, f, j, v, x))
        BY <1>b, <3>2, <3>5, <4>1, <4>2, WritesSector
      <4>4. CASE q.m = d /\ q.rest = <<>>
        BY <2>e, <4>3, <4>4
      <4>5. CASE p.m.fil[f].fptr % SS = 0 /\ OK(d) /\ q.m = By(d, f, SS) /\ Left(q, p, SS)
        <5>1. x % SS = 0
          BY <2>6, <2>n, <3>1, <4>5 DEF Next
        <5>2. Good(q.m, R, B) /\ Valid(q.m, f) /\ OK(q.m) /\ q.m.fil[f].fptr % SS = 0
          BY <4>3, <4>5, <5>1, GoesOn
        <5>3. SS \in Nat
          BY SizesAssumption
        <5> QED BY <2>r, <4>5, <5>2, <5>3 DEF Going
      <4> QED BY <1>2, <1>w, <2>3, <2>5, <3>3, <3>4, <4>4, <4>5 DEF WriteIs
    <3> QED BY <1>2, <1>w, <2>3, <2>5, <3>3, <3>4, <3>5 DEF WriteIs
  <2> QED BY <1>2, <1>w, <2>3, <2>5, <2>6 DEF WriteIs
<1> QED BY <1>1, <1>2
------------------------------------------------------------------------------
(* The data is written to its end.  *)
LEMMA WritesAll ==
  ASSUME NEW T, Units(T), NEW m, NEW R, NEW C, NEW f \in Files, Going(m, R, C, f), NEW data \in Seq(T),
         NEW w, w = WriteAll(m, f, data)
  PROVE  \E Q, B : Good(w, Q, B) /\ Valid(w, f)
<1>1. PICK g : /\ WriteAll(m, f, data) = g[Len(data)].m
               /\ g[0] = [m |-> m, rest |-> data]
               /\ \A k \in 1 .. Len(data) : g[k] = WritePass(g[k - 1], f)
  BY WriteRuns
<1> DEFINE S == {k \in Nat : k <= Len(data) => Writing(g[k], f, T)}
<1>2. 0 \in S
  <2>1. g[0].m = m /\ g[0].rest = data
    BY <1>1
  <2>2. Writing(g[0], f, T)
    BY <2>1 DEF Writing, Going
  <2> QED BY <2>2
<1>3. ASSUME NEW k \in Nat, k \in S
      PROVE  k + 1 \in S
  <2>1. SUFFICES ASSUME k + 1 <= Len(data)
                 PROVE  Writing(g[k + 1], f, T)
    OBVIOUS
  <2>2. Writing(g[k], f, T)
    BY <1>3, <2>1
  <2>3. g[k + 1] = WritePass(g[k], f)
    <3>1. k + 1 \in 1 .. Len(data) /\ (k + 1) - 1 = k
      BY <2>1
    <3> QED BY <1>1, <3>1
  <2> QED BY <2>2, <2>3, WritePasses
<1>4. Len(data) \in S
  <2> HIDE DEF S
  <2>1. Nat \subseteq S
    BY <1>2, <1>3, Induction
  <2> QED BY <2>1
<1>5. Writing(g[Len(data)], f, T)
  BY <1>4
<1> QED BY <1>1, <1>5 DEF Writing
------------------------------------------------------------------------------
(* f_write: the file is as long as what has been written of it.  *)
Longer(o, z) == z = IF o.fptr > o.fsize THEN o.fptr ELSE o.fsize
Recorded(o, p) ==
  /\ p.fs = o.fs /\ p.sclust = o.sclust /\ p.fptr = o.fptr /\ p.clust = o.clust
  /\ p.dsect = o.dsect /\ p.buf = o.buf /\ p.dir = o.dir /\ p.dirty = o.dirty /\ p.err = o.err
  /\ Longer(o, p.fsize)

(* The size recorded is no more than the chain holds.  *)
LEMMA FileOkRecorded ==
  ASSUME NEW D, NEW R, NEW ch, Len(ch) \in Nat, NEW o, NEW n, FileOk(D, R, ch, o, n), NEW p, Recorded(o, p)
  PROVE  FileOk(D, R, ch, p, n)
<1>1. o.fptr \in Nat /\ o.fsize \in Nat /\ p.fsize \in Nat /\ (p.fsize = o.fptr \/ p.fsize = o.fsize)
  BY DEF FileOk, Recorded, Longer
<1>2. Holds(o.sclust, o.fsize, ch) /\ (o.sclust = 0 => o.fptr = 0)
  BY DEF FileOk
<1>3. Holds(p.sclust, p.fsize, ch)
  <2>1. CASE o.sclust = 0
    BY <1>1, <1>2, <2>1 DEF Holds, Recorded
  <2>2. CASE o.sclust # 0
    <3>1. ch # <<>> /\ ch[1] = o.sclust /\ o.fsize <= SS * Len(ch) /\ SS * Len(ch) \in Nat
      BY <1>2, <2>2, SizesAssumption DEF Holds
    <3>2. o.fptr <= SS * Len(ch)
      <4>1. CASE o.fptr = 0
        BY <3>1, <4>1
      <4>2. CASE o.fptr # 0
        <5>1. PICK k \in 1 .. Len(ch) : o.fptr <= SS * k
          BY <4>2 DEF FileOk
        <5>2. k \in Nat /\ SS * k \in Nat /\ SS \in Nat
          BY SizesAssumption
        <5>3. PICK e \in Nat : Len(ch) = k + e
          <6>1. Len(ch) - k \in Nat /\ Len(ch) = k + (Len(ch) - k)
            OBVIOUS
          <6> QED BY <6>1
        <5>4. SS * Len(ch) = SS * k + SS * e /\ SS * e \in Nat
          BY <5>2, <5>3
        <5> QED BY <1>1, <5>1, <5>2, <5>4
      <4> QED BY <4>1, <4>2
    <3>3. p.sclust = o.sclust
      BY DEF Recorded
    <3> QED BY <1>1, <3>1, <3>2, <3>3, <2>2 DEF Holds
  <2> QED BY <2>1, <2>2
<1>4. \E q \in Slots(R) : Place(D, R, q, p, n)
  BY DEF FileOk, Recorded, Place
<1> QED BY <1>1, <1>3, <1>4 DEF FileOk, Recorded, Inside

WroteTo(m, f) ==
  [m EXCEPT !.fil[f].fsize = IF m.fil[f].fptr > @ THEN m.fil[f].fptr ELSE @, !.fil[f].written = TRUE]

Sized(m, f, z) == [m EXCEPT !.fil[f].fsize = z, !.fil[f].written = TRUE]

(* The size is recorded, written out.  *)
LEMMA SizedIs ==
  ASSUME NEW m, Shape(m), NEW f \in Files, NEW z, Longer(m.fil[f], z), NEW w, w = Sized(m, f, z)
  PROVE  \E p : Recorded(m.fil[f], p) /\ Changed(m, w, f, p)
<1>1. PICK p : p = [m.fil[f] EXCEPT !.fsize = z, !.written = TRUE]
  OBVIOUS
<1>2. Changed(m, w, f, p)
  BY <1>1 DEF Sized, Changed, Shape, FileFields
<1>3. Recorded(m.fil[f], p)
  BY <1>1 DEF Recorded, Longer, Shape
<1> QED BY <1>2, <1>3

(* The size is recorded.  *)
LEMMA WroteToIs ==
  ASSUME NEW m, Shape(m), NEW f \in Files, NEW w, w = WroteTo(m, f)
  PROVE  \E p : Recorded(m.fil[f], p) /\ Changed(m, w, f, p)
<1>1. PICK z : Longer(m.fil[f], z)
  BY DEF Longer
<1>2. w = Sized(m, f, z)
  BY <1>1 DEF WroteTo, Sized, Longer
<1> QED BY <1>1, <1>2, SizedIs

WriteEnds(w, v, a, f) ==
  \/ ~OK(v) /\ w = v
  \/ OK(v) /\ ~OK(a) /\ w = a
  \/ OK(v) /\ OK(a) /\ w = WroteTo(a, f)

(* f_write, written out.  *)
LEMMA WriteEnd ==
  ASSUME NEW m, NEW f, NEW data, NEW v, v = Checked(m, f), NEW a, a = WriteAll(v, f, data),
         NEW w, w = f_write(m, f, data)
  PROVE  WriteEnds(w, v, a, f)
BY DEF f_write, WriteEnds, Then, WroteTo

(* A file that is written has no error.  *)
LEMMA CheckedClean ==
  ASSUME NEW m, OK(m), NEW f, NEW w, w = Checked(m, f), OK(w)
  PROVE  w = m /\ m.fil[f].err = "OK"
BY DEF Checked, validate, Then, OK, Fail

(* f_write, whatever the length of the data and wherever the file stands in  *)
(* a sector: each cluster is marked before it is linked and linked before it *)
(* is written, so that every content of the card on the way is a volume, a   *)
(* full card or a refused command included.                                  *)
THEOREM Writes ==
  ASSUME NEW T, Units(T), NEW m, GoodMachine(m), OK(m), NEW f \in Files, NEW data \in Seq(T),
         NEW w, w = f_write(m, f, data)
  PROVE  GoodMachine(w)
<1>v. PICK v, a : v = Checked(m, f) /\ a = WriteAll(v, f, data)
  OBVIOUS
<1>i. WriteEnds(w, v, a, f)
  BY <1>v, WriteEnd
<1>1. PICK R, C : Good(m, R, C)
  BY DEF GoodMachine
<1>2. Good(v, R, C) /\ (OK(v) => Valid(v, f) /\ v.fil[f].err = "OK")
  BY <1>1, <1>v, Checks, CheckedClean
<1>3. CASE OK(v)
  <2>1. Going(v, R, C, f)
    <3>1. FileOk(Effective(v), R, C[NameOf(f)], v.fil[f], NameOf(f))
      BY <1>2, <1>3, ValidIs DEF FileOf
    <3>2. v.fil[f].fptr % SS # 0 => Inside(v.fil[f])
      BY <1>2, <1>3 DEF Inside
    <3>3. v.fil[f].fptr % SS # 0 => v.fil[f].dsect \in Members(C[NameOf(f)])
      BY <3>1, <3>2 DEF FileOk
    <3> QED BY <1>2, <1>3, <3>3 DEF Going
  <2>2. PICK Q, B : Good(a, Q, B) /\ Valid(a, f)
    BY <1>v, <2>1, WritesAll
  <2>3. CASE w = a
    BY <2>2, <2>3 DEF GoodMachine
  <2>4. CASE w = WroteTo(a, f)
    <3>1. PICK p : Recorded(a.fil[f], p) /\ Changed(a, w, f, p)
      BY <2>2, <2>4, WroteToIs DEF Good, Held, Raw
    <3>2. FileOk(Effective(a), Q, B[NameOf(f)], a.fil[f], NameOf(f)) /\ Len(B[NameOf(f)]) \in Nat
      <4>1. NameOf(f) \in Names
        BY DEF NameOf, Names
      <4> QED BY <2>2, <4>1, ValidIs, ChainsAre DEF FileOf, Good, Held
    <3>3. FileOk(Effective(a), Q, B[NameOf(f)], p, NameOf(f))
      BY <3>1, <3>2, FileOkRecorded
    <3>4. Good(w, Q, B)
      BY <2>2, <3>1, <3>3, ChangesWell
    <3> QED BY <3>4 DEF GoodMachine
  <2> QED BY <1>3, <1>i, <2>3, <2>4 DEF WriteEnds
<1>4. CASE ~OK(v)
  BY <1>2, <1>4, <1>i DEF WriteEnds, GoodMachine
<1> QED BY <1>3, <1>4
==============================================================================
