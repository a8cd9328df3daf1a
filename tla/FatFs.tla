-------------------------------- MODULE FatFs --------------------------------
(***************************************************************************)
(* The FAT file system of the SD card (ff.c) over the disk layer           *)
(* (diskio.c), as far as the firmware uses it: mount, open or create,      *)
(* append, read, write and close.                                          *)
(*                                                                         *)
(* A call is a function from machines to machines.  A machine is the card, *)
(* the FATFS object with its one-sector window, the FIL objects, the       *)
(* result of the last operation (res), a returned cluster (val) and a      *)
(* directory position (dir). "ready" and "selected" say what               *)
(* disk_initialize has made of the card. "cards" are the contents the card *)
(* has had in this call: those a loss of power may leave.  "fail" is the   *)
(* number of accesses after which the card refuses one command (refused),  *)
(* negative when it refuses none any more.                                 *)
(*                                                                         *)
(* A loop is a function from the number of passes to what they have made   *)
(* of the machine; a loop that has ended stays as it is.                   *)
(*                                                                         *)
(* FAT32 with one sector to a cluster and one FAT: the copy of the FAT is  *)
(* written and never read.  A file is a sequence of units, SS to a sector; *)
(* a directory sector is a sequence of DirPer entries; a FAT sector holds  *)
(* FatPer entries.                                                         *)
(***************************************************************************)
EXTENDS Integers, Sequences, FiniteSets

CONSTANTS
  n_fatent, \* FAT entries: the clusters are 2 .. n_fatent - 1
  SS,       \* units of a sector
  FatPer,   \* entries of a FAT sector
  DirPer,   \* entries of a directory sector: a unit is no longer than an entry
  MaxIndex  \* entries of a directory that are looked at: 65536, of indices 0 .. 65535

ASSUME SizesAssumption ==
  /\ n_fatent \in Nat \ 0 .. 2
  /\ SS \in Nat \ {0} /\ FatPer \in Nat \ {0}
  /\ DirPer \in 1 .. SS
  /\ MaxIndex \in Nat \ 0 .. 1

Clusters == 2 .. n_fatent - 1
EOC == n_fatent              \* "last link": any value that is no cluster
dirbase == 2                 \* the root directory's first cluster
Never == -1

FatSect(c) == <<"fat", c \div FatPer>>
clust2sect(c) == <<"data", c>>
FsInfo == <<"info", 0>>
Nowhere == <<"none", 0>>
Sectors == {FatSect(c) : c \in Clusters} \cup {clust2sect(c) : c \in Clusters} \cup {FsInfo}

Zero == <<>>                 \* a unit of zeros, also the free directory entry
Blank == [i \in 1 .. SS |-> Zero]
NoDir == [i \in 1 .. DirPer |-> Zero]
Entry(name, sclust, size) == <<name, sclust, size>>

(* A card as it is formatted: the root directory has one empty cluster.  *)
Formatted ==
  [s \in Sectors |->
     IF s[1] = "fat" THEN [c \in {d \in Clusters : FatSect(d) = s} |-> IF c = dirbase THEN EOC ELSE 0]
     ELSE IF s = clust2sect(dirbase) THEN NoDir
     ELSE IF s[1] = "info" THEN <<Cardinality(Clusters) - 1, dirbase>>
     ELSE Blank]

Unmounted == [fs_type |-> 0, winsect |-> Nowhere, win |-> Zero, wflag |-> FALSE,
              free_clust |-> 0, last_clust |-> 0, fsi_flag |-> FALSE]
NoFile == [fs |-> FALSE, write |-> FALSE, written |-> FALSE, dirty |-> FALSE, err |-> "OK",
           fptr |-> 0, fsize |-> 0, sclust |-> 0, clust |-> 0, dsect |-> 0, buf |-> Blank,
           dir |-> <<0, 0>>]

OK(m) == m.res = "OK"
Fail(m, r) == [m EXCEPT !.res = r]

(* The next call is made only when the one before it succeeded.  *)
Then(m, F(_)) == IF OK(m) THEN F(m) ELSE m
------------------------------------------------------------------------------
(* The disk layer: a command the card refuses is RES_ERROR.  A card that   *)
(* is not selected refuses every one.                                      *)
Refused(m) == [m EXCEPT !.res = "DISK_ERR", !.fail = Never, !.refused = TRUE]

disk_read(m) == IF m.fail = 0 \/ ~m.selected THEN Refused(m) ELSE [m EXCEPT !.fail = @ - 1]

Written(m, s, b) ==
  LET d == [m.disk EXCEPT ![s] = b] IN [m EXCEPT !.disk = d, !.cards = @ \cup {d}, !.fail = @ - 1]

disk_write(m, s, b) == IF m.fail = 0 \/ ~m.selected THEN Refused(m) ELSE Written(m, s, b)

(* The commands that identify a card of standard capacity.  One that finds *)
(* it busy, or is refused in the loop that waits for it, is repeated; a    *)
(* card that refuses SEND_IF_COND is taken for an older one.               *)
Identification ==
  <<"GO_IDLE_STATE", "SEND_IF_COND", "APP_CMD", "SD_SEND_OP_COND",
    "ALL_SEND_CID", "SEND_REL_ADDR", "SEND_CSD", "SELECT_CARD">>

(* The address that CardSelect sends is the card's own only if it had      *)
(* identified itself and told it.                                          *)
Selecting == {"ALL_SEND_CID", "SEND_REL_ADDR", "SELECT_CARD"}

(* The status is 0 from the moment the card answers, before it is          *)
(* selected: it is never identified again.                                 *)
Identified(m, refusal) == [m EXCEPT !.ready = TRUE, !.selected = refusal \notin Selecting]

disk_initialize(m) ==
  IF m.ready THEN m
  ELSE IF m.fail \notin 0 .. Len(Identification) - 1
  THEN Identified([m EXCEPT !.fail = @ - Len(Identification)], "none")
  ELSE LET refusal == Identification[m.fail + 1]
           hit == [m EXCEPT !.fail = Never, !.refused = TRUE]
       IN IF refusal = "GO_IDLE_STATE" THEN Fail(hit, "NOT_READY") ELSE Identified(hit, refusal)

(* The window: written back when it is dirty and another sector is wanted. *)
sync_window(m) ==
  IF ~m.fs.wflag THEN m
  ELSE Then(disk_write(m, m.fs.winsect, m.fs.win), LAMBDA w : [w EXCEPT !.fs.wflag = FALSE])

Filled(r, s) ==
  IF OK(r) THEN [r EXCEPT !.fs.win = r.disk[s], !.fs.winsect = s]
  ELSE [r EXCEPT !.fs.winsect = Nowhere]

move_window(m, s) ==
  IF s = m.fs.winsect THEN m
  ELSE Then(sync_window(m), LAMBDA w : Filled(disk_read(w), s))

(* The result of a disk_write to FSINFO is not looked at.  *)
WriteInfo(m) ==
  LET i == <<m.fs.free_clust, m.fs.last_clust>> IN
  Fail(disk_write([m EXCEPT !.fs.win = i, !.fs.winsect = FsInfo, !.fs.fsi_flag = FALSE], FsInfo, i), "OK")

sync_fs(m) == Then(sync_window(m), LAMBDA w : IF w.fs.fsi_flag THEN WriteInfo(w) ELSE w)
------------------------------------------------------------------------------
(* FAT entries and cluster chains.  The callers take an error of get_fat   *)
(* for a disk error, and the value 1 for an internal one.                  *)
get_fat(m, c) ==
  IF c \notin Clusters THEN [m EXCEPT !.val = 1]
  ELSE Then(move_window(m, FatSect(c)), LAMBDA w : [w EXCEPT !.val = w.fs.win[c]])

put_fat(m, c, v) ==
  IF c \notin Clusters THEN Fail(m, "INT_ERR")
  ELSE Then(move_window(m, FatSect(c)), LAMBDA w : [w EXCEPT !.fs.win[c] = v, !.fs.wflag = TRUE])

(* A pass of the search for a free cluster, which goes once round from     *)
(* scl: val is the cluster found, 0 as long as there is none.              *)
SearchPass(p, scl) ==
  LET n == IF p.ncl + 1 >= n_fatent THEN 2 ELSE p.ncl + 1
      Went(m, v, ended) == [m |-> [m EXCEPT !.val = v], ncl |-> n, ended |-> ended]
      Looked(g) ==
        IF ~OK(g) THEN Went(g, 0, TRUE)
        ELSE IF g.val = 0 THEN Went(g, n, TRUE)
        ELSE Went(g, 0, n = scl)
  IN IF p.ended THEN p
     ELSE IF p.ncl + 1 >= n_fatent /\ 2 > scl THEN Went(p.m, 0, TRUE)
     ELSE Looked(get_fat(p.m, n))

FreeAfter(m, scl) ==
  LET start == [m |-> [m EXCEPT !.val = 0], ncl |-> scl, ended |-> FALSE]
      pass[k \in 0 .. n_fatent] == IF k = 0 THEN start ELSE SearchPass(pass[k - 1], scl)
  IN pass[n_fatent].m

(* An unknown number of free clusters stays unknown.  *)
Taken(fs, ncl) ==
  IF fs.free_clust = -1 THEN [fs EXCEPT !.last_clust = ncl]
  ELSE [fs EXCEPT !.last_clust = ncl, !.free_clust = @ - 1, !.fsi_flag = TRUE]

Linked(m, clst, ncl) == IF clst = 0 THEN m ELSE put_fat(m, clst, ncl)

(* A faulty Allocate that links the new cluster before it marks it.  *)
AllocateLinkFirst(m, clst, ncl) ==
  Then(Then(Linked(m, clst, ncl), LAMBDA a : put_fat(a, ncl, EOC)),
       LAMBDA b : [b EXCEPT !.fs = Taken(@, ncl), !.val = ncl])

(* A faulty Allocate that does not count the cluster it takes.  *)
AllocateUncounted(m, clst, ncl) ==
  Then(Then(put_fat(m, ncl, EOC), LAMBDA a : Linked(a, clst, ncl)),
       LAMBDA b : [b EXCEPT !.fs.last_clust = ncl, !.val = ncl])

(* The new cluster is marked before it is linked.  *)
Allocate(m, clst, ncl) ==
  Then(Then(put_fat(m, ncl, EOC), LAMBDA a : Linked(a, clst, ncl)),
       LAMBDA b : [b EXCEPT !.fs = Taken(@, ncl), !.val = ncl])

Found(m, clst, scl) ==
  Then(FreeAfter(m, scl), LAMBDA f : IF f.val = 0 THEN f ELSE Allocate(f, clst, f.val))

(* val: 0 for a full card, 1 for an internal error, else the cluster that  *)
(* follows clst, which may be there already.                               *)
create_chain(m, clst) ==
  IF clst = 0 THEN Found(m, 0, IF m.fs.last_clust \in 1 .. n_fatent - 1 THEN m.fs.last_clust ELSE 1)
  ELSE Then(get_fat(m, clst), LAMBDA g :
         IF g.val < 2 THEN [g EXCEPT !.val = 1]
         ELSE IF g.val \in Clusters THEN g
         ELSE Found(g, clst, clst))
------------------------------------------------------------------------------
(* Directories.  m.dir is the cluster and the index of the current entry.  *)
Stretch(m, clust) ==
  LET Cleared(s, c) == sync_window([s EXCEPT !.fs.win = NoDir, !.fs.winsect = clust2sect(c), !.fs.wflag = TRUE])
  IN Then(create_chain(m, clust), LAMBDA c :
       IF c.val = 0 THEN Fail(c, "DENIED")
       ELSE IF c.val = 1 THEN Fail(c, "INT_ERR")
       ELSE Then(Then(sync_window(c), LAMBDA s : Cleared(s, c.val)),
                 LAMBDA z : [z EXCEPT !.dir = <<c.val, 1>>]))

dir_next(m, stretch) ==
  IF m.dir[2] < DirPer THEN [m EXCEPT !.dir[2] = @ + 1]
  ELSE Then(get_fat(m, m.dir[1]), LAMBDA g :
         IF g.val <= 1 THEN Fail(g, "INT_ERR")
         ELSE IF g.val \in Clusters THEN [g EXCEPT !.dir = <<g.val, 1>>]
         ELSE IF stretch THEN Stretch(g, m.dir[1])
         ELSE Fail(g, "NO_FILE"))

dir_sdi(m) == [m EXCEPT !.dir = <<dirbase, 1>>]
Here(m) == m.fs.win[m.dir[2]]
dir_move(m) == move_window(m, clust2sect(m.dir[1]))

(* A search ends, or goes on when there is a next entry.  *)
Stop(m) == [m |-> m, ended |-> TRUE]
GoOn(m) == [m |-> m, ended |-> ~OK(m)]
Outcome(last, none) == IF last.ended THEN last.m ELSE Fail(last.m, none)

FindPass(p, name) ==
  LET At(w) ==
        IF ~OK(w) THEN Stop(w)
        ELSE IF Here(w) = Zero THEN Stop(Fail(w, "NO_FILE"))
        ELSE IF Here(w)[1] = name THEN Stop(w)
        ELSE GoOn(dir_next(w, FALSE))
  IN IF p.ended THEN p ELSE At(dir_move(p.m))

dir_find(m, name) ==
  LET pass[k \in 0 .. MaxIndex] ==
        IF k = 0 THEN [m |-> dir_sdi(m), ended |-> FALSE] ELSE FindPass(pass[k - 1], name)
  IN Outcome(pass[MaxIndex], "NO_FILE")

AllocPass(p) ==
  LET At(w) == IF ~OK(w) \/ Here(w) = Zero THEN Stop(w) ELSE GoOn(dir_next(w, TRUE))
  IN IF p.ended THEN p ELSE At(dir_move(p.m))

dir_alloc(m) ==
  LET pass[k \in 0 .. MaxIndex] ==
        IF k = 0 THEN [m |-> dir_sdi(m), ended |-> FALSE] ELSE AllocPass(pass[k - 1])
  IN Outcome(pass[MaxIndex], "DENIED")

dir_register(m, name) ==
  Then(Then(dir_alloc(m), LAMBDA a : dir_move(a)),
       LAMBDA w : [w EXCEPT !.fs.win[w.dir[2]] = Entry(name, 0, 0), !.fs.wflag = TRUE])
------------------------------------------------------------------------------
(* Mounting.  A mount that succeeds has a new identifier: every FIL opened *)
(* before is invalid (validate).  What the window held is forgotten.  An   *)
(* FSINFO that cannot be read leaves the number of free clusters unknown.  *)
MountedFs(i) ==
  IF OK(i) THEN [Unmounted EXCEPT !.fs_type = 32, !.winsect = FsInfo, !.win = i.disk[FsInfo],
                   !.free_clust = i.disk[FsInfo][1], !.last_clust = i.disk[FsInfo][2]]
  ELSE [Unmounted EXCEPT !.fs_type = 32, !.free_clust = -1, !.last_clust = -1]

find_volume(m) ==
  IF m.fs.fs_type # 0 /\ m.ready THEN m
  ELSE LET Mounted(i) == [i EXCEPT !.res = "OK", !.fs = MountedFs(i), !.fil = [f \in DOMAIN @ |-> NoFile]]
       IN Then(Then(disk_initialize([m EXCEPT !.fs = Unmounted]), LAMBDA n : disk_read(n)),
               LAMBDA c : Mounted(disk_read(c)))

f_mount(m) == find_volume([m EXCEPT !.fs.fs_type = 0])

validate(m, f) == IF m.fil[f].fs /\ m.fs.fs_type # 0 /\ m.ready THEN m ELSE Fail(m, "INVALID_OBJECT")

(* ABORT: the error stays with the file.  *)
Abort(m, f, r) == [m EXCEPT !.res = r, !.fil[f].err = r]
OrAbort(m, f) == IF OK(m) THEN m ELSE Abort(m, f, "DISK_ERR")

Checked(m, f) ==
  Then(validate(m, f), LAMBDA v : IF v.fil[f].err # "OK" THEN Fail(v, v.fil[f].err) ELSE v)
------------------------------------------------------------------------------
(* f_open with FA_OPEN_ALWAYS: a file that is not there is created.  *)
Opened(m, f, write, new) ==
  [m EXCEPT !.fil[f] = [NoFile EXCEPT !.fs = TRUE, !.write = write, !.written = new,
                          !.sclust = Here(m)[2], !.fsize = Here(m)[3], !.dir = m.dir]]

Lookup(m, f, name, write) ==
  LET d == dir_find(m, name) IN
  IF OK(d) THEN Opened(d, f, write, FALSE)
  ELSE IF d.res = "NO_FILE"
  THEN Then(dir_register(Fail(d, "OK"), name), LAMBDA r : Opened(r, f, write, TRUE))
  ELSE d

f_open(m, f, name, write) ==
  Then(find_volume([m EXCEPT !.fil[f] = NoFile]), LAMBDA v : Lookup(v, f, name, write))

PutBuffer(m, f) ==
  LET p == m.fil[f] IN
  IF p.dirty THEN Then(disk_write(m, clust2sect(p.dsect), p.buf), LAMBDA b : [b EXCEPT !.fil[f].dirty = FALSE])
  ELSE m

PutEntry(m, f) ==
  LET p == m.fil[f] IN
  Then(move_window(m, clust2sect(p.dir[1])), LAMBDA w :
    sync_fs([w EXCEPT !.fs.win[p.dir[2]] = Entry(@[1], p.sclust, p.fsize),
                      !.fs.wflag = TRUE, !.fil[f].written = FALSE]))

(* A faulty f_sync that writes the directory entry before the data.  *)
f_syncDirFirst(m, f) ==
  Then(validate(m, f), LAMBDA v :
    IF v.fil[f].written THEN Then(PutEntry(v, f), LAMBDA b : PutBuffer(b, f)) ELSE v)

(* f_sync and f_close: the data, then the FAT, then the directory.  *)
f_sync(m, f) ==
  Then(validate(m, f), LAMBDA v :
    IF v.fil[f].written THEN Then(PutBuffer(v, f), LAMBDA b : PutEntry(b, f)) ELSE v)

f_close(m, f) == Then(f_sync(m, f), LAMBDA s : [s EXCEPT !.fil[f] = NoFile])
------------------------------------------------------------------------------
(* f_lseek to an offset of a file just opened: the chain is followed, and  *)
(* in write mode stretched where it is too short.                          *)
Load(m, f, clst) ==
  LET r == disk_read(m) IN
  IF OK(r) THEN [r EXCEPT !.fil[f].dsect = clst, !.fil[f].buf = r.disk[clust2sect(clst)]]
  ELSE Abort(r, f, "DISK_ERR")

LinkAfter(m, f, clst) == IF m.fil[f].write THEN create_chain(m, clst) ELSE get_fat(m, clst)

(* Nothing is left of the offset when the seek has ended.  A full card     *)
(* clips it.                                                               *)
SeekPass(p, f) ==
  LET By(n) == [p.m EXCEPT !.fil[f].fptr = @ + n]
      Ends(m) == [m |-> m, clst |-> p.clst, ofs |-> 0]
      Follow(c) ==
        IF ~OK(c) THEN Ends(Abort(c, f, "DISK_ERR"))
        ELSE IF c.val = 0 /\ p.m.fil[f].write THEN Ends([c EXCEPT !.fil[f].fptr = @ + SS])
        ELSE IF c.val \notin Clusters THEN Ends(Abort(c, f, "INT_ERR"))
        ELSE [m |-> [c EXCEPT !.fil[f].clust = c.val, !.fil[f].fptr = @ + SS],
              clst |-> c.val, ofs |-> p.ofs - SS]
  IN IF p.ofs = 0 THEN p
     ELSE IF p.ofs < SS THEN Ends(Load(By(p.ofs), f, p.clst))
     ELSE IF p.ofs = SS THEN Ends(By(SS))
     ELSE Follow(LinkAfter(p.m, f, p.clst))

Seek(m, f, clst, ofs) ==
  LET pass[k \in 0 .. ofs] ==
        IF k = 0 THEN [m |-> m, clst |-> clst, ofs |-> ofs] ELSE SeekPass(pass[k - 1], f)
  IN pass[ofs].m

(* The first cluster of a file, made when the file is empty.  *)
Base(m, f) ==
  IF m.fil[f].sclust # 0 THEN [m EXCEPT !.val = m.fil[f].sclust]
  ELSE OrAbort(create_chain(m, 0), f)

f_lseek(m, f, ofs) ==
  Then(Checked(m, f), LAMBDA v :
    IF ofs = 0 THEN v
    ELSE Then(Base(v, f), LAMBDA n :
           IF n.val = 0 THEN n
           ELSE Seek([n EXCEPT !.fil[f].sclust = n.val, !.fil[f].clust = n.val], f, n.val, ofs)))

f_append(m, f, name) ==
  LET Closed(s) == IF OK(s) THEN s ELSE Fail(f_close(Fail(s, "OK"), f), s.res)
  IN Then(f_open(m, f, name, TRUE), LAMBDA o : Closed(f_lseek(o, f, o.fil[f].fsize)))

(* f_read of one unit from the beginning: val is the number of units read. *)
FirstSector(m, f) ==
  LET c == m.fil[f].sclust IN
  IF m.fil[f].fsize = 0 THEN m
  ELSE IF c < 2 THEN Abort(m, f, "INT_ERR")
  ELSE Then(Load(m, f, c), LAMBDA r : [r EXCEPT !.fil[f].clust = c, !.fil[f].fptr = 1, !.val = 1])

f_read(m, f) == Then(Checked([m EXCEPT !.val = 0], f), LAMBDA v : FirstSector(v, f))
------------------------------------------------------------------------------
(* f_write.  On the boundary of a cluster the chain is stretched and the   *)
(* buffer written back; a whole sector goes to the card directly.          *)
NextCluster(m, f) ==
  LET p == m.fil[f] IN
  IF p.fptr # 0 THEN OrAbort(create_chain(m, p.clust), f) ELSE Base(m, f)

WriteBack(m, f) == OrAbort(PutBuffer(m, f), f)

IntoBuffer(m, f, data) ==
  LET at == m.fil[f].fptr % SS
      n == IF Len(data) < SS - at THEN Len(data) ELSE SS - at
  IN [m EXCEPT !.fil[f].buf = [i \in 1 .. SS |-> IF i \in at + 1 .. at + n THEN data[i - at] ELSE @[i]],
               !.fil[f].dirty = TRUE, !.fil[f].fptr = @ + n, !.val = n]

Into(m, f, c) ==
  WriteBack([m EXCEPT !.fil[f].clust = c, !.fil[f].sclust = IF @ = 0 THEN c ELSE @], f)

(* Nothing is left of the data when the write has ended.  *)
WritePass(p, f) ==
  LET Rest(n) == SubSeq(p.rest, n + 1, Len(p.rest))
      Ends(m) == [m |-> m, rest |-> <<>>]
      Copied(b) == [m |-> b, rest |-> Rest(b.val)]
      Copy(m) == Copied(IntoBuffer(m, f, p.rest))
      Direct(d) == IF OK(d) THEN [m |-> [d EXCEPT !.fil[f].fptr = @ + SS], rest |-> Rest(SS)] ELSE Ends(d)
      Fill(i, c) ==
        IF ~OK(i) THEN Ends(i)
        ELSE IF Len(p.rest) < SS THEN Copy([i EXCEPT !.fil[f].dsect = c])
        ELSE Direct(OrAbort(disk_write(i, clust2sect(c), SubSeq(p.rest, 1, SS)), f))
      Enter(c) ==
        IF ~OK(c) \/ c.val = 0 THEN Ends(c)
        ELSE IF c.val = 1 THEN Ends(Abort(c, f, "INT_ERR"))
        ELSE Fill(Into(c, f, c.val), c.val)
  IN IF p.rest = <<>> THEN p
     ELSE IF p.m.fil[f].fptr % SS # 0 THEN Copy(p.m)
     ELSE Enter(NextCluster(p.m, f))

WriteAll(m, f, data) ==
  LET pass[k \in 0 .. Len(data)] ==
        IF k = 0 THEN [m |-> m, rest |-> data] ELSE WritePass(pass[k - 1], f)
  IN pass[Len(data)].m

(* A faulty f_write that forgets to mark the file as written.  *)
f_writeUnmarked(m, f, data) ==
  Then(Checked(m, f), LAMBDA v :
    Then(WriteAll(v, f, data), LAMBDA w :
      [w EXCEPT !.fil[f].fsize = IF w.fil[f].fptr > @ THEN w.fil[f].fptr ELSE @]))

(* A write that meets a full card stops and is FR_OK all the same.  *)
f_write(m, f, data) ==
  Then(Checked(m, f), LAMBDA v :
    Then(WriteAll(v, f, data), LAMBDA w :
      [w EXCEPT !.fil[f].fsize = IF w.fil[f].fptr > @ THEN w.fil[f].fptr ELSE @,
                !.fil[f].written = TRUE]))
------------------------------------------------------------------------------
(* What a card holds, as a reader of the volume finds it.  *)
Fat(disk, c) == disk[FatSect(c)][c]

(* The clusters of a chain: one that runs in a circle never ends.  *)
Chain(disk, c) ==
  LET link == [d \in 0 .. EOC |-> IF d \in Clusters THEN Fat(disk, d) ELSE EOC]
      at[k \in 1 .. n_fatent] == IF k = 1 THEN c ELSE link[at[k - 1]]
  IN [k \in 1 .. Cardinality({k \in 1 .. n_fatent : at[k] \in Clusters}) |-> at[k]]

(* A chain is sound when every link is allocated and it ends.  *)
SoundChain(disk, c) ==
  LET ch == Chain(disk, c) IN ch # <<>> /\ Fat(disk, ch[Len(ch)]) = EOC

ClustersOf(disk, c) == LET ch == Chain(disk, c) IN {ch[i] : i \in DOMAIN ch}

Entries(disk) ==
  (UNION {{disk[clust2sect(c)][i] : i \in DOMAIN disk[clust2sect(c)]} : c \in ClustersOf(disk, dirbase)}) \ {Zero}
Named(disk, name) == {e \in Entries(disk) : e[1] = name}

(* The units of a file, one cluster after the other, as far as its chain   *)
(* and its size go.                                                        *)
UnitsOf(disk, ch, size) ==
  [i \in 1 .. IF size < SS * Len(ch) THEN size ELSE SS * Len(ch) |->
     disk[clust2sect(ch[(i - 1) \div SS + 1])][((i - 1) % SS) + 1]]

(* No entry, no content; of two entries of a name the reader takes any.  *)
Contents(disk, name) ==
  IF Named(disk, name) = {} THEN {<<>>}
  ELSE UNION {{UnitsOf(disk, ch, e[3]) : ch \in {Chain(disk, e[2])}} : e \in Named(disk, name)}
Content(disk, name) == CHOOSE u \in Contents(disk, name) : TRUE
=============================================================================
