------------------------------- MODULE Storage -------------------------------
(***************************************************************************)
(* The SD card of the node (sd_if.c): vSDStoreTask appends a data point a  *)
(* minute to the day's file (SD_DateFileAppend), any task appends a line   *)
(* to the log (LOG).  They share one FATFS, one result and one card, and   *)
(* no lock.  One step is one call of the file system; the power may be     *)
(* lost after any write to the card within it.                             *)
(***************************************************************************)
EXTENDS FatFs

CONSTANTS
  Points,     \* data points to be appended: 1 .. Points
  Lines,      \* lines that may be logged
  LogLine,    \* units of a line
  MaxCrashes, \* losses of power
  MaxErrors,  \* commands the card refuses
  MaxAccess,  \* accesses of one call that are counted
  Alone       \* LOG and SD_DateFileAppend are never at work together

ASSUME LogLineAssumption == LogLine \in Nat

VARIABLES
  card,     \* what the card holds
  ram,      \* fs, fil, res and g_sDisk: lost with the power
  sd,       \* the next call of SD_DateFileAppend
  readTest, \* its character read, "?" when it was never set
  log,      \* the next call of LOG
  point,    \* the data point being appended or appended last
  lines,    \* lines logged
  crashes,
  errors,
  clean     \* no loss of power and no refused command since the latest
            \* SD_DateFileAppend began (history)

stored == <<card, ram>>
counts == <<point, lines, crashes, errors, clean>>
storageVars == <<stored, sd, readTest, log, counts>>

Header == <<<<"header", 0>>>>
Point(n) == <<<<"point", n>>>>
Line == [i \in 1 .. LogLine |-> <<"line", i>>]

(* The globals fp, fp_log, fs and res and g_sDisk, as the start-up code    *)
(* leaves them.                                                            *)
Booted == [fs |-> Unmounted, fil |-> [f \in {"fp", "fp_log"} |-> NoFile], res |-> "OK",
           ready |-> FALSE, selected |-> FALSE]

StorageInit ==
  /\ card = Formatted
  /\ ram = Booted
  /\ sd = "idle" /\ readTest = "?" /\ log = "idle"
  /\ point = 0 /\ lines = 0 /\ crashes = 0 /\ errors = 0
  /\ clean = TRUE
------------------------------------------------------------------------------
(* The card may refuse a command of a call, after a number of accesses the *)
(* call really makes.                                                      *)
Faults == {Never} \cup {f \in 0 .. MaxAccess : errors < MaxErrors}

Machine(fail) ==
  [disk |-> card, cards |-> {card}, fs |-> ram.fs, fil |-> ram.fil,
   ready |-> ram.ready, selected |-> ram.selected,
   res |-> "OK", val |-> 0, dir |-> <<0, 0>>, fail |-> fail, refused |-> FALSE]

Befell(m) == m.fail < 0

(* The loss of power, after any write of a call: only the card remains.  *)
Crash(m) ==
  /\ crashes < MaxCrashes
  /\ Befell(m)
  /\ card' \in m.cards /\ ram' = Booted
  /\ sd' = "idle" /\ log' = "idle" /\ readTest' = "?"
  /\ crashes' = crashes + 1
  /\ clean' = FALSE
  /\ UNCHANGED <<point, lines, errors>>

(* A call that returns to its task, which keeps the result in "res".  *)
Returns(m, res) ==
  /\ Befell(m)
  /\ card' = m.disk
  /\ ram' = [fs |-> m.fs, fil |-> m.fil, res |-> res, ready |-> m.ready, selected |-> m.selected]
  /\ errors' = IF m.refused THEN errors + 1 ELSE errors
  /\ UNCHANGED crashes
------------------------------------------------------------------------------
(* SD_DateFileAppend, call by call.  *)
SdReturns(m, next) ==
  /\ Returns(m, m.res)
  /\ sd' = next
  /\ clean' = (clean /\ ~m.refused)
  /\ UNCHANGED <<log, lines>>

SdMount ==
  /\ sd = "idle" /\ point < Points
  /\ Alone => log = "idle"
  /\ \E q \in Faults : \E m \in {f_mount(Machine(q))} :
       \/ Crash(m)
       \/ /\ Returns(m, m.res)
          /\ sd' = IF OK(m) THEN "open" ELSE "idle"
          /\ readTest' = "?"
          /\ point' = point + 1
          /\ clean' = ~m.refused
          /\ UNCHANGED <<log, lines>>

SdOpen ==
  /\ sd = "open"
  /\ \E q \in Faults : \E m \in {f_open(Machine(q), "fp", "csv", FALSE)} :
       \/ Crash(m)
       \/ SdReturns(m, IF OK(m) THEN "read" ELSE "append") /\ UNCHANGED <<readTest, point>>

(* A faulty SdRead that forgets what it read.  *)
SdReadForgets ==
  /\ sd = "read"
  /\ \E q \in Faults : \E m \in {f_read(Machine(q), "fp")} :
       \/ Crash(m)
       \/ SdReturns(m, "closeRead") /\ readTest' = "empty" /\ UNCHANGED point

(* readTest is cleared only when the file could be opened.  *)
SdRead ==
  /\ sd = "read"
  /\ \E q \in Faults : \E m \in {f_read(Machine(q), "fp")} :
       \/ Crash(m)
       \/ /\ SdReturns(m, "closeRead")
          /\ readTest' = IF m.val = 1 THEN "full" ELSE "empty"
          /\ UNCHANGED point

SdCloseRead ==
  /\ sd = "closeRead"
  /\ \E q \in Faults : \E m \in {f_close(Machine(q), "fp")} :
       \/ Crash(m)
       \/ SdReturns(m, "append") /\ UNCHANGED <<readTest, point>>

SdAppend ==
  /\ sd = "append"
  /\ \E q \in Faults : \E m \in {f_append(Machine(q), "fp", "csv")} :
       \/ Crash(m)
       \/ SdReturns(m, IF OK(m) THEN "header" ELSE "idle") /\ UNCHANGED <<readTest, point>>

(* A readTest that was never set is whatever was on the stack.  *)
SdHeader ==
  /\ sd = "header" /\ readTest \in {"empty", "?"}
  /\ \E q \in Faults : \E m \in {f_write(Machine(q), "fp", Header)} :
       \/ Crash(m)
       \/ SdReturns(m, "point") /\ UNCHANGED <<readTest, point>>

SdPoint ==
  /\ sd = "point" \/ (sd = "header" /\ readTest \in {"full", "?"})
  /\ \E q \in Faults : \E m \in {f_write(Machine(q), "fp", Point(point))} :
       \/ Crash(m)
       \/ SdReturns(m, "close") /\ UNCHANGED <<readTest, point>>

SdClose ==
  /\ sd = "close"
  /\ \E q \in Faults : \E m \in {f_close(Machine(q), "fp")} :
       \/ Crash(m)
       \/ SdReturns(m, "idle") /\ readTest' = "?" /\ UNCHANGED point

SD_DateFileAppend ==
  \/ SdMount \/ SdOpen \/ SdRead \/ SdCloseRead
  \/ SdAppend \/ SdHeader \/ SdPoint \/ SdClose
------------------------------------------------------------------------------
(* LOG, call by call.  Its results go to rc, which it never reads: it asks *)
(* res, which only SD_DateFileAppend sets.                                 *)
LogReturns(m, next) ==
  /\ Returns(m, ram.res)
  /\ log' = next
  /\ clean' = (clean /\ ~m.refused)
  /\ UNCHANGED <<sd, readTest, point>>

LogMount ==
  /\ log = "idle" /\ lines < Lines
  /\ Alone => sd = "idle"
  /\ \E q \in Faults : \E m \in {f_mount(Machine(q))} :
       \/ Crash(m)
       \/ LogReturns(m, IF ram.res = "OK" THEN "append" ELSE "idle") /\ lines' = lines + 1

LogAppend ==
  /\ log = "append"
  /\ \E q \in Faults : \E m \in {f_append(Machine(q), "fp_log", "log")} :
       \/ Crash(m)
       \/ LogReturns(m, IF ram.res = "OK" THEN "write" ELSE "idle") /\ UNCHANGED lines

LogWrite ==
  /\ log = "write"
  /\ \E q \in Faults : \E m \in {f_write(Machine(q), "fp_log", Line)} :
       \/ Crash(m)
       \/ LogReturns(m, "close") /\ UNCHANGED lines

LogClose ==
  /\ log = "close"
  /\ \E q \in Faults : \E m \in {f_close(Machine(q), "fp_log")} :
       \/ Crash(m)
       \/ LogReturns(m, "idle") /\ UNCHANGED lines

LOG == LogMount \/ LogAppend \/ LogWrite \/ LogClose

StorageNext == SD_DateFileAppend \/ LOG

StorageSpec == StorageInit /\ [][StorageNext]_storageVars
------------------------------------------------------------------------------
(* Whenever the power is lost, the volume is one a reader can follow: the  *)
(* chain of the root directory ends, a file has one entry, its chain is    *)
(* allocated, ends, holds its size, and shares no cluster with another's   *)
(* (f_sync, create_chain and move_window write in this order).             *)
Sound(disk, e) ==
  IF e[2] = 0 THEN e[3] = 0
  ELSE SoundChain(disk, e[2]) /\ e[3] <= SS * Cardinality(ClustersOf(disk, e[2]))

VolumeConsistent ==
  LET files == Named(card, "csv") \cup Named(card, "log")
      Of(e) == ClustersOf(card, e[2])
  IN /\ SoundChain(card, dirbase)
     /\ Cardinality(Named(card, "csv")) <= 1 /\ Cardinality(Named(card, "log")) <= 1
     /\ \A e \in files : Sound(card, e) /\ Of(e) \cap ClustersOf(card, dirbase) = {}
     /\ \A e, g \in files : e # g => Of(e) \cap Of(g) = {}

(* While nothing was lost or refused, no cluster is allocated to no file   *)
(* and FSINFO counts the free ones right (create_chain, sync_fs).          *)
Used == {c \in Clusters : Fat(card, c) # 0}
SpaceAccounted ==
  crashes = 0 /\ errors = 0 /\ sd = "idle" /\ log = "idle" =>
    /\ Used = ClustersOf(card, dirbase)
                \cup UNION {ClustersOf(card, e[2]) : e \in Named(card, "csv") \cup Named(card, "log")}
    /\ card[FsInfo][1] = Cardinality(Clusters \ Used)

(* The header of the day's file is its first line and no other, whatever   *)
(* happens to the power between two points (SD_DateFileAppend).            *)
HeaderFirst ==
  LET c == Content(card, "csv") IN
  errors = 0 => \A i \in DOMAIN c : (c[i] = Header[1]) = (i = 1)

(* A data point whose SD_DateFileAppend has returned is the last in the    *)
(* file, unless the power was lost or the card refused a command meanwhile *)
(* or has no room left.                                                    *)
PointStored ==
  LET c == Content(card, "csv") IN
  sd = "idle" /\ clean /\ point > 0 /\ Used # Clusters =>
    c # <<>> /\ c[Len(c)] = Point(point)[1]
------------------------------------------------------------------------------
(* The day's file, seen through FAT, directory and losses of power, is     *)
(* append-only: SD_DateFileAppend implements AppendOnly.                   *)
DayFile == INSTANCE AppendOnly WITH
  file <- Content(card, "csv"),
  Records <- {Point(n) : n \in 1 .. Points} \cup {Header \o Point(n) : n \in 1 .. Points}

FileIsAppendOnly == DayFile!Spec
=============================================================================
