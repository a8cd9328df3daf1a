------------------------------ MODULE DeviceTime ------------------------------
(***************************************************************************)
(* The clocks of the node (device_time_if.c, sd_time_if.c): one set by the *)
(* task vSyncTime_NTP, one by the interrupt of the GPS receiver, both      *)
(* advanced by the interrupt of the millisecond timer; and vSDStoreTask    *)
(* (main.c), which names the file of the day by the better of the two.     *)
(*                                                                         *)
(* The interrupts may come between any two steps of the tasks.  Time is    *)
(* counted in seconds, and a timestamp is Digits bytes of Base values.     *)
(***************************************************************************)
EXTENDS Integers

CONSTANTS
  Base, Digits, \* a timestamp
  TIME2017,     \* what lies before it is no date
  LeapMonths,   \* the times in January and February of a leap year
  DayLength,    \* a day, in seconds
  Start,        \* the time at which the node starts
  MaxTicks,     \* seconds that are modelled
  NumServers,   \* NUM_SNTP_SERVERS
  Alive,        \* the servers that answer
  MaxSockets,   \* sockets of the network processor
  MaxSyncs,     \* synchronisations that are modelled
  MaxRtc        \* answers of the GPS receiver that are modelled

ASSUME DeviceTimeAssumption ==
  /\ Base \in Nat \ {0, 1} /\ Digits \in 1 .. 4 /\ MaxTicks \in Nat
  /\ TIME2017 \in Nat \ {0} /\ Start \in Nat
  /\ LeapMonths \subseteq Nat /\ DayLength \in Nat
  /\ NumServers \in Nat \ {0} /\ Alive \subseteq 0 .. NumServers - 1
  /\ MaxSockets \in Nat /\ MaxSyncs \in Nat /\ MaxRtc \in Nat

VARIABLES
  now,       \* the time all over the world
  ntp,       \* g_sTimeInfo
  gps,       \* g_sGPSTimeInfo
  sdInfo,    \* g_sSDTimeInfo
  inUse,     \* g_sSNTPDataInUse
  sync,      \* where vSyncTime_NTP is
  listIndex, \* g_ucSNTPServerListIndex
  tried,     \* servers tried in this synchronisation
  ip,        \* ulDestinationIP: the server it is the address of, -1 for none
  sockets,   \* sockets the client has not closed
  reply,     \* the timestamp received, a local variable after that
  digit,     \* bytes of it that are assembled
  retries,   \* retry_counter, up to 3
  syncs,     \* synchronisations begun
  rtcs,      \* answers of the GPS receiver
  leapt,     \* the last of them came in LeapMonths (history)
  sdAt,      \* where vSDStoreTask is
  source,    \* the clock it has chosen
  dated,     \* the time it names the file by: 0 for NODATE
  looked,    \* when it began, some clock had a time (history)
  overlap,   \* the NTP clock was being set meanwhile (history)
  unnamed    \* sockets that were opened and not used (history)

clockVars == <<ntp, gps, sdInfo, inUse>>
syncVars == <<sync, listIndex, tried, ip, sockets, reply, digit, retries, syncs, unnamed>>
sdVars == <<sdAt, source, dated, looked, overlap>>
rtcVars == <<rtcs, leapt>>
timeVars == <<now, clockVars, syncVars, rtcVars, sdVars>>

Unset == [elapsed |-> 0, last |-> 0, first |-> 0, active |-> 0]

(* TIME_InitHWTimer, and the globals of the tasks.  *)
TimeInit ==
  /\ now = Start
  /\ ntp = Unset /\ gps = Unset /\ sdInfo = 0 /\ inUse = FALSE
  /\ sync = "wait" /\ listIndex = 0 /\ tried = 0 /\ ip = -1 /\ sockets = 0
  /\ reply = 0 /\ digit = 0 /\ retries = 0 /\ syncs = 0 /\ unnamed = 0
  /\ rtcs = 0 /\ leapt = FALSE
  /\ sdAt = "sleep" /\ source = "none" /\ dated = 0 /\ looked = FALSE /\ overlap = FALSE
-------------------------------------------------------------------------------
TIME_Exists(clock) == clock.elapsed > TIME2017

(* A faulty TIME_BestTimeSource that takes the older timestamp.  *)
TIME_WorstTimeSource == IF ntp.last < gps.last THEN "ntp" ELSE "gps"

TIME_BestTimeSource == IF ntp.last > gps.last THEN "ntp" ELSE "gps"

(* The clock is being set: from the first byte to the new timestamp.  *)
Setting == sync \in {"assemble", "close", "update", "stamp"}

Second(clock) ==
  [elapsed |-> clock.elapsed + 1, last |-> clock.last, first |-> clock.first, active |-> clock.active + 1]

(* A faulty TIME_TimerIntHandler with no regard to g_sSNTPDataInUse.  *)
TIME_TimerIntHandlerUnguarded ==
  /\ now < Start + MaxTicks
  /\ now' = now + 1
  /\ gps' = Second(gps) /\ ntp' = Second(ntp)
  /\ sdInfo' = IF ntp.last > gps.last THEN ntp.elapsed ELSE gps.elapsed + 1
  /\ UNCHANGED <<inUse, syncVars, rtcVars, sdVars>>

(* One second: what the card's clock gets is read between the two clocks.  *)
TIME_TimerIntHandler ==
  /\ now < Start + MaxTicks
  /\ now' = now + 1
  /\ gps' = Second(gps)
  /\ sdInfo' = IF ntp.last > gps.last THEN ntp.elapsed ELSE gps.elapsed + 1
  /\ ntp' = IF inUse THEN ntp ELSE Second(ntp)
  /\ UNCHANGED <<inUse, syncVars, rtcVars, sdVars>>

(* TIME_UpdateSystemTimeFromPOSIX.  *)
Stamped(clock, t) ==
  [elapsed |-> t, last |-> t,
   first |-> IF clock.first = 0 THEN t - clock.active ELSE clock.first,
   active |-> IF clock.first = 0 THEN clock.active ELSE t - clock.first]

(* TIME_dt2posix of the date at the time t: it counts the leap day from    *)
(* 1 January on (CalendarRight of Calendar).                               *)
Told(t) == t + IF t \in LeapMonths THEN DayLength ELSE 0

(* The GPS receiver answers with its RTC time; all within its interrupt.  *)
RtcAnswer ==
  /\ rtcs < MaxRtc
  /\ rtcs' = rtcs + 1 /\ leapt' = (now \in LeapMonths)
  /\ gps' = Stamped(gps, Told(now))
  /\ UNCHANGED <<now, ntp, sdInfo, inUse, syncVars, sdVars>>
-------------------------------------------------------------------------------
(* vSyncTime_NTP.  A synchronisation needs the internet (Net_Status).  *)
SyncStep(from, to) == sync = from /\ sync' = to /\ UNCHANGED <<now, gps, sdInfo, rtcVars, sdAt, source, dated, looked>>

BeginSync ==
  /\ SyncStep("wait", "open")
  /\ syncs < MaxSyncs
  /\ syncs' = syncs + 1 /\ tried' = 0
  /\ UNCHANGED <<ntp, inUse, listIndex, ip, sockets, reply, digit, retries, unnamed, overlap>>

(* TIME_SyncNTP gives up on a server, and after the last on them all.  *)
GiveUp ==
  /\ tried' = tried + 1
  /\ sync' = IF tried + 1 < NumServers THEN "open" ELSE "failed"

Trying == UNCHANGED <<now, gps, sdInfo, rtcVars, sdVars, ntp, inUse, listIndex, retries, syncs>>

NoInternet ==
  /\ SyncStep("wait", "failed")
  /\ syncs < MaxSyncs
  /\ syncs' = syncs + 1
  /\ UNCHANGED <<ntp, inUse, listIndex, tried, ip, sockets, reply, digit, retries, unnamed, overlap>>

Server == (listIndex + tried) % NumServers

(* The network processor has no socket left, or refuses one.  *)
SocketFails ==
  /\ sync = "open" /\ GiveUp /\ Trying
  /\ UNCHANGED <<ip, sockets, reply, digit, unnamed>>

(* The name is looked up the first time only; a socket is not closed when  *)
(* that fails.                                                             *)
LookupFails ==
  /\ sync = "open" /\ sockets < MaxSockets /\ ip = -1
  /\ sockets' = sockets + 1 /\ unnamed' = unnamed + 1
  /\ GiveUp /\ Trying
  /\ UNCHANGED <<ip, reply, digit>>

(* Nor is it closed when its timeout cannot be set.  *)
OptionFails ==
  /\ sync = "open" /\ sockets < MaxSockets
  /\ sockets' = sockets + 1 /\ unnamed' = unnamed + 1
  /\ ip' = IF ip = -1 THEN Server ELSE ip
  /\ GiveUp /\ Trying
  /\ UNCHANGED <<reply, digit>>

_open_socket ==
  /\ sync = "open" /\ sockets < MaxSockets
  /\ sockets' = sockets + 1
  /\ ip' = IF ip = -1 THEN Server ELSE ip
  /\ sync' = "request" /\ Trying
  /\ UNCHANGED <<tried, reply, digit, unnamed>>

(* A faulty RequestFails that does not close its socket.  *)
RequestFailsOpen ==
  /\ sync = "request" /\ GiveUp /\ Trying
  /\ UNCHANGED <<ip, sockets, reply, digit, unnamed>>

(* No answer within three seconds, or one that is no server's.  *)
RequestFails ==
  /\ sync = "request" /\ GiveUp /\ Trying
  /\ sockets' = sockets - 1
  /\ UNCHANGED <<ip, reply, digit, unnamed>>

Power(n) == IF n = 0 THEN 1 ELSE IF n = 1 THEN Base ELSE IF n = 2 THEN Base * Base ELSE Base * Base * Base
Byte(t, k) == (t \div Power(Digits - k)) % Base

Overlaps == overlap' = (overlap \/ sdAt # "sleep")

RequestAnswered ==
  /\ SyncStep("request", "assemble")
  /\ ip \in Alive
  /\ reply' = now /\ digit' = 1
  /\ inUse' = TRUE
  /\ ntp' = [ntp EXCEPT !.elapsed = Byte(now, 1)]
  /\ Overlaps
  /\ UNCHANGED <<listIndex, tried, ip, sockets, retries, syncs, unnamed>>

(* The clock itself is where the bytes are put together.  *)
Assemble ==
  /\ digit < Digits
  /\ SyncStep("assemble", "assemble")
  /\ digit' = digit + 1
  /\ ntp' = [ntp EXCEPT !.elapsed = @ * Base + Byte(reply, digit + 1)]
  /\ UNCHANGED <<inUse, listIndex, tried, ip, sockets, reply, retries, syncs, unnamed, overlap>>

Assembled ==
  /\ digit = Digits
  /\ SyncStep("assemble", "close")
  /\ inUse' = FALSE /\ digit' = 0 /\ reply' = 0
  /\ UNCHANGED <<ntp, listIndex, tried, ip, sockets, retries, syncs, unnamed, overlap>>

_close_socket ==
  /\ SyncStep("close", "update")
  /\ sockets' = sockets - 1
  /\ listIndex' = Server
  /\ reply' = ntp.elapsed
  /\ UNCHANGED <<ntp, inUse, tried, ip, digit, retries, syncs, unnamed, overlap>>

(* TIME_UpdateSystemTimeFromPOSIX: a second that passes between the reading *)
(* of the argument and its assignment is lost.                             *)
UpdateElapsed ==
  /\ SyncStep("update", "stamp")
  /\ ntp' = [ntp EXCEPT !.elapsed = reply]
  /\ reply' = 0
  /\ UNCHANGED <<inUse, listIndex, tried, ip, sockets, digit, retries, syncs, unnamed, overlap>>

UpdateStamp ==
  /\ SyncStep("stamp", "wait")
  /\ ntp' = Stamped(ntp, ntp.elapsed)
  /\ retries' = 0
  /\ UNCHANGED <<inUse, listIndex, tried, ip, sockets, reply, digit, syncs, unnamed, overlap>>

(* The failure that makes the count 3 is followed by the longer sleep.  A  *)
(* success only sets it to 0, so no later failure is (but for the wrap of  *)
(* the byte it is kept in).                                                *)
SyncFailed ==
  /\ SyncStep("failed", "wait")
  /\ retries' = IF retries < 3 THEN retries + 1 ELSE 3
  /\ UNCHANGED <<ntp, inUse, listIndex, tried, ip, sockets, reply, digit, syncs, unnamed, overlap>>

TIME_SyncNTP ==
  \/ BeginSync \/ NoInternet \/ SocketFails \/ LookupFails \/ OptionFails \/ _open_socket \/ RequestFails
  \/ RequestAnswered \/ Assemble \/ Assembled \/ _close_socket \/ UpdateElapsed \/ UpdateStamp
  \/ SyncFailed
-------------------------------------------------------------------------------
(* vSDStoreTask looks at the clocks three times.  *)
SdStep(from, to) == sdAt = from /\ sdAt' = to /\ UNCHANGED <<now, clockVars, syncVars, rtcVars>>

SdWakes ==
  /\ SdStep("sleep", "exists")
  /\ looked' = (ntp.last > 0 \/ gps.last > 0)
  /\ overlap' = Setting
  /\ source' = "none" /\ dated' = 0

AskExists ==
  /\ SdStep("exists", IF TIME_Exists(ntp) \/ TIME_Exists(gps) THEN "choose" ELSE "append")
  /\ UNCHANGED <<source, dated, looked, overlap>>

ChooseSource ==
  /\ SdStep("choose", "convert")
  /\ source' = TIME_BestTimeSource
  /\ UNCHANGED <<dated, looked, overlap>>

(* One reading of the clock.  The code then makes the date of it within    *)
(* the clock's own structure, where others may come between: left out.     *)
TIME_GetDateFromSource ==
  /\ SdStep("convert", "append")
  /\ dated' = IF source = "ntp" THEN ntp.elapsed ELSE gps.elapsed
  /\ UNCHANGED <<source, looked, overlap>>

SdAppends ==
  /\ SdStep("append", "sleep")
  /\ source' = "none" /\ dated' = 0 /\ looked' = FALSE /\ overlap' = FALSE

vSDStoreTask == SdWakes \/ AskExists \/ ChooseSource \/ TIME_GetDateFromSource \/ SdAppends

TimeNext == TIME_TimerIntHandler \/ RtcAnswer \/ TIME_SyncNTP \/ vSDStoreTask

TimeSpec == TimeInit /\ [][TimeNext]_timeVars
-------------------------------------------------------------------------------
(* Every variable has its type.  *)
Clocks == [elapsed : Nat, last : Nat, first : Int, active : Int]

TimeTypeOK ==
  /\ now \in Nat
  /\ ntp \in Clocks /\ gps \in Clocks /\ sdInfo \in Nat /\ inUse \in BOOLEAN
  /\ sync \in {"wait", "open", "request", "assemble", "close", "update", "stamp", "failed"}
  /\ listIndex \in 0 .. NumServers - 1 /\ tried \in 0 .. NumServers
  /\ ip \in -1 .. NumServers - 1 /\ sockets \in 0 .. MaxSockets
  /\ reply \in Nat /\ digit \in 0 .. Digits /\ retries \in 0 .. 3
  /\ syncs \in 0 .. MaxSyncs /\ unnamed \in 0 .. MaxSockets
  /\ rtcs \in 0 .. MaxRtc /\ leapt \in BOOLEAN
  /\ sdAt \in {"sleep", "exists", "choose", "convert", "append"}
  /\ source \in {"none", "ntp", "gps"} /\ dated \in Nat
  /\ looked \in BOOLEAN /\ overlap \in BOOLEAN

(* No clock runs ahead of the time, although the one of the servers is put *)
(* together byte by byte while the timer interrupt advances it             *)
(* (_sntp_server_timestamp_request, TIME_TimerIntHandler); the one of the  *)
(* receiver is ahead by a day at most, and then because it was set in      *)
(* January or February of a leap year (TIME_dt2posix).                     *)
AheadByLeapDay ==
  /\ ntp.elapsed <= now
  /\ gps.elapsed <= now + IF leapt THEN DayLength ELSE 0

(* A data point goes to NODATE only if no clock was ever set, and a file   *)
(* is named by a time that exists: unless the clock was set while          *)
(* vSDStoreTask looked at it.                                              *)
DayNamed ==
  sdAt = "append" /\ ~overlap =>
    /\ looked => dated > TIME2017
    /\ dated > 0 => dated > TIME2017

(* Between two synchronisations, the sockets not given back are those whose *)
(* look-up or option failed, and no others (_get_ntp_time, _open_socket).  *)
SocketsReturned == sync = "wait" => sockets = unnamed
===============================================================================
