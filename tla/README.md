# Verification of the AirU firmware

TLA+ models, TLC runs and TLAPS proofs for `AirU_V1/airu-firmware-1.0.6`, the
firmware of the AirU air-quality node: a TI CC3200 with FreeRTOS, a Wi-Fi network
processor, a particulate sensor, a GPS receiver, I2C sensors and an SD card. The
node samples its sensors every minute, publishes a data point over MQTT, takes
commands over MQTT, and can replace its own program over HTTP.

File names below are those of `AirU_V1/airu-firmware-1.0.6/src` unless they say
otherwise. `PROJECT.json` maps every definition to the lines it stands for.

## 1. The system

### Tasks and interrupts (`main.c`)

| task or handler | priority | what it does |
|---|---|---|
| SimpleLink spawn task | 9 | calls the event handlers of `internet_if.c` |
| `vNetworkConfigTask` | 8 | station or access point, profiles, retries |
| `vMQTTTask` | 5 | the MQTT session, the node's only reader and writer of it |
| `PM_Tally` | 4 | once a second adds the latest particulate packet to the sums |
| `vSDStoreTask`, `vPushDataPointTask`, `vSyncTime_NTP`, `vSyncTime_GPS` | 3 | store, publish, set the clocks |
| `vDataGatherTask`, `vBlinkTask` | 1 | sample the sensors; blink, and feed the watchdog |
| UART interrupts (PMS, GPS), timer interrupt | - | fill rings, count milliseconds |

`vMICS_Preheat`, `vFileDownload` and `WTF` are written but never created.

### Components

| component | state it keeps | operations | interacts through |
|---|---|---|---|
| MQTT client library (`MQTTClient.c`, `MQTTCC3200.c`, codecs) | `next_packetid`, `isconnected`, `ping_outstanding`, the handler, one read and one write buffer | initialise, connect, subscribe, publish, yield, keepalive | calls from `vMQTTTask`; bytes of a TLS connection; calls `messageArrived` |
| MQTT task | reconnect request, retry counter, publish cycle | reconnect, publish turn, yield turn, back-off | flags set by others; `g_NetworkLockRequest`; `Net_Status()` |
| Command handler `messageArrived` | reply buffer, publish flag, reboot flag | `ota`, `ip`, `mics`, `dnl`, `del`, `ping`, `reboot`, `rmp`, `ack`, `led` | runs inside a call of the MQTT task |
| Publisher | `payload`, the `DATAPOINT` flag | one data point a minute | unlocked globals shared with the MQTT task |
| Firmware update (`server_if.c`, `HTTP_GETDownloadFile`) | two image files, boot info, `g_ucOTABinFN` | connect, download, save the boot info | called by `messageArrived`; the boot loader |
| Scheduler (`main.c`, FreeRTOS) | priorities, synchronisation objects, `g_NetworkLockRequest` | sleep, wait, signal, lock, unlock | every task |
| Network manager (`vNetworkConfigTask`, `internet_if.c`, `simplelink_if.c`) | connection status bits, profiles, last error, timers | station, access point, add and remove profile | events of the network processor, the button, the HTTP page; semaphores to the other tasks |
| Device time (`device_time_if.c`) | NTP clock, GPS clock, `MilliTimer`, server index | tick, synchronise, convert | timer interrupt; read by all |
| Particulate sensor (`pms_if.c`) | ring of 5 packets, sums | interrupt, tally, averages | interrupt, `PM_Tally`, `vDataGatherTask` without a lock |
| GPS (`gps_if.c`) | ring of bytes, coordinates, ready flag | interrupt, parse, request RTC time | interrupt; `vSyncTime_GPS` |
| SD card and log (`sd_if.c`) | one `FATFS`, one `res`, two files | append a data point, log a line | called from nearly every task without a lock |
| FAT file system (`ff.c`, `diskio.c`) | window, free clusters, open files; the card | mount, open, seek, read, write, sync, close | called by `sd_if.c`; commands to the card |
| Configuration page (`SimpleLinkHttpServerCallback`) | `netEntries`, `g_ulSSIDGETIndices` | list the networks found, in two tokens; connect | the HTTP server of the network processor; the network manager's flags |
| Watchdog and LEDs (`wdt_if.c`, `vBlinkTask`) | watchdog counter | acknowledge every 100 ms | starved by any higher task that spins |

Generated code (`pinmux.c`) and sources left out of the build (`network_if.c`,
`handlers.c`) are left aside, and so is what is built but never called
(`HTTP_PostMethod`, `Wlan_ConnectTest`, `smartconfig.c`, `MQTTFormat.c`).

### What is hard

* Tasks of different priority share flags, buffers and sums without a lock; a read
  and a write of a flag are two steps.
* MQTT answers are matched by type, not by identifier; calls time out while their
  answers are under way; the connection breaks without telling.
* One timer bounds a whole call, a read inside a packet and the command that the
  packet carries.
* Power may be lost between any two writes of an update, and several failures are
  returned as success.
* One lock is held over sleeps of a minute; loops spin at priority 8.
* Rings and clocks are shared with interrupts and wrap at odd places.
* One file system object serves tasks of every priority, and the card may lose its
  power, or refuse a command, between the writes that belong together.

`PROJECT.json`, "hazards", lists them line by line, with the properties that cover
them, or the reason why none does.

### What makes each component correct

* MQTT session: a publish reported as done was taken in by the broker; a command
  acknowledged was handled; no command is missed while the session lasts; a session
  counts as established only after the broker answered; a dead connection is noticed.
* Flags: a reboot happens only if asked for, and then does happen; what is published
  is a finished data point.
* Update: there is always a program to boot; success means the program asked for is
  installed; from outside, the update is atomic.
* Network manager: the node ends up as a station with internet or as an access point
  the user can reach, and never takes the one for the other; only a bad profile is
  removed; every profile the user enters is tried.
* Tasks: TLS is tried only with the time set; the network lock is granted to whoever
  waits for it; a task that spins above all others is ended by the watchdog.
* Time: no clock runs ahead, but for the leap day; a file is named by a day that exists; sockets are given
  back; calendar conversions are right.
* Particulate sensor: an average is made of good packets, each counted at most once,
  and loses none of those counted; the ring stays in bounds; a lost character does not
  keep later packets out.
* GPS: a sentence that arrives whole is parsed, whatever came before it.
* Storage: a data point that was appended is in the day's file; the file only grows,
  its header is its first line, and the volume is one a reader can follow, wherever the
  power is lost.
* Codec: what one side writes, the other reads, in whatever pieces it arrives.
* Page: every network is listed once, the strongest first, within the limits of a token.

## 2. Modules

| module | what it is |
|---|---|
| `PublishContract` | abstract: what `MQTTPublish` promises to its caller |
| `MqttSession` | client library, turn of the MQTT task, broker and connection |
| `MqttCodec` | the packets as bytes, read in pieces, both sides of the library |
| `MqttTask` | publish and reboot flags between publisher, command handler and MQTT task |
| `NodeTasks` | the scheduler: priorities, synchronisation objects, network lock, watchdog |
| `AtomicUpdate` | abstract: an update is one step |
| `Ota` | the update, file access by file access, with loss of power |
| `NetConfig` | the network manager, the events it meets, and the table of profiles |
| `ScanPage` | the list of networks on the configuration page |
| `Pms` | the particulate sensor's interrupt, ring, sums and averages |
| `DeviceTime` | the two clocks, the client of the time servers, the day's file name |
| `Calendar` | the conversions between seconds and dates |
| `GpsReceiver` | the GPS receiver's ring and parser, the request for the time |
| `FatFs` | the file system, as functions on the card and the objects in memory |
| `AppendOnly` | abstract: a file that only grows, by whole records or beginnings of them |
| `Storage` | the data point and the log line, call by call, over `FatFs` |
| `..._proofs` | the theorems about the module of that name (section 4); `Tasks_proofs` is about `MqttTask` and `NodeTasks`, `Devices_proofs` about `Pms`, `DeviceTime`, `GpsReceiver`, `ScanPage`, `Calendar` and `MqttCodec`, `Volume_proofs` about the part of `FatFs` below files, on which `FatFs_proofs` and `Storage_proofs` build |
| `MC...` | the values TLC uses; `MCTasks` and `MCDevices` put several modules in one run |

Composition: `Storage` runs over `FatFs`; `MqttSession`, `Ota` and `Storage` each
implement an abstract module through `INSTANCE`. The tasks are seen at three grains:
within a call (`MqttSession`, `NetConfig`, `DeviceTime`), access by access on the flags
they share (`MqttTask`), and turn by turn with everything else abstracted
(`NodeTasks`). `MCTasks` holds the last two views side by side; `MCDevices` holds six
parts that share no state, of which a behaviour follows one (`part`).

### `MqttSession`

A step of the task ends where the task blocks: in a sleep, or in `sl_Select` inside
`cycle()`. The variable `op` names the call it is blocked in, so everything the code
does between two blocking points (a handler, its `PUBACK`, the return through
`waitfor()`, the test of `rc` at the end of the turn, the choice of the sleep) is one
action. The rest of the state is the code's: `reconnect`
(`ucMQTTReconnectRequest`), `retry`, `pubCycle`, `next` (`next_packetid`),
`isconnected`, `handler`, `ping` (`ping_outstanding`). `call` records the latest call
of `MQTTPublish` and whether the broker has taken its message in; `handled` the
commands `messageArrived` got. Both are history: no guard reads them.

| code | actions |
|---|---|
| `MQTTInitialize`, `TLSConnectNetwork`, `MQTTConnect` | `TimeNotSet`, `NoSocket`, `NoConnack`, `ConnectRefused`, `Connect` |
| `MQTTSubscribe`, `MQTTSubscribeAll` | `Connect` (the first packet), `SubackReceived` |
| `MQTTPublish` | `BeginPublish`, `PubackReceived`, `WaitExpires` |
| `MQTTYield`, `keepalive` | `BeginYield`, `YieldExpires`, `YieldFails`, `Keepalive` |
| `cycle`, `readPacket`, `deliverMessage` | `ReadAwaited`, `ReadOther`, `ReadCommand`, `ReadShort`, `ReadGarbage` |
| end of a turn of `vMQTTTask` | `TurnFails`, `TurnSucceeds`, `Wake` |

The environment is the broker (`BrokerAnswers`, `BrokerPublishes`), the connection
(`LinkBreaks`: cut, or half-open, with any suffix of what was under way lost) and
`Net_Status()` (`NetChanges`). TCP neither reorders nor duplicates, so neither does
the model. The node keeps no session at the broker (`cleansession = 1`), so an
unacknowledged command is lost with the connection.

The exchange of `CONNECT` and `CONNACK` is one step: nothing else can be in the
stream then, and its outcomes are the five actions above. The network lock and the
semaphores the task waits for at its start are in `NodeTasks`.

### `MqttCodec`

A packet is serialized (`Serialize`), read in pieces of any size (`ReadHeader`,
`MQTTPacket_decodenb`, `ReadRest`: the three states of `MQTTPacket_readnb`) and
deserialized (`Deserialize`). Texts, lists and lengths are sequences of numbers; a
digit of the remaining length has `LenBase` values in place of 128, so that short
packets have long lengths. What may be sent is `Sendable`: texts and identifiers that
two bytes can say, one of the two protocols, and a body whose length four digits can
say. The code's loops are recursive functions: over the digits (`MQTTPacket_encode`),
over what is written one after the other (`Joined`), over the filters that are read
(`FilterPass`, `Filters`). The buffer may be too small at either side. Three facts the
property had to be stated around: `MQTTPacket_len` asks for one byte too many where a
digit of the length begins; the server's `CONNACK`, `SUBACK` and `UNSUBACK` ask for
less than they write, the node never serializes them; and a `CONNECT` with an empty
name or password is refused by the library's own reader.

### `MqttTask`

`vPushDataPointTask` and `vMQTTTask` share `flag`, `payload` and (with
`messageArrived`) the reply buffer. The publisher's priority is lower, so every memory
access of it is a step that a whole step of the MQTT task may follow: the clearing of
the payload, the printing of it in two halves, its length, the load and the store of
`flag |= DATAPOINT`. A call of the MQTT library succeeds or fails; `MqttSession` says
when. A command is its word and what follows it: `MQTT_PUB_ACK` says which are answered
(`Answered`) and which set the reboot flag (`Rebooting`).

### `NodeTasks`

`at[t]` is where a task is: asleep, ready, waiting for an object or the lock, holding
the lock (`own`), in a call of the network processor (`call`), about to unlock
(`done`, `hurry`, `good`), or spinning. `MayRun` is the preemptive scheduler: a task
steps only when no task of higher priority can. A task in a call leaves the processor
to the others.

| code | actions |
|---|---|
| `osi_SyncObjWait` of `vMQTTTask`, `vSyncTime_NTP`, `vPushDataPointTask` | `SyncObjTaken` |
| `osi_LockObjLock`, `osi_LockObjUnlock`, `osi_Sleep` | `Lock`, `Unlock`, `Wake` |
| `vNetworkConfigTask` | `IdleTurn`, `Wlan_Connect`, `StationReturns`, `AccessPointReturns`, `ErrorLoop` |
| `vSyncTime_NTP` | `Call`, `SyncReturns`, `TimeUpdate` |
| `vMQTTTask` | `NotOnline`, `Call`, `MqttReturns`, `MqttReboots` |
| `vDataGatherTask`, `vBlinkTask`, tasks without the lock | `GatherReboots`, `Blink`, `Work` |
| events of the network processor | `IpAcquired`, `LinkChanges` |
| `wdt_if.c`, `main()` after a reset by the watchdog | `Watchdog`, `CleanBoot` |

Decisions: a turn that does not spin is over before any sleep is (`TimePasses`); the
spawn task, which runs the event handlers, is above all others; unlocking makes the
first waiter ready to try again, which is not yet to own the lock (FreeRTOS); the
watchdog resets after the second period without an acknowledgement; a failed reading
of the sensors, and so the reboot after the third, may happen at any turn; a call of
the network processor returns in the end, with any result, or with an error that ends
in `ERROR_LOOP` (a macro of the SDK: a loop without an end).

### `Ota`

`image` holds what the two program files contain, `active` what the boot info names.
`step` is where `OTA_UpdateAppBin` is; between any two steps `Boot` may happen. The
code returns some failures as success; each is a member of `Unreported` ("unread":
boot info not opened; "status": not 200; "closing": `Connection: close`; "aborted": a
failed read or write; "unwritten": the boot info not written; "repeat": a second
update before the reboot). All of them happen in the run; `hidden` records which did,
and the properties say up to which of them they hold. The opening, writing and closing
of the boot info is one step (`SaveBootInfo`): what a loss of power within it leaves is
not modelled.

### `NetConfig`

`state` is the state of `vNetworkConfigTask` (IDLE, TRY_STA, TRY_AP) and `pc` where it
is within a turn; a step ends at a sleep, a spin or an access to what the event handlers
share with it. Those run in the spawn task, above the manager's priority, so one may
come between the load and the store by which the manager clears a bit of
`g_ucNetworkCheckProfiles`.

| code | actions |
|---|---|
| `case IDLE` | `TakeRequest`, `ClearCheck`, `UserPressed`, `ClearPressed`, `ChooseMode`, `ReconnectAsStation`, `StayIdle` |
| `case TRY_STA`, `Wlan_Connect(ROLE_STA)`, `ConnectionTest` | `StartStation`, `Connected`, `ConnectTimeout`, `PingSucceeds`, `PingFails` |
| `case TRY_AP`, `Wlan_Connect(ROLE_AP)`, `Wlan_Scan` | `ScanFirst`, `StartAP`, `APReady`, `ClearRequest`, `StartTimer` |
| the end of a turn | `EndOfTurn`, `TimerExpires` |
| `SimpleLinkWlanEventHandler`, `SimpleLinkNetAppEventHandler` | `Joins`, `Leaves`, `ClientChanges`, `AcquiresIP` |
| `SimpleLinkHttpServerCallback`, "update" | `Press` |
| `messageArrived`, "rmp" | `RemoveProfiles` |

The 6 seconds of a new profile and the 30 seconds before the next attempt as a station
may end at any turn after the one that started them. `untried` is history: the profiles
stored since the last attempt. The network processor accepts every mode it is asked for.

### `Pms`

The interrupt handler takes one character (`PMSIntHandler`), or misses it because the
flag is cleared late (`Miss`). A character is known by its packet and its place in it;
`LooksLikeB` are the characters within a packet that have the value of its first. A
packet takes 25 ms to arrive, less than the 50 ms the handler gives it, and the next one
begins later than that: the time is over exactly when the character belongs to a later
packet. `PM_Tally` is three steps (find a row, add it, clear it) and `PMS_GetPMData` two
(averages, reset); the interrupt may come between any of them, and `PM_Tally` between
the latter two, its priority being the higher. `_checksum` accepts the rows whose
characters are those of one packet after any `B`; that it accepts a mixture by accident
is left out. The sums are known by the characters added to them (`counted`), and the row
is read again when it is added, so a packet that begins to be written meanwhile counts
with the characters it has. `since` is history: how many packets the handler has seen
begin that cannot be mistaken (`Plain`: none of their characters looks like a first
one), counted to 2 from the first after a loss or a start. Two such packets bring the
handler back in step (`InStepAgain`). Two packets of any kind do not: if the second has
a character that looks like its first, the handler may take that for the beginning, and
the packet ends where the next is cut.

### `DeviceTime` and `Calendar`

The timer interrupt (`TIME_TimerIntHandler`) advances both clocks, the interrupt of the
GPS receiver sets one at once (`RtcAnswer`), and `vSyncTime_NTP` sets the other in the
steps of `TIME_SyncNTP`: socket, look-up, request, four bytes assembled in the clock
itself, close, `TIME_UpdateSystemTimeFromPOSIX` in two. `vSDStoreTask` reads the
clocks in three steps (does one exist, which is better, what does it say). An interrupt
may come between any two. A timestamp is `Digits` bytes of `Base` values; the shift and
the addition of a byte are one step, and the timer interrupt does not nest with that of
the receiver. `overlap` is history and marks what `DayNamed` excludes, a clock that is
being set while the task looks. Without `overlap`, TLC shows the file of a day that never was (`-01-00.csv`),
named by a half-assembled clock. `TIME_GetDateFromSource` is one reading of the clock; the
code then makes the date of it in the `datetime` of the clock itself, where another task
may come between, and that is left out. `unnamed` counts the sockets that were opened
and given up unused, which the code never closes: `SocketsReturned` says that those, and
no others, are missing between two synchronisations. The address of a server is looked up once, for the
first server whose name resolves; every later request goes there, whatever name is
next in the list. The model has that (`ip`), and no property is about it.

`Calendar` has the conversions as functions, with the wrap of unsigned seconds, the
`short` of a day and the width of `itoa`. `CalendarRight` compares them with a calendar
written down independently, for the times of an instance, and names the dates at which they differ: New Year's day
local time until 17:00, January and February of a leap year in both directions.
What it says of `TIME_dt2posix` is what `DeviceTime` sets the clock of the receiver to
(`Told`): the time, and in `LeapMonths` a day more. So that clock is ahead of the time by
a day after an answer in these months, until the next answer after them, and
`AheadByLeapDay` says that this is the only way for a clock to be ahead (`leapt` is
history: the last answer came in these months).

### `GpsReceiver`

The interrupt handler takes a character at a time (`Character`, or `MissCharacter`),
and at the end of a sentence reads it back from the ring (`Packet`), whose places are
`MaxLine` and whose index wraps at `IndexSpan`, as the one-byte index does at 256 in a
ring of 500. A checksum of mixed characters never matches. The assignment
`f = (f < 2) ? f++ : 2` is undefined: it leaves `f` or `f + 1`. `SentencesParsed` says
exactly which sentences are lost: those that run over the wrap, and no others.

### `FatFs` and `Storage`

`FatFs` is the file system as far as the node uses it: the one-sector window with its
dirty flag, FSINFO, the search for a free cluster, chains, directory entries, the FIL
objects with a sector buffer of their own, and the order of the writes. Each function
takes a machine (card, objects in memory, result) to a machine; `cards` in it are the
contents the card has had in this call, one of which a loss of power leaves, and `fail`
is the number of accesses after which the card refuses one command. A loop of the code
is a function from the number of its passes to what they have made of the machine
(`SearchPass`, `FindPass`, `AllocPass`, `SeekPass`, `WritePass`), with as many passes as
the loop can have: the FAT's length for the search, `MaxIndex` for a directory (65536 in
the code, of indices 0 to 65535), the length of the offset or of the data for a seek or a write. A volume is
mounted on a card that has been identified:
`disk_initialize` sends its eight commands once in a boot, and if one of those that give
the card its address and select it is refused, the card refuses everything until the
next boot (the status is 0 before the card is selected). `Storage` makes each call of `sd_if.c` one step
(`SdMount` ... `SdClose`, `LogMount` ... `LogClose`) and chooses the fault.

Decisions: a sector is written whole or not at all; a cluster is one sector; the copy
of the FAT is never read; the card is of standard capacity (a card of high capacity that
refuses `SEND_IF_COND` would be asked for its state for ever); calls of two tasks interleave call by call, not within one
(a task switch within `f_write` is not modelled); the identifier of a mount does not
wrap to an old one; a FIL that is opened has an empty buffer. A cluster that is linked to
the directory and not yet cleared holds what it held before: the units of a file are
values of their own, so none of them is taken for an entry of one of the two files (on a
card, data would have to have such an entry's name at such a place).

### `ScanPage`

A turn of a loop is a step: `_removeDuplicates` compares one pair of entries,
`PassOver`, `List1` and `List2` visit one entry for a token. `page` says which loop runs,
`tmp1` and `tmp2` are its counters; nothing else comes between the turns, so the steps
are there to be reasoned about. A list is what has been written of it: the indices,
which of them follow a comma, and where each ends. `SendToken` is the end of an answer;
`gets` (`g_ulSSIDGETIndices`) is all that the second token knows of the first. The scan
succeeds, and signals are above -128 dBm, the value that marks a removed entry. If the
strongest network hides its name, the first list begins with a comma (the code leaves it
out by the index in the table, 0, rather than in the list): `NetworksListedOnce` asks
for well-formed lists only if it does not (`StrongestTells`).

## 3. Runs

| run | states | what it shows |
|---|---|---|
| `session` | 200,336 | `TypeOK`, `NoStalePuback`, `SessionAnswered`, `PingNotStuck`, `AckedWasHandled`, `NoCommandMissed`, and `ImplementsContract` |
| `session_noise` | 192,244 | `BrokenLinkNoticed`, although reads time out inside packets and the stream is misread |
| `session_refused` | counterexample | a refused SUBSCRIBE leaves a session that counts as established |
| `task` | 67,692 | flags: `RebootWasAsked`, `RebootObeyed`; scheduler: `ClockBeforeTLS`, `SpinEnds`, `LockIsGranted` |
| `task_torn` | counterexample | a half-written data point is published |
| `ota` | 42,992 | `AlwaysBoots`, `SuccessInstalls`, `UpdateIsAtomic` |
| `ota_status` | counterexample | an answer other than 200 is reported as a successful update |
| `netconfig` | 56,650 | `TypeOK`, `NoInternetAsAP`, `IdleIsSettled`, `ProfilesAreTried` |
| `netconfig_index` | counterexample | the removal of a bad profile deletes the first one of the table |
| `storage` | 203,461 | `VolumeConsistent`, `SpaceAccounted`, `HeaderFirst`, `PointStored`, `FileIsAppendOnly` |
| `storage_shared` | counterexample | a log line between the calls that store a data point loses it |
| `devices` | 1,281,017 | sensor: `CountedOnce`, `SamplesAreKept`, `InStepAgain`; clocks: `AheadByLeapDay`, `DayNamed`, `SocketsReturned`; GPS: `SentencesParsed`; calendar: `CalendarRight`; codec: `RoundTrip`; page: `NetworksListedOnce` |

The five counterexamples are disagreements between the code and what its comments
say; `PROJECT.json`, "findings", quotes both sides. Of the states of `devices`, about
273 thousand belong to the sensor, 739 thousand to the clocks, 93 thousand to the GPS
receiver, 155 thousand to the page, 13 thousand to the calendar and 7 thousand to the
codec.

### Bounds

* `session`: two messages, one of which does not fit in `writeBuf`; one command;
  identifiers 1 and 2 and a counter up to 3, so that the counter wraps within a
  session, starts beyond the wrap (it is uninitialised), truncates to 0 on the wire,
  and identifiers of successive publishes coincide; `MaxRetries` 2, so that both
  sleeps occur. Every packet arrives whole (`ShortReads` 0): the properties of this
  run do not survive a misread stream, where a yield that ends inside a packet drops a
  command. The streams need no bound: a call sends one packet, and calls end.
* `session_noise`: one message and one identifier; a read may end inside a packet
  while at most one packet is under way (`ShortReads` 1); the leftover of a packet is
  one element of the stream. The broker may publish before it answers a SUBSCRIBE.
* `task`: two data points in a boot, enough for one to be rewritten while the flag of
  the last is set; a command that is answered, one that reboots, the same followed by a
  word that forbids it, and one that only clears the text of the answer. In the scheduler, all named tasks and one worker, `vDataGatherTask`: more workers only
  sleep and work, and the theorems hold for any set of them.
* `ota`: two programs; an update may install the other one or the same again, either
  file may be missing at first, and updates and boots repeat without a bound.
  Deadlock is allowed there: a node that has lost both programs stops for good.
* `netconfig`: two names and a table of two slots, enough for a full table, for a
  profile entered twice, and for the first slot to hold another name than the one added
  last; the table starts with any contents, the network processor in either mode.
* `storage`: six clusters of one sector, of which the root directory has one at first;
  sectors of two units, three FAT entries and one directory entry to a sector, so that
  two files need several sectors of everything, a chain crosses from one FAT sector to
  the next, and the card fills up; three data points and two log lines (of three units,
  which cross a sector) never at work together (`Alone`); directories of eight entries at
  most, more than the card has room for; two losses of power, one
  refused command (and those that an unselected card then refuses), after any of the
  first twelve accesses of a call, which is more than
  a call makes. `storage_shared` has neither, and lets the two calls interleave.
  Deadlock is allowed: after the last point and line nothing is left to do.
* `devices`: deadlock is allowed, since the bounded parts come to an end.
  * sensor: three rows of three characters (the subtraction of `_find_last_good_pm` wraps
    badly for 3 as it does for 5); six packets, twice what the ring holds; three
    characters that look like the beginning of a packet, in two packets that follow each
    other and in one after a packet that has none; one missed character, at any place. If
    every packet held such a character, the handler could stay out of step for good.
  * clocks: timestamps of four binary digits, so that a carry crosses every digit; two
    seconds, two synchronisations, two answers of the GPS receiver; two servers and two
    sockets, so that the client can run out of them. Of the three
    times the middle one belongs to the leap months, and a day is longer than all of
    them, so that the clock of the receiver is set ahead and set right again. `TIME2017` lies between a
    half-assembled clock and the time of the start.
  * GPS: an index that wraps at 8 in a ring of 15, sentences of 3 characters, five of
    them, so that the wrap is met at every place within a sentence; two missed characters.
  * calendar: every day of the twelve years from 2017 on, at the start of the day, a
    second later, and where the local day begins.
  * codec: digits of the remaining length with four values, which gives lengths of one to
    three digits; buffers too small, tight and large; every type of packet.
  * page: up to three networks of three names and one without, of two strengths, or four
    of which the strongest tells its name; names of 30, 18 and 4 characters in a token of
    64.

### Fairness

`BrokenLinkNoticed` assumes that the MQTT task keeps running (every sleep, wait and
retry of it is bounded, apart from the send loop of hazard `MQTTCC3200.c:124`) and that
`vPushDataPointTask` asks for a publish again and again, which it does every minute
without looking at the connection. It is weak fairness on both. The property speaks of
behaviours in which `Net_Status()` is true from some point on.

`RebootObeyed` assumes weak fairness of the task's calls, which begin and return, and
strong fairness of a subscription and of the publishing of a data point succeeding: if
no connection could ever be made, or a data point could never be sent, the reboot would
wait forever, because data points go first. It excludes a request made while the
publisher holds a stale copy of the flags, when `DEBUG` is lost.

`ProfilesAreTried` assumes that the network manager runs (weak fairness of its turn: its
waits are bounded but for the spin on the address of the access point, which the network
processor gives itself), and strong fairness of `ReconnectAsStation`: idling as an
access point with the timer active comes to an end after 30 seconds, however often a
request interrupts it.

`SpinEnds` and `LockIsGranted` assume that the task the scheduler lets run does run, that
a call of the network processor returns and that the watchdog counts (weak fairness of
each), and that the sleeps of `vMQTTTask` and `vBlinkTask` end although others wake in
between (strong fairness of the two: a sleep is a number of ticks, whatever the others
do). Nothing says that an address is ever acquired. `LockIsGranted` promises the lock
to the clock only if the network manager settles in the end: while it is asked for one
attempt after the other, it and `vMQTTTask` may pass the lock between them for ever. The
other runs check safety and need no fairness.

## 4. Proofs

Every theorem holds for every value of the constants that satisfies the module's
`ASSUME`: at least one identifier, a counter at least as wide as the identifier, at
least one retry, oversized messages among the messages, a directory entry no shorter
than a unit of data (`DirPer <= SS`), and so on.

| theorem | statement | assumptions |
|---|---|---|
| `TypeCorrect` | `Spec => []TypeOK` | none: the stream may be misread |
| `PubackIsFresh` | `Spec => []NoStalePuback` | `ShortReads = 0` |
| `SessionImplementsContract` | `Spec => ImplementsContract` | `ShortReads = 0` |
| `PingIsAnswered` | `Spec => []PingNotStuck` | `ShortReads = 0` |
| `SubscriptionsAnswered` | `Spec => []SessionAnswered` | `ShortReads = 0` |
| `AckMeansHandled` | `Spec => []AckedWasHandled` | `ShortReads = 0`, `~EarlyPublish` |
| `CommandsReachHandler` | `Spec => []NoCommandMissed` | `ShortReads = 0`, `~EarlyPublish` |
| `TaskTypeCorrect` | `Spec => []TypeOK` (`MqttTask`) | none |
| `RebootOnlyIfAsked` | `Spec => RebootWasAsked` | none |
| `NodeTypeCorrect` | `NodeSpec => []NodeTypeOK` | none |
| `TimeBeforeTLS` | `NodeSpec => []ClockBeforeTLS` | none |
| `OtaTypeCorrect` | `Spec => []TypeOK` (`Ota`) | none |
| `NodeAlwaysBoots` | `Spec => []AlwaysBoots` | none; the property ends at the mishaps in `hidden`, but for "unwritten" |
| `SuccessIsInstalled` | `Spec => []SuccessInstalls` | none; the property asks for `hidden = {}` |
| `OtaIsAtomic` | `Spec => UpdateIsAtomic` | none; the property is about steps up to the first of `hidden` |
| `NetTypeCorrect` | `Spec => []TypeOK` (`NetConfig`) | none |
| `AccessPointIsOffline` | `Spec => []NoInternetAsAP` | none |
| `IdleMeansSettled` | `Spec => []IdleIsSettled` | none |
| `PmsTypeCorrect` | `Spec => []TypeOK` (`Pms`) | none |
| `SamplesKept` | `Spec => []SamplesAreKept` | none |
| `NothingAddedTwice` | `Spec => []CountedOnce` | none |
| `BackInStep` | `Spec => []InStepAgain` | none |
| `TimeTypeCorrect` | `TimeSpec => []TimeTypeOK` | none |
| `LeapDayAtMost` | `TimeSpec => []AheadByLeapDay` | none |
| `SocketsGivenBack` | `TimeSpec => []SocketsReturned` | none |
| `FilesNamedByTheDay` | `TimeSpec => []DayNamed` | `Start > TIME2017`, `Start + MaxTicks < Base * Power(Digits - 1)` |
| `WholeSentencesAreParsed` | `GpsSpec => []SentencesParsed` | none |
| `PageListsNetworks` | `PageSpec => []NetworksListedOnce` | none |
| `CalendarIsRight` | `CalendarSpec => []CalendarRight` | `CalendarAssumption`: days from the second of 2017 to the last that ends within 32 bits of seconds |
| `PacketsReadBack` | `CodecSpec => []RoundTrip` | `CodecAssumption`: packets are `Sendable`, a digit has more than two values |
| `StorageConsistent` | `StorageSpec => []VolumeConsistent` | none: not even `Alone` |
| `Mounts`, `OpensFile`, `Appends`, `Reads`, `Writes` | a good machine is one after `f_mount`, `f_open`, `f_append`, `f_read`, `f_write` | what is written are units of a file |
| `Syncs`, `Closes` | as above, with the same directory and chains, for `f_sync`, `f_close` | none |

**Session.** `NoStalePuback` is not inductive: nothing in it says why an older
`PUBACK` cannot be in the stream. `SessionInv` does. Its parts: outside a call of
`MQTTPublish` in a live session no `PUBLISH` and no `PUBACK` is under way
(`QuietBetweenCalls`: a failed call sets the reconnect request, and the next session
starts on an empty stream); within a call at most one of the two is, and carries the
call's identifier and message (`OneUnderWay`); a call in progress has recorded its
message (`CallInProgress`, `OpInSession`, `NothingBeforeFirstCall`); and there is no
leftover of a packet (`NoGarbage`, from `ShortReads = 0`). The invariant is preserved
because every call that fails ends the session: an identifier may repeat or be 0, and
the client need not compare it. The contract follows by mapping each step to `Call`,
`Reach`, `Succeed`, `Fail` or a stutter; `PubackReceived` is the one that needs the
invariant. The counts of packets in a stream are facts about sequences (`Append`,
`Tail`, `SubSeq`), proved as lemmas first.

`PingNotStuck` is inductive once `NoGarbage` is known: a ping leaves a request in the
stream to the broker, which becomes an answer in the other, and only reading it, or a
new session, clears the flag. `SessionAnswered` needs `AnswerInv`: while the first
SUBSCRIBE is outstanding, either it or its SUBACK is under way, never both, and the
SUBACK means that it was answered (`FirstAsked`); while the second is, the first has
been answered, and a SUBACK under way means the second has (`SecondAsked`).
That is why the code may leave the identifiers
uncompared.

The two theorems about commands need `CommandInv`. `readPacket` acknowledges a command
whether or not `messageArrived` is installed, and it is installed when a granted SUBACK
is read: so a command in the stream has such a SUBACK before it or the handler is there
already (`InstalledFirst`), and so would the next one have (`GrantSeen`). What the
acknowledgements under way speak of has been handled (`AcksHandled`), and in a live
session a command that was sent has been handled or is in the stream (`CommandKept`).
`~EarlyPublish` is what makes `GrantSeen` true: a broker that publishes to a filter
before it answers the SUBSCRIBE can have a command acknowledged that nobody handled.

**Tasks.** A reboot needs the flag, and the flag needs a command heard since the start
(`Asked`). TLS needs the signal that the time is set, and `TimeIsTold` says that whoever
gives the signal has set the time before: at the restart both are gone.

**Update.** The invariant ties the step to the files: from the choice of an image on,
until a mishap, the file being written is not the active image's and is the one the
boot info will name; when the boot info is saved, that file holds the program asked
for.

**Network manager.** `NetInv` says what the place in a turn tells of the state and of
the mode of the network processor (`WhereInTurn`), that `g_iInternetAccess` is never
SUCCESS in the mode of an access point, and `IdleIsSettled` from the moment a turn has
led to IDLE on (`Settled`): a request may be lost between the load and the store that
clear it, but only in a turn that then leaves IDLE or has just settled.

**Sensor.** What `vDataGatherTask` is about to reset it has just averaged
(`ForgottenAtReset`). The type invariant is the statement that handler and search stay
within the ring and a row, for a ring of any size, although the search counts in bytes.
`CountedOnce` holds because every character is at one place of the ring at most, and
those added are only in the row about to be cleared (`RingOnce`); what the handler
writes next was never there (`CountedSent`). For `InStepAgain`, `Framed` says what the
handler is doing after one plain packet: it waits for the next, or is within a packet
that began in this one and ends in it. The first statement of the property, two packets
of any kind, was refuted in the attempt to prove it, by two packets that both have a
character that looks like a beginning; the instance had only one such character then.

**Clocks.** While the clock is assembled, what it holds is the timestamp without its
last digits, or less (`BytesBelow`), and the timer interrupt leaves it alone exactly
then (`UsedWhileAssembled`); afterwards it advances by at most what the time does. The
clock of the receiver is set at once, to no more than a day beyond the time (`ToldType`),
and advances with it. A socket is held from its opening to its closing, and by those calls
that lose it (`SocketInv`).

`DayNamed` has two hypotheses about the node: it is started after 2017, and a timestamp
holds every time there is (four bytes of seconds since 1900 do until 2036). The argument is what
each of the three looks at the clocks tells of the two that follow (`Naming`): a clock
that exists when it is chosen still does when it is read, because clocks only advance
outside a synchronisation, and a synchronisation meanwhile is `overlap`. A clock that
was set is not before the start (`GpsSet`, `NtpSet`), also while the timestamp is
assembled, when it holds the quotient of the answer exactly (`SettingExact`). The lemmas
behind the last are about division: dividing twice is dividing by the product, and a
byte more is a division less (`DivExact`, `AppendExact`).

**GPS.** The parser reads backwards from a newline to a `$` found by arithmetic on
indices. `Collected` says where the characters of a sentence without a loss are, the
index `from` it began at, and that places beyond the reach of the index are never
written (`BeyondIndex`), which is what the parser meets when a sentence runs over the
wrap. What `Packet` reads is characterised by its least newline, which exists because a
set of numbers has a least element (`HasLeast`). Characters carry the number of their
sentence, so what is left of older ones cannot be taken for a part of this one
(`NothingEarly`).

**Page.** While the entries are compared, what is true of them does not depend on their
order, and so survives `qsort`, which may leave equals in any: an entry that is not
removed is one the scan found (`Genuine`), for each name found one as good is left
(`BestIsLive`), and of the pairs the loops have been through no two of a name are left
(`NoTwins`). Then the best is first (`InOrder`). While a list is made, it holds entries
before the counter in their order (`Written`, `Making1`, `Making2`), and the entries
passed over had no room at the time, so none at the end (`Exhausted`). The set of
indices agrees with the first list from its first turn to the end of the second
(`Waiting`).

**Calendar.** The loop that finds the year takes 365 or 366 days off at a time; what it
has taken off on reaching a year is `TakenOff`, which in a leap year is a day more than
the year begins with, since the day is taken off when the year is entered and not when it
is left. That is kept by each pass (`NextYear`), and there are enough of them for the
rest to fit a year (`YearFound`, by induction over the passes). The real calendar gives
every day one year and one month (`YearIsOne`, `MonthIsOne`), so it is enough to show
that the date found is one it may have. It is, in a leap year from March on: the day
taken off too early is 29 February. What is left over, a rest of less than seven hours
or of a day more than the year has, is what `LeapSpring` and `NewYear` name. The way back
(`TIME_dt2posix`) counts days with the same formula as `TakenOff`, which is why it errs by
a day exactly until February is over.

**Codec.** The invariant (`CodecInv`, `ReadSoFar`) says in each of the reader's three
states what is still on the connection: the whole packet (`OnWire`); the digits of some
number and the body, where that number times the multiplier and what was read so far
make up the length (`DigitsLeft`, kept by `SumOfDigits`); or the rest of the body, while
the buffer holds the header, the length written anew, and what came before. When nothing
is left, the buffer is what was sent, and the rest is about one sequence of bytes:
`BodyFound` finds the end of the digits, as all but the last have the continuation bit,
and `PacketRead` shows, one type after the other, that the deserializer undoes the
serializer. For a `CONNECT` that is `FlagsRead`, the seven fields associated to the right
(`Assoc7`), and which pairs of options are refused (`BadPair`); for the lists of filters
an induction over the passes of the loop (`FiltersRead`). `LengthAsked` compares
`MQTTPacket_len` with the number of digits at each power of the base: never less than what is
written, one more at most. The recursive functions are unfolded by `EncodeIs`, `JoinedIs`
and `FiltersAre`: a function that satisfies the equation exists, by induction on its
domain, and any two agree.

**Storage.** `VolumeConsistent` speaks of the card between calls; the reasons for it are
in memory. A dirty window holds a sector that the card has not got yet, so what a call
works on is the card with the window written back (`Effective`), and what a loss of power
leaves is any content the card had within the call (`cards`). The invariant has three
layers.

* `Layout(D, R, C)` says that `D` is a volume with `R` for the chain of its root directory
  and `C` for the chains of the two files: the chains end, have no cluster twice and share
  none; of the slots of the directory, in the order they are searched, none is taken
  behind a free one, and each file has one at most, which names the first cluster of its
  chain and no more units than it holds. What is weaker than one would think: a file's
  chain may be on the volume before its entry names it, and be longer than its size.
* `Held(m, R, C)` says that `Effective` of the machine has that layout, that the window
  agrees with the card when it is clean and lies on the FAT or the directory when it is
  dirty, and that every content of the card in this call is a volume, with some chains of
  its own: those before the window was written, say.
* `Good(m, R, C)` adds, as long as the volume is mounted, that every open file is one of
  it (`FileOk`): its entry is where it remembers it, its first cluster and size fit its
  chain, its current cluster is in that chain at or beyond the offset, and its buffer,
  when dirty or in use, belongs to a sector of the chain. `GoodMachine` says that there are
  such `R` and `C`, and `StorageInv` that card and memory are those of a good machine.

`Volume_proofs` shows that the volume changes in four ways only, and what each keeps: a
free cluster is marked (`put_fat` with "last link"), a marked one is linked to the end of
a chain, the sector of a cluster of a file is filled, an entry is set. The order in
`create_chain` (mark, then link) is what makes the content of the card a volume between
the two. The lemmas about `move_window`, `get_fat`, `put_fat`, `create_chain`, `dir_next`,
`dir_find` and `dir_alloc` say that the window may move anywhere in between. It ends with
a reader of the card: `Chain` finds the chain that `Layout` speaks of.

`FatFs_proofs` goes through the calls, the loops by induction over their passes. The
library's induction theorems take an operator and cannot be used; `Induction` states it
of a set of numbers, and follows from the well-foundedness of `<`. In a seek and a write
the invariant of the passes is about the offset within the chain (`FileOk`), and for a
full card, a refused command and the error that stays with the file (`ABORT`) it must hold
as well. `f_close` after a failed `f_append`, a file that is written through an object
whose mount is over (`validate`), and the card that refuses everything until the next boot
are cases of it.

`StorageConsistent` needs no `Alone`: what goes wrong when LOG and `SD_DateFileAppend`
interleave is that points are lost, never that the volume breaks, because a mount makes
every open file object invalid before anything else is written, and the two files'
objects are kept apart.

Model-checked only, on the instances above:

* the liveness properties (`BrokenLinkNoticed`, `RebootObeyed`, `ProfilesAreTried`,
  `SpinEnds`, `LockIsGranted`), which rest on fairness;
* `SpaceAccounted`, `HeaderFirst`, `PointStored` and `FileIsAppendOnly`: they speak of
  the contents of a file and of the count of free clusters, of which the invariant above
  says nothing. They need a second one, with the units of each file in it; the lemmas
  about chains and windows would serve it as they are.

## 5. Not modelled

Time is not counted: a timer may run out whenever the code could be waiting on it. So
rates and durations (a connection attempt every 100 ms after a refused `CONNACK`) are
hazards without a property, and `NodeTasks` orders sleeps and turns only as far as
`TimePasses` does. That `cc3200_write` may wait for its socket for ever is a hazard
without a property too: the model takes the calls of the network processor to return.

The parts of a component that are left out are named in `PROJECT.json`, "components".
The larger ones:

* What is never called: unsubscribing, disconnecting and QoS 2 in the MQTT client;
  `HTTP_PostMethod` and the JSON parser; `Wlan_ConnectTest`, `Wlan_ConnectToNetwork` and
  `smartconfig.c`; `vMICS_Preheat`, `vFileDownload`, `WTF`; renaming, deleting and
  formatting in `ff.c`; `MQTTFormat.c`.
* Input and output without a state: the I2C sensors, the patterns of the LEDs, the pin
  tables, the texts of times and of log lines, the commands `dnl`, `del`, `led`, `mics`
  beyond their replies.
* Values that go one way: the averages themselves, the coordinates (which
  `vDataGatherTask` may read half-written), `g_iLastConnectionError`, which only the page
  shows.
* The interior of calls that share the file system object: two tasks interleave between
  calls of `Storage`, not within them, so `storage_shared` shows the least of what can
  happen.
* A scan that fails: its negative result becomes the number of entries, an unsigned
  character.

## 6. Plan

Done: every component in which tasks, interrupts, messages or losses of power meet, with
three abstract specifications, and proofs about thirteen modules. What would come next:

1. `SpaceAccounted` and `FileIsAppendOnly`, from an invariant that has the units of the
   files and the free clusters in it, over the lemmas of `Volume_proofs`.
2. The coordinates in `GpsReceiver`, read by `vDataGatherTask` while they are written.
3. `g_iLastConnectionError` in `NetConfig`.
