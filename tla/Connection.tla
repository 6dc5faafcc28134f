----------------------------- MODULE Connection -----------------------------
(***************************************************************************)
(* The sensor of the device manager with its link, its parser, the log     *)
(* that it writes and the logs that it plays, the links that the settings  *)
(* remember, and the world: ports, hosts, a folder that may be read-only,  *)
(* an application that ends or crashes (src/src/sensor/sensor.cpp,         *)
(* src/src/link/, src/src/settings/settingsmanager.cpp,                    *)
(* src/src/devicemanager/devicemanager.cpp).                               *)
(*                                                                         *)
(* What a device sends comes in halves of messages, since a connection may *)
(* begin and end in the middle of one.                                     *)
(***************************************************************************)
EXTENDS Naturals, Sequences, SequencesExt, FiniteSets

CONSTANTS Configurations, \* what the user may connect with
          LogNames,       \* the names of the logs, which carry their times
          Subnet,         \* the hosts in a subnet of this computer
          MaxConnects,    \* bound: connections in a behaviour
          MaxHalves,      \* bound: what devices send in a behaviour
          MaxChanges      \* bound: changes of the world in a behaviour

DeviceTypes == {"UNKNOWN", "PING1D", "PING360"}
LinkTypes == {"None", "File", "Serial", "Udp", "Ping1DSimulation", "Ping360Simulation"}

ConnectionAssumption ==
    /\ Configurations \subseteq
          [type : LinkTypes \ {"File"}, args : Seq(STRING), device : DeviceTypes]
    /\ LogNames \in Seq(STRING) /\ Len(LogNames) >= MaxConnects
    /\ \A i, j \in DOMAIN LogNames : LogNames[i] = LogNames[j] => i = j
    /\ {MaxConnects, MaxHalves, MaxChanges} \subseteq Nat
ASSUME ConnectionAssumption

VARIABLES
    running,    \* the application
    device,     \* the type of the sensor; "UNKNOWN" before the first
    connected,  \* what the interface shows, _connected
    conf, open, wired,     \* the link: is it open, does its socket reach the host
    buffer,     \* what the parser holds: nothing or the first half of a message
    log,        \* the file of _linkOut; 0 before the first
    recording,  \* newData of the link reaches the log
    old,        \* the log was opened more than a day ago
    position,   \* how much of the played log has been sent
    flashing,   \* a flash has closed the link and will connect again
    seen,       \* history: messages parsed on this connection
    files,      \* the log files
    present, writable,     \* the world
    last, saved,           \* lastLinkConfigurations, in memory and on disk
    used, hurried,         \* history
    connects, halves, changes  \* bound

link == <<conf, open, wired>>
logging == <<log, recording, old>>
parsing == <<buffer, seen>>
sensor == <<device, connected, link, parsing, logging, position, flashing>>
settings == <<last, saved, used>>
world == <<present, writable>>
bounds == <<connects, halves, changes>>
vars == <<running, sensor, files, world, settings, hurried, bounds>>

-----------------------------------------------------------------------------
(* Configurations.                                                         *)

IsSimulation(c) == c.type \in {"Ping1DSimulation", "Ping360Simulation"}

\* error() <= NoErrors; a missing name is only a warning.
IsValid(c) ==
    /\ c.type \in LinkTypes \ {"None"}
    /\ \/ IsSimulation(c) /\ c.args = <<>>
       \/ /\ Len(c.args) = 2
          /\ \A i \in 1..2 : c.args[i] # ""
          /\ c.type = "Udp" => c.args[1] \in Subnet

SameLink(c, d) == c.type = d.type /\ c.args = d.args

NoLink == [type |-> "None", args |-> <<>>, device |-> "UNKNOWN"]

FileOf(c) == CHOOSE f \in DOMAIN LogNames : LogNames[f] = c.args[1]

Places == {c.args[1] : c \in {d \in Configurations : d.type \in {"Serial", "Udp"}
                                                      /\ IsValid(d)}}

-----------------------------------------------------------------------------
(* Log files.  A file is created with its header when the first data comes;*)
(* what is written reaches the disk when the buffer is full or the file is *)
(* closed.                                                                 *)

NewFile(d) == [device |-> d, header |-> FALSE, packs |-> <<>>, disk |-> 0,
               seen |-> 0, whole |-> TRUE]

\* logSensorStruct::isValid(), of what is on the disk.
HasHeader(file) == file.header /\ file.disk > 0

\* A log without a valid header is closed again.
FileOpens(file) == HasHeader(file)

WithHeader(file) == [file EXCEPT !.header = TRUE]

Flushed(file) == [file EXCEPT !.disk = Len(file.packs)]

Closed(fs, f) == IF f = 0 THEN fs ELSE [fs EXCEPT ![f] = Flushed(@)]

-----------------------------------------------------------------------------
(* The parser: a half that does not follow its other half is lost, and a   *)
(* first half swallows what comes in place of the second.                  *)

Holds(held, half) == IF held = "empty" /\ half = "head" THEN "head" ELSE "empty"

Counts(held, n, half) == IF held = "head" /\ half = "tail" THEN n + 1 ELSE n

ParseBuffer(half) ==
    /\ buffer' = Holds(buffer, half)
    /\ seen' = Counts(buffer, seen, half)

\* Mutant: the parser is left as it was.
ClearBufferNot == UNCHANGED buffer

ClearBuffer == buffer' = "empty"

-----------------------------------------------------------------------------
Init ==
    /\ running = TRUE
    /\ device = "UNKNOWN" /\ connected = FALSE
    /\ conf = NoLink /\ open = TRUE /\ wired = FALSE
    /\ buffer = "empty" /\ seen = 0 /\ position = 0 /\ flashing = FALSE
    /\ log = 0 /\ recording = FALSE /\ old = FALSE
    /\ files = <<>>
    /\ present \in {{}, Places} /\ writable = TRUE
    /\ last = <<>> /\ saved = <<>> /\ used = {} /\ hurried = FALSE
    /\ connects = 0 /\ halves = 0 /\ changes = 0

\* The port exists, the host is reached.
There(c) == c.type \in {"Serial", "Udp"} /\ \E p \in present : p = c.args[1]

SerialOpens(c) == There(c)
UdpConnects(c) == There(c)

\* Whether the link of this configuration is open after startConnection().
\* open() of a UDP socket succeeds whatever its state.
Opens(c, fs) ==
    /\ c.type = "Serial" => SerialOpens(c)
    /\ c.type = "File" => FileOpens(fs[FileOf(c)])

\* isOpen() of a log to be written: its folder can be written to, or its file
\* has been made and is readable.
LogIsOpen(file) == writable \/ file.header

\* connectLinkLog(): a log that cannot be written to stays and is not used.
ConnectLinkLog(d, fs, oldLog) ==
    IF oldLog # 0 /\ ~LogIsOpen(fs[oldLog])
      THEN files' = fs /\ log' = oldLog /\ recording' = FALSE /\ UNCHANGED old
      ELSE /\ files' = Append(Closed(fs, oldLog), NewFile(d))
           /\ log' = Len(files')
           /\ recording' = LogIsOpen(NewFile(d))
           /\ old' = FALSE

\* Sensor::connectLink() of a sensor of type d whose last log is oldLog.
SensorConnectLink(c, d, fs, oldLog) ==
    /\ conf' = c
    /\ open' = Opens(c, fs)
    /\ wired' = (c.type \notin {"Serial", "Udp"} \/ UdpConnects(c))
    /\ connected' = Opens(c, fs)
    /\ position' = 0 /\ seen' = 0
    /\ IF ~Opens(c, fs)
         THEN /\ files' = fs /\ log' = oldLog /\ recording' = FALSE
              /\ UNCHANGED <<old, buffer>>
         ELSE /\ ClearBuffer
              /\ IF c.type = "File"
                   THEN files' = fs /\ log' = oldLog /\ recording' = FALSE /\ UNCHANGED old
                   ELSE ConnectLinkLog(d, fs, oldLog)

\* A new sensor in place of the old one, whose log is closed with it.  An
\* invalid configuration leaves it without a link.
NewSensor(c, d) ==
    LET fs == Closed(files, log)
    IN  /\ device' = d
        /\ flashing' = FALSE
        /\ IF IsValid(c)
             THEN SensorConnectLink(c, d, fs, 0)
             ELSE /\ conf' = NoLink /\ open' = TRUE /\ wired' = FALSE
                  /\ connected' = FALSE
                  /\ buffer' = "empty" /\ seen' = 0 /\ position' = 0
                  /\ files' = fs /\ log' = 0 /\ recording' = FALSE /\ UNCHANGED old

Connecting == running /\ connects < MaxConnects /\ connects' = connects + 1

\* The sensor that DeviceManager::connectLink() creates.
SensorOf(type) == IF type = "PING1D" THEN "PING1D" ELSE "PING360"

\* The link is appended to the list, to be tried by later detections.
ConnectLinkDirectly(c) ==
    /\ Connecting
    /\ c.device # "UNKNOWN"
    /\ last' = IF IsSimulation(c) THEN last ELSE Append(last, c)
    /\ used' = IF IsSimulation(c) THEN used ELSE used \cup {c}
    /\ NewSensor(c, SensorOf(c.device))
    /\ hurried' = FALSE
    /\ UNCHANGED <<running, saved, world, halves, changes>>

PlayAs(f, type) ==
    /\ Connecting
    /\ files[f].header
    /\ NewSensor([type |-> "File", args |-> <<LogNames[f], "r">>, device |-> type],
                 SensorOf(type))
    /\ hurried' = ~HasHeader(files[f])
    /\ UNCHANGED <<running, world, settings, halves, changes>>

\* Mutant: the type in the header is not looked at.
PlayLogFileUntyped(f) == PlayAs(f, "UNKNOWN")

\* The header is read before the sensor that may be writing it is destroyed.
PlayLogFile(f) ==
    PlayAs(f, IF HasHeader(files[f]) THEN files[f].device ELSE "UNKNOWN")

\* flash() of the sensor closes a serial link and connects again at the end.
FlashCloses ==
    /\ running /\ conf.type = "Serial" /\ open /\ ~flashing
    /\ open' = FALSE /\ flashing' = TRUE
    /\ UNCHANGED <<running, device, connected, conf, wired, parsing, logging,
                   position, files, world, settings, hurried, bounds>>

ConnectAgain ==
    /\ Connecting /\ flashing
    /\ SensorConnectLink(conf, device, files, log)
    /\ flashing' = FALSE
    /\ UNCHANGED <<running, device, world, settings, hurried, halves, changes>>

\* An error of the serial port closes it; nobody is told.
PortError ==
    /\ running /\ conf.type = "Serial" /\ open
    /\ ~There(conf)
    /\ open' = FALSE
    /\ UNCHANGED <<running, device, connected, conf, wired, parsing, logging,
                   position, flashing, files, world, settings, hurried, bounds>>

\* UDPLink::_stateTimer
StateTimeout ==
    /\ running /\ conf.type = "Udp" /\ ~wired
    /\ There(conf)
    /\ wired' = TRUE
    /\ UNCHANGED <<running, device, connected, conf, open, parsing, logging,
                   position, flashing, files, world, settings, hurried, bounds>>

-----------------------------------------------------------------------------
\* FileLink::writeData().  The time of day of a log that is older than a day
\* is invalid and empty, which ends the log for its readers.
Longer(file, half) ==
    [WithHeader(file) EXCEPT !.packs = Append(@, [half |-> half, dated |-> ~old]),
                             !.seen = IF old THEN @ ELSE seen']

Written(half) ==
    IF ~recording THEN files
    ELSE IF ~writable THEN [files EXCEPT ![log].whole = FALSE]
    ELSE [files EXCEPT ![log] = Longer(@, half)]

Receive ==
    /\ running /\ open /\ wired /\ conf.type # "File"
    /\ IsSimulation(conf) \/ There(conf)
    /\ halves < MaxHalves /\ halves' = halves + 1
    /\ \E half \in {"head", "tail"} : ParseBuffer(half) /\ files' = Written(half)
    /\ UNCHANGED <<running, device, connected, link, logging, position, flashing,
                   world, settings, hurried, connects, changes>>

\* The packages of a log, as processFile() has read them.
Playable(file) ==
    IF \E i \in 1..file.disk : ~file.packs[i].dated
      THEN (CHOOSE i \in 1..file.disk :
              ~file.packs[i].dated /\ \A j \in 1..(i - 1) : file.packs[j].dated) - 1
      ELSE file.disk

Played == files[FileOf(conf)]

Play ==
    /\ running /\ open /\ conf.type = "File"
    /\ position < Playable(Played)
    /\ position' = position + 1
    /\ ParseBuffer(Played.packs[position + 1].half)
    /\ UNCHANGED <<running, device, connected, link, logging, flashing, files,
                   world, settings, hurried, bounds>>

Flush ==
    /\ running /\ log # 0 /\ files[log].disk < Len(files[log].packs)
    /\ files' = [files EXCEPT ![log] = Flushed(@)]
    /\ UNCHANGED <<running, sensor, world, settings, hurried, bounds>>

DayPasses ==
    /\ running /\ recording /\ ~old
    /\ old' = TRUE
    /\ UNCHANGED <<running, device, connected, link, parsing, log, recording,
                   position, flashing, files, world, settings, hurried, bounds>>

-----------------------------------------------------------------------------
(* The settings and the life of the application.                           *)

\* Mutant: links of one type are taken for equal.
SavedByType(cs) ==
    FoldLeft(LAMBDA kept, c : IF kept # <<>> /\ Last(kept).type = c.type
                                THEN kept ELSE Append(kept, c), <<>>, cs)

\* saveLinkConfigurations(): std::unique() drops what equals the one before.
Saved(cs) ==
    LET kept[i \in 0..Len(cs)] ==
          IF i = 0 THEN <<>>
          ELSE IF kept[i - 1] # <<>> /\ SameLink(Last(kept[i - 1]), cs[i])
            THEN kept[i - 1]
          ELSE Append(kept[i - 1], cs[i])
    IN  kept[Len(cs)]

\* Without a sensor, as at the start.
NoSensor ==
    /\ device' = "UNKNOWN" /\ connected' = FALSE
    /\ conf' = NoLink /\ open' = TRUE /\ wired' = FALSE
    /\ buffer' = "empty" /\ seen' = 0 /\ position' = 0 /\ flashing' = FALSE
    /\ log' = 0 /\ recording' = FALSE /\ old' = FALSE

Exit ==
    /\ running /\ running' = FALSE
    /\ saved' = Saved(last) /\ last' = <<>>
    /\ files' = [f \in DOMAIN files |-> Flushed(files[f])]
    /\ NoSensor
    /\ UNCHANGED <<world, used, hurried, bounds>>

\* What was not written is lost, with it the header of a new log.
Cut(file) == [file EXCEPT !.packs = SubSeq(@, 1, file.disk),
                          !.header = @ /\ file.disk > 0,
                          !.whole = @ /\ file.disk = Len(file.packs)]

Crash ==
    /\ running /\ running' = FALSE
    /\ last' = <<>> /\ used' = ToSet(saved)
    /\ files' = [f \in DOMAIN files |-> Cut(files[f])]
    /\ NoSensor
    /\ UNCHANGED <<world, saved, hurried, bounds>>

\* loadLinkConfigurations()
Restart ==
    /\ ~running /\ running' = TRUE
    /\ last' = saved
    /\ UNCHANGED <<sensor, files, world, saved, used, hurried, bounds>>

ChangeOfWorld ==
    /\ running /\ changes < MaxChanges /\ changes' = changes + 1
    /\ \/ \E p \in Places : present' = (IF p \in present THEN present \ {p}
                                                          ELSE present \cup {p})
          /\ UNCHANGED writable
       \/ writable' = ~writable /\ UNCHANGED present
    /\ UNCHANGED <<running, sensor, files, settings, hurried, connects, halves>>

User == \/ \E c \in Configurations : ConnectLinkDirectly(c)
        \/ \E f \in DOMAIN files : PlayLogFile(f)
        \/ FlashCloses
        \/ Exit

Next ==
    \/ User
    \/ ConnectAgain \/ PortError \/ StateTimeout
    \/ Receive \/ Play \/ Flush \/ DayPasses
    \/ Crash \/ Restart \/ ChangeOfWorld

Spec == Init /\ [][Next]_vars

-----------------------------------------------------------------------------
TypeOK ==
    /\ {running, connected, open, wired, recording, old, flashing, writable, hurried}
         \subseteq BOOLEAN
    /\ device \in DeviceTypes
    /\ conf.type \in LinkTypes
    /\ buffer \in {"empty", "head"} /\ seen \in Nat /\ position \in Nat
    /\ log \in 0..Len(files)
    /\ \A f \in DOMAIN files : files[f].disk <= Len(files[f].packs)
    /\ present \subseteq Places

LinksRemembered ==
    running => \A c \in used : \E i \in DOMAIN last : SameLink(last[i], c)

\* Whoever has used a link and not crashed finds it again after a restart; and
\* a log that is written is the last of the files, of the sensor in use.
Inv ==
    /\ TypeOK
    /\ LinksRemembered
    /\ recording => connected /\ log = Len(files) /\ files[log].device = device

\* A log that was written without a gap shows, when it is played to its end,
\* as many messages as were seen when it was recorded, up to the end of its
\* first day, although connections begin and end in the middle of messages.
ReplayShowsWhatWasSeen ==
    /\ conf.type = "File" /\ open
    /\ Played.whole /\ position = Playable(Played)
    => seen = Played.seen

\* A log is played by a sensor of the type that recorded it, unless its header
\* was not on the disk yet when the user chose it.
PlayedByItsSensor ==
    conf.type = "File" /\ open /\ ~hurried => device = Played.device
=============================================================================
