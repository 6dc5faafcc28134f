# Ping Viewer in TLA+

TLA+ models of [Ping Viewer](../src), the application for Blue Robotics' Ping1D
and Ping360 sonars, with TLC configurations that check them on small instances
and TLAPS proofs of the invariants that matter most. Paths below are relative to
the root of the repository.

    tlc -workers 2 -config BaudDetection.cfg BaudDetection.tla
    tlapm ConnectionProofs.tla

`PROJECT.json` lists components, runs, mutants (a plausible bug in the modelled
code for every property, with which the run fails), the source lines behind
every definition, findings, hazards and theorems.

## 1. The system

Ping Viewer is a Qt program. Almost everything runs on the thread of the user
interface, driven by signals, timers and sockets. Three threads exist beside it:
the device detector, the firmware flasher and the playback of a log.

| Component | State | Operations | Hard because of |
|---|---|---|---|
| Bootloader packet parser (`src/src/flash/ping360bootloaderpacket.*`) | state of the switch, buffer, length | one byte, reset | noise, truncation, a full buffer |
| Ping360 flash (`src/src/flash/ping360flash*`, `flasher.*`) | position in a 250 command dialogue, state and message of the interface | start, each command and its reply, queued signals | loss, retries, unplugging, two threads |
| Baud rate detection (`src/src/sensor/ping360.cpp:193-244, 711-830`) | counters that are static variables, timer, rate of the port | start, trigger, reply, timeout | late replies, counters that drift apart, restarts |
| Sector scan (`ping360.cpp:275-305`, `ping360.h:51-77`) | head, sector, speed, direction | request, reply, timeout, change | modular arithmetic, edges, retries |
| Ping360 session (`src/src/sensor/ping360.cpp`) | two timers, settings, retry counter | messages, timeouts, changes of settings | loss, answers later than their timer, a stream that must be noticed to be outdated |
| Device discovery (`src/src/devicemanager`, `src/src/sensor/protocoldetector.*`, `ping360helperservice.*`) | stop flag, thread, list of devices, open sensor | scan, report, connect, start, stop | thread, flag without lock, late reports, exclusive ports |
| Log playback (`src/src/link/processlog.*`, `filelink.*`) | index, play, stop, sleep: atomics | thread steps, seek, pause, start, close | interleaving without a lock |
| Ping360 view (`ping360.h:87-484`, `src/src/waterfall/polarplot.*`) | range, speed of sound, points, period, pulse; image and its scale | change, reset, NACK, draw | values derived from each other in integers, profiles of old settings |
| Sensor connection, links, recent links (`src/src/sensor/sensor.*`, `src/src/link`, `src/src/settings/settingsmanager.cpp`) | input link, log link, parser, log files, list of links | connect, play, flash, lose, exit, restart | half messages, unflushed files, crashes, links that close without a word |
| Ping1D (`src/src/sensor/ping.*`) | configuration heard, wanted and stored | messages, restore, reset, flash, reconnect | restoring what an update erased, lost messages |
| Hex files (`src/src/flash/pic-hex.*`, `hexvalidator.*`) | program memory | load | records at page edges |
| Notifications, logger (`src/src/notification`, `src/src/logger`) | models | add, filter | - |
| Waterfall (`src/src/waterfall/waterfallplot.*`, `ringvector.h`) | ring of samples, scrolling image, scale | draw, redraw, clear | wrap-around, two scales side by side |
| Network, Mavlink, styles, command line | - | - | input and output |

How they interact: discovery reports link configurations; connecting creates a
`Ping` or `Ping360` with a `Link`; a `Ping360` on a serial port runs the baud
rate detection, then the session; `flash()` of a session ends its timers, closes
the link and starts the flash worker on the same port, whose state changes bring
the session back; a log is played through a `FileLink` as if it were a device.

What makes each component correct is what its module's properties say
(section 3). Everything that is hard to test is in the hazard list of
`PROJECT.json`, each at its line, with the properties that guard against it.

## 2. Modules

| Module | Models | Notes |
|---|---|---|
| `BootloaderParser` | the packet parser, byte by byte | `MCBootloaderParser` gives TLC a small alphabet; proofs in the second part of `FlashWorkerProofs` |
| `FirmwareUpdate` | what flashing promises | abstract specification |
| `FlashWorker` | `Ping360FlashWorker::run`, `Ping360Flasher`, cable, bootloader | implements `FirmwareUpdate`; `FlashWorkerProofs` |
| `BaudDetection` | the search for the fastest rate | `BaudDetectionProofs` |
| `SectorScan` | the next angle of a request | has no run of its own |
| `Ping360View` | range settings and polar plot of a Ping360 | composed with `SectorScan`, whose actions it extends; `Ping360ViewProofs` is about both |
| `Ping360Session` | timers and messages of a session | `MCPing360Session` chooses links and firmware; `Ping360SessionProofs` |
| `Ping1D` | the configuration of a Ping1D, stored and restored | with the stm32flash process and the device; `Ping1DProofs` |
| `Connection` | sensor, links, logs and the list of links | `MCConnection` holds what is connected with; `ConnectionProofs` |
| `Waterfall` | the ring and the image of the waterfall | `MCWaterfall` holds the samples; `WaterfallProofs` |
| `Discovery` | device manager, detector thread, helper service | `DiscoveryProofs` |
| `Playback` | `ProcessLog::run()` against the interface | `MCPlayback` holds a log; proofs in the last part of `ConnectionProofs` |

State and actions carry the names of the code. `_play` is `play`, the function
`checkBaudrateProcess()` is `CheckBaudrateProcess`. A handler is one action; only
where another thread can come between two statements is it split, and then at
every access to shared state (`Playback`, `Discovery`, the worker of
`FlashWorker`). Variables marked `history` record what happened and are never
read by the model's guards; those marked `bound` count the environment's moves.

### The parser

`rx` is the written part of `rxBuffer`, so `Len(rx)` is `rxTail`. Each branch of
the switch in `packet_parse_byte()` is an operator (`ReadId`, `ReadData`, ...).
The checksum is a parameter: no property depends on it.

### The flash

`pc` names the command at which `run()` is; `waiting` is set inside
`bl_wait_packet()`. A step sends a command, consumes one parsed packet (or parse
error), or times out. The bootloader is not in the repository; it is modelled by
what the worker expects of it, and marked external: it answers in order, and
starts the application when page 0 is not erased. Queued signals reach the
interface later, one at a time. The configuration `Verify = TRUE` is the default
of the user interface.

### Baud rates, sector, session

The three share `ping360.cpp` and are separate because they answer separate
questions: which rate is chosen, which angle is asked for and what is shown of
it, and whether profiles keep coming. `Ping360Session` abstracts the detection to a
number of triggers, and settings to model values of which some are refused by the
device (NACK).

After a profile of legacy firmware the timer runs for a little more than 200 ms
(`ping360.cpp:387`), while the sensor can take four seconds to answer
(`ping360.h:722`). So in both models a timer can expire before the answer. On a serial
port the session then reopens the port and what is late is lost; over UDP it still
arrives, and `early` counts these timeouts. In `SectorScan` the requests that are not
answered yet are the sequence `requests`: a timeout appends one, an answer or a loss
takes the oldest away.

### The view of a Ping360

`Ping360View` extends `SectorScan`: a step of the scan (`DeviceData`,
`ProfileTimeout`, `SetSectorSize`, ...) is conjoined with what the same handler
does to settings and plot. Each element of `requests` holds what its profile will be
measured with; `old` counts the profiles that were drawn with other settings since the
plot was cleared, `late` the requests that were on the way at that moment. The number
of points that a loop of the code arrives at is given as the closed form
`Min({n, MostPoints(d, c)})`: the largest number for which the period is one the
firmware can do; the code counts down to it one by one. A behaviour begins either with
a device or with a log that is played. The profiles of a log come at the angles of its
record (`LogAngles`), to which they move the head (`RecordedData`, `ShowRecord`), and
were measured with the range `recorded`; no request reaches anything. That the head of
a log stays in the viewer's sector or covers it is therefore not claimed.

### The Ping1D

`class` is what the sensor last heard of each entry of its table, `conf` what it
wants and `saved` what the settings hold for the id of the device. Values are
four: what a fresh object holds (0), the default of the table, another valid
value, an invalid one; this is what the code tells apart. Entries are polled every
second, and a restore sends every entry that differs every 500 ms. An entry whose
value is 0 cannot be told from one that was never reported. `flash()` is a chain of
two timers and the stm32flash process, each a step. `before` remembers the
configuration at the start of a flash, `excuse` what has happened since that a
property must allow for: a message was lost, the automatic mode has changed the
range, the device was restarted, or its bootloader, which knows no requests, got one.

### Connections

`SensorConnectLink` is the whole of `Sensor::connectLink()` with its early
returns, in the order of the code: closing, validity, a new link, opening, the
parser, the log. Messages come in halves, since connections begin and end in the
middle of one. A file keeps what was written and how much of it is on the disk. A
crash loses what was not flushed and the list of links.

### The waterfall

A column of `image` is the number of the sample it shows and the rows it takes.
Depths are in millimetres, as a Ping1D reports them, and every product of a depth and
a scale is truncated to rows (`Pixels`). Where such a product is whole, the `float` of
the code can be a little less: then either row is a possible outcome. A redraw copies
rows as Qt does, each row drawn being the one its middle falls in: `Up` into 40000 rows,
`Down` into 306, which is 306.25 truncated by `QRect`. `ring` and `ringIndex` are `RingVector`. `dynamic` is the static variable of
`draw()`; `Stretched` is what the redraw at another scale does to a column. `shown`
is the history of the samples drawn since `clear()`.

### Discovery

The thread is *stopped*, *starting* (the thread exists, `doScan()` has not set
`_active`), *scanning*, *resting* (before the condition of its loop), or *ending*
(the loop has ended, the event loop has not). `active` is the shared flag. A
serial port can be opened once; the detector holds it in `probing`.

### Playback

Every access to an atomic variable is a step of its own; `gui` remembers which
store of a call comes next. The warning of a time that goes back reads the log twice
more, at the index before and at the index (`WarnPrevious`, `WarnCurrent`). `due` is the set of packages that may be read next:
the successor of the last, and after a seek the package sought or its successor.

## 3. Runs

| Run | Question | Result |
|---|---|---|
| `parser` | any bytes, any resets | only whole frames are reported, the buffer does not overflow and fills up only behind an overlong header, no frame is given up early |
| `flash` | loss, noise, retries, power cuts, repeated flashes | the boot code is kept and replies match commands (`IInv`), a device never runs part of a firmware, success is real, every flash is reported, `FirmwareUpdate` is implemented |
| `flash_verify` | worn memory, with verification | fails: a flash finishes although a page differs |
| `baud_detection` | losses, late and garbled replies, restart | the detection ends with the fastest clean rate, in order, and profiles begin |
| `sector_scan` | all sectors, late and lost answers, retries, changes and resets of settings, NACKs, a log | requests stay in the sector, and so does the head of a device, which reaches both edges; the range is the one chosen; the plot has its scale and no more profiles of old settings than were on the way when it was cleared |
| `log_range` | a log recorded at another range | fails: it is drawn at the range of the viewer |
| `session` | both links, both firmwares, losses, late answers, power cycles, rejected settings | never silent, wanted profiles keep coming, over UDP no loop of requests but the first and one for each timeout that came too early; see below for what is excused |
| `ping1d` | connections, losses, automatic range, resets, power cycles, flashes | the configuration survives a flash, what is stored is what the device is set to, restores end |
| `connection` | connections of all kinds, errors, a read-only folder, logs, flashes, exit, crash, restart | a log shows what was seen, played by the sensor that recorded it; used links are remembered |
| `discovery` | scan, stop, start, plug, connect, clear, two detectors | one row per link, rows hidden only by their own detector, a stop takes effect, the list follows the devices |
| `playback` | seek, pause, start, speed, close between any two steps | reads stay in the log but for one of a warning, packages come in order, closing ends, playing ends |
| `waterfall` | samples of all depths, refused ones, clears, wraps, both scales | the columns in view are the last samples in order, each as high as its sample is long to within nine centimetres |

The two runs that fail are disagreements between the code and its own comments;
`PROJECT.json` quotes both sides under `findings`. Each component has one
invariant named `Inv` or `IInv` (`ParserInv` for the parser), which holds its types
and the smaller facts about single states.

Other things the code does not do, met while modelling and noted as hazards
instead of runs of their own: a parser with a full buffer does not recover by
`reset()`; the reason of a failed flash is erased by the change of state that
follows it; over UDP a lost first request is never repeated; the detector may hold
the port that is being opened; a reset of a Ping1D is undone by the next restore,
and a flash right after that reset stores the defaults, since what the restore asks
for reaches the bootloader; a seek to the first package while a warning is composed
makes `ProcessLog::run()` read `_log[-1]` (`processlog.cpp:56`); over UDP each answer of
legacy firmware that is later than the 200 ms of the timer leaves one more request
under way for good.

What is excused in `session`: over UDP the request for the device information has
no timer, and the first profile of an old stream stops the timer
of a new request, so one lost message may silence a UDP session; with streaming
firmware the timer stops with the first profile, so a power cycle of the device
silences any session. `NeverSilent` and `ProfilesFlow` are claimed where neither
has happened. On a serial port all losses are covered.

### Bounds

| Module | Bound | Why it is enough |
|---|---|---|
| `BootloaderParser` | bytes of 2 bits, buffer of 9 | a frame needs 7 bytes: payloads of 0, 1 and 2 bytes fit, longer ones overflow, refused lengths occur; the proofs cover every size |
| `FlashWorker` | 4 pages, 1 protected, 3 tries, 2 parse errors per garbled reply | page 0, the protected, a middle and a last page are all distinct; retries leave up to two late replies; the number of flashes is not bounded |
| `BaudDetection` | 4 rates, 4 messages per rate, 1 parse error, 2 starts | first, middle and lowest rate; a restart in the middle of any test |
| `Ping360View` (with `SectorScan`) | a circle of 12 instead of 400 grads, sectors 5 and 12, speeds 1 and 4, 3 requests on the way, 2 changes, ranges 1 and 60, speeds of sound 1450, 1507, 1550, durations 5 and 500, a log of 10 m at 3 angles | angles only wrap and compare, and a sector, the full circle, a step that stays in the sector and one that leaves it on both sides are all there; one answer can be late behind a request made before and one made after a change; a log has angles inside and outside the sector; the shortest and the longest range are the ones at which points and period meet their limits; any two changes follow each other |
| `Ping1D` | 3 entries (automatic mode, scan start, scan length), 3 calls, of which 1 may be a loss, 1 message on the cable when a timer fires | one entry the restore stops at, one that may be 0 and one that may not; a connection, a flash and a change, reset or loss, in any order; the proofs cover all six entries and any number of calls and losses |
| `Connection` | 3 connections, 2 half messages, 1 change of the world | record, play, and connect again; a whole message, its halves apart or in two connections |
| `Waterfall` | 6 columns, 3 shown | the image wraps again and again, at every place of the ring; the samples make the scale change both ways, are cut and refused, take whole and broken numbers of rows, and start in the middle of one |
| `Ping360Session` | 2 changes, 1 loss, 1 power cycle, 2 early timeouts, cable of 5, 3 triggers | a change during the switch after a change; the retry limit of the code (5) is lowered to 3, which lets it pass more often; three loops of requests over UDP; the bound on the cable drops messages of a serial port only, since over UDP the early timeouts and the stream are bounded themselves |
| `Discovery` | a UDP and a serial link, an Ethernet device, 3 calls, 1 plug, 1 report | start, stop or connect, and start again; a device goes while a report is under way |
| `Playback` | 4 packages, one with an earlier time, 3 calls | the first, the last and the ones between; two seeks and a start around the end of the log; the proofs cover every length and any number of calls |

Deadlock is not checked where the program may come to rest: all calls made, the
flash over, the log closed.

### Fairness

* `FlashWorker`: weak fairness of the worker thread and of the event loop. The
  device owes nothing: every wait of the worker has a timeout.
* `BaudDetection`: weak fairness of the timer and of the delivery of a reply that
  is there. `ProfilesBegin` in addition assumes that the device answers again and
  again.
* `Ping360View`: weak fairness of the timer, and strong fairness of answers: of the
  requests of a device that are repeated for ever, some are answered, also while
  settings change. Nothing is asked of a log or of losses.
* `Ping1D`: strong fairness of both timers. They fire whatever is on the cable:
  `Room`, which holds them back while the cable is full, is a bound of the model.
  Weak fairness of the device and of what it sends, which losses (bounded) take
  away.
* `Connection`, `Waterfall`: none, their properties are invariants and action
  properties.
* `Ping360Session`: weak fairness of the timer of the detection, and of the timer of
  the profiles once nothing can come any more, since every answer starts it again; an
  early timeout is never owed. Strong fairness of the delivery of messages and of the
  device, which losses (bounded) interrupt.
* `Discovery`: weak fairness of both threads, and strong fairness of the answer
  of each device that is asked round after round.
* `Playback`: weak fairness of both threads. Nothing forces the user to close a
  log: `CloseEnds` begins when the call has been made.

## 4. Proofs

Each theorem is about the specification of its module, for every value of the
constants that the module's assumption admits: any sizes, sets and bounds, hence
any number of calls, losses and retries. Each rests on an inductive invariant
that TLC checked first.

| Module | Theorems | State |
|---|---|---|
| `FlashWorkerProofs` | `ParserInvariant`, `ParserTypeOK`, `ParserSound`, `ParserFullOnlyIfOverlong`, `ParserComplete` | all properties of the run `parser` |
| `FlashWorkerProofs` | `CableInvariant`, `FlashInvariant`, `RunsWholeFirmware`, `FinishedIsFlashed`, `FlashKeepsPromise` | all of `flash` but `AlwaysReported` (liveness) |
| `BaudDetectionProofs` | `DetectionInvariant`, `BestRateIsKept` | all invariants of `baud_detection` |
| `Ping360SessionProofs` | `SessionInvariant`, `SessionGoesOn` | all invariants of `session` |
| `Ping360ViewProofs` | `ViewInvariant`, `RangeKept`, `ScaleFollows`, `FewOld`, `AskedAgain` | all of `sector_scan` but `CoversSector` (liveness) |
| `WaterfallProofs` | `WaterfallInvariant`, `ShownInOrder`, `ColumnsToScale` | all of `waterfall` |
| `DiscoveryProofs` | `DiscoveryInvariant`, `HidingIsOwn` | all of `discovery` but the two liveness properties |
| `ConnectionProofs` | `ConnectionInvariant`, `LinksAndLogsKept`, `ReplayIsFaithful`, `LogMeetsItsSensor` | all invariants of `connection` |
| `ConnectionProofs` | `PlaybackInvariant`, `PlaybackReadsInLog`, `PlaybackInOrder` | all invariants of `playback` |
| `Ping1DProofs` | `StoredIsValid`, `StoresWhatIsSet`, `RestoredIsKept` | all of `ping1d` but `RestoreEnds` (liveness) |

So every property of a passing run is a theorem, except the liveness properties.

### The arguments

* **Parser.** That a frame is whole when its last byte arrives depends on what
  every earlier state has stored. `ParserInv` says that each state stands for a
  position in the frame (`Position`) and that the buffer holds the beginning of a
  frame up to that position. `ExtendPrefix` then says which bytes continue it:
  one lemma serves soundness and completeness (`ParserComplete`).
* **Flash.** Replies carry no number, so that `RepliesMatch` says for each point of
  `run()` what may be on the cable: the command just sent or its answer, behind it
  nothing but late device ids from the retries of the first command. It needs
  nothing of the memory (`CableInvariant`). The rest of `IInv` is about the memory:
  what was acknowledged was done (`Progress`), a write still on the cable is the
  one just sent and never makes half a firmware bootable (`WholeOrNone`, `Bootable`),
  and queued signals belong to the last flash (`Reported`). `FlashKeepsPromise` is
  the refinement of `FirmwareUpdate`: a page that is written wipes the firmware,
  installs it, or changes nothing to a power-up.
  These theorems assume `~MayWear`: the bootloader's acknowledgement of a write
  means that the page holds what was written. The program has nothing else to go by, as
  the result of its verification is never read; the run `flash_verify` shows what
  a worn page does (findings).
* **Detection.** Requests and replies drift apart, so what counts is triggers.
  `Counted` says that replies and timeouts under one rate add up to what `count`
  says, and that the first is always the timeout of the request that was on the cable
  when the rate was set. So `lastCounter` is 0 exactly for a rate at which nothing
  went wrong, which makes `FirstWithoutError` right in spite of the drift.
* **Session.** On a serial port a timer runs or the device streams (`SerialInv`). Over
  UDP there may be no timer, and the invariant is that something will come
  (`WillCome`, `UdpInv`): a message that will be answered, and behind each break another
  request. With legacy firmware over UDP the requests and answers on the way are at most
  one more than the early timeouts (`LoopsOverUdp`), which is inductive by itself: every
  other step answers what it takes off the cable with one message at most, a break in
  front of a request not counted.
* **Scan and view.** `RequestStands` says that after a request the same one would be
  made again, from which `AskedAgain` follows although the direction may have turned in
  between. The lemmas about remainders are for any divisor. `RangeKept` bounds what two
  integer divisions lose: the points left by `MostPoints` and the period rounded down
  lose less than half a metre of any range, so that no sequence of changes drifts.
  `DistancesInv` says that every one of the remembered distances is zero or the range.
  For `FewOld`, requests are answered in their order: of those on the way at most
  `late - old`, the oldest, were made before the plot was cleared, and all that follow
  carry the settings of now (`OldInv`).
* **Waterfall.** The samples in view have numbers that follow each other round and
  round (`Before`, `ShownInv`), the column of each is where `paint()` looks, also where the
  tail of the image was just copied to its head, and a sample of the ring is at most as old
  as its column (`Age`, `RingInv`). For the scale the point is that roundings do not add
  up: a column of the dynamic scale that came from a redraw is the enlarged picture of a
  plain one, and making it smaller gives back exactly that one (`Down(Up(y)) = y`), so that
  on the plain scale a column is never more than a row and a half off (`ColumnInv`,
  `NearPlain`), nine centimetres. The rows in view are truncated, too, for which
  `DrawnToScale` allows a row above and two below.
* **Discovery.** A report is a list whose links are appended one by one, by a recursive
  function. That the loop keeps `OneRowPerLink` is an induction over the report; the
  library's induction theorems cannot be used here, so `SetInduction` states it with
  a set of numbers, from the well-foundedness of `<`.
* **Playback.** The index *does* leave the log, for the two steps between the
  increment and the rewind; and an increment after a seek moves on from where the
  user wanted to be. `IInv` says at which steps the first can be (`IndexInv`)
  and which package is due, by whether the thread has already counted the one that it
  is sending (`DueInv`). Only a seek to the first package makes the index 0 between the
  increment and the warning (`FirstInv`): that is the one read outside the log.

* **Connection.** How many messages a log shows depends on every half since its
  beginning. A `Trace` is a pair of functions: what the parser holds and how many
  messages it has counted after each half of a file. Each file has one (`TraceGoesOn`,
  an induction like that of Discovery), and a sensor that records or plays the file
  is where every trace of it is (`InStep`). `Told` relates the number that was seen
  to the trace at the end of the first day, since packages that are written later have
  no valid time and end the log for its readers. For the links, `Covers` says that
  every used link has its like in memory, or on the disk while no application runs;
  dropping repetitions keeps this since likeness is transitive.
* **Ping1D, storing.** `Informed` says of each entry that what the sensor has heard
  last is what the device is set to, or that a request or a report that says so is
  on the way (`Announced`). It needs that every setter asks for what it sets
  (`SetsAreAsked`), and it is here that a request that the bootloader ignores had to be
  excused, which TLC meets only with three calls.
* **Ping1D, flash.** Before the image is written nothing on the way changes the device
  (`Leaving`), so that what is stored is what it was set to (`Stored`). After it,
  the device reports its defaults, the automatic mode first (`Unrecognised`). From then on
  every entry *settles*: once the right value has been heard, no other is in a
  report, in the device or on the way to it (`Settles`, `Restores`). Start and length
  are one message, each with what was heard of the other, so that a half right
  range may follow a wrong one but nothing worse than right a right one: they settle as
  a pair (`RangeSettles`). The restore takes a range never heard for the 0 of a
  device; that it cannot end there is `ProfileComes`, a whole profile is on its way until
  one has been heard.

### Assumptions

Those named in the modules, and what justifies them in the code: a buffer for a frame
without payload (`ParserAssumption`); a page that is not the bootloader's besides page 0
(`FlashAssumption`); two rates at least (`BaudAssumption`); an even resolution
and the full circle among the sectors (`ScanAssumption`); ranges up to 60 m,
speeds of sound of 1450 to 1550 m/s and pulses of 5 to 500 us, all in whole numbers, which
is what the interface offers (`ViewAssumption`); samples with depths in millimetres up to
200 m, longer than nothing, and an image wider than what is shown of it (`WaterfallAssumption`); settings that the device
starts with are accepted (`SessionAssumption`); links that are not Ethernet devices at the
same time (`DiscoveryAssumption`); names of logs that differ, since they carry the time
(`ConnectionAssumption`); entries of the table of `ping.h`, the automatic mode and the range
among them, and natural numbers as bounds (`ConfiguredAssumption`, `BoundAssumption`); a log of at least one package, since the loop reads
before it looks at the size (`PlaybackAssumption`).

### Only model-checked

* Liveness (`AlwaysReported`, `DetectionEnds`, `ProfilesBegin`, `ProfilesFlow`,
  `StopTakesEffect`, `ListFollowsDevices`, `CloseEnds`, `LogEnds`, `RestoreEnds`,
  `CoversSector`): the prover does not handle `ENABLED` and fairness.

## 5. Not modelled

* Painting, QML, styles, the command line, HTTP and the wire format of the ping
  protocol, whose parser is a submodule that is not part of the repository.
* The contents of a hex file: pure functions on its text.
* The latency setting of a serial port and the number of bytes per second; TCP,
  which `link.cpp` refuses to create although its configuration is valid.
* Of the session: message frequencies and the data of a profile; its `flash()`,
  whose two timers outlive the sensor (hazards).
* Of the view: heading, gain and frequency, colours, smoothing, the gradients and
  the mouse; the manual transmit duration, for which the interface has no switch.
  The model divides exactly where the code divides doubles: of all ranges, speeds of
  sound and numbers of points, 204 of 3.6 million combinations give a sample period one
  tick longer in the code, all of them with fewer than 1200 points.
* Of the waterfall: depths that are no whole millimetres, and which rows Qt would choose
  if it did not take the row at the middle of each pixel.
* Of the connections: that a UDP link reaches its host in the end, which says no more
  than that its timer runs.
* Of the Ping1D: its measurements.
* Of discovery: `Connected`, which is only ever set; simulated links in the list;
  the two baud rates tried per port; the destructor, whose wait can last for ever
  if a stop came too early (hazard).
* Of logs: the byte format and the elapsed time.
* Notifications and the logger: lists that only grow.

## 6. State and plan

Parser, flash with its abstract specification, detection, scan and view, session,
discovery, playback, waterfall, Ping1D and connection are modelled and checked, and
all their safety properties are proved.

What would come next: `Ping360Flash`, a composition of session, detection and flash
on one port, for the timers that `flash()` leaves running and the connections that it
adds each time (hazards without a property).
