------------------------------- MODULE Ping1D -------------------------------
(***************************************************************************)
(* The configuration of a Ping1D: what the device is set to, what the      *)
(* viewer believes, what it wants and what it has stored, through          *)
(* connections, changes, a reset and firmware updates (src/src/sensor/     *)
(* ping.cpp, ping.h, pingsensor.cpp, src/src/flash/flasher.cpp).           *)
(*                                                                         *)
(* A value is one of four: 0 is what a fresh or reset sensor holds, 1 the  *)
(* default of the table in ping.h, 2 another valid value, 3 an invalid one.*)
(***************************************************************************)
EXTENDS Integers, Sequences

CONSTANTS Configured,  \* the entries of the table that the model follows
          MaxCalls,    \* bound: what the user does, and is lost, in a behaviour
          MaxLosses,   \* bound: messages lost in a behaviour
          Room         \* bound: messages on the cable when a timer fires

ConfiguredAssumption ==
    /\ {"auto", "length", "start"} \subseteq Configured
    /\ Configured \subseteq {"interval", "speed", "auto", "gain", "length", "start"}
ASSUME ConfiguredAssumption

BoundAssumption == MaxCalls \in Nat /\ MaxLosses \in Nat /\ Room \in Nat
ASSUME BoundAssumption

VARIABLES
    alive,      \* the sensor object exists
    open,       \* its link is open
    polling,    \* _periodicRequestTimer
    restoring,  \* lastPingConfigurationTimer, with a sensor to serve
    srcId,      \* _commonVariables.srcId: 0, or the device's id 1
    lastId,     \* _lastPingConfigurationSrcId: -1 or the id
    class,      \* what the sensor last heard of each entry
    conf,       \* what it wants, _pingConfiguration[key].value
    saved,      \* what the settings hold for this device
    phase,      \* how far flash() is
    flasher,    \* state of the Flasher
    toDevice, toViewer,                  \* the cable, both ways
    dev, mode, streaming,                \* the device
    before, excuse,                      \* history
    calls, losses                        \* bound

viewer == <<alive, open, polling, restoring, srcId, lastId, class, conf,
            saved, phase, flasher>>
device == <<dev, mode, streaming>>
history == <<before, excuse>>
bounds == <<calls, losses>>
vars == <<viewer, toDevice, toViewer, device, history, bounds>>

-----------------------------------------------------------------------------
(* The table _pingConfiguration.                                           *)

Entry(k, K) == IF k \in K THEN <<k>> ELSE <<>>

\* keys() is sorted by the number in front.
Keys(K) == Entry("interval", K) \o Entry("speed", K) \o Entry("auto", K)
             \o Entry("gain", K) \o Entry("length", K) \o Entry("start", K)

Valid(k) == IF k = "auto" THEN {0, 1} ELSE IF k \in {"gain", "start"} THEN {0, 2} ELSE {1, 2}

Default(k) == IF k \in {"gain", "start"} THEN 0 ELSE 1

\* settingsConfiguration::set()
Checked(k, v) == IF v \in Valid(k) THEN v ELSE Default(k)

\* The constants _firmwareDefault...; the speed of sound is 1500 where the
\* table counts millimetres per second and begins at 50000.
FirmwareDefault == [interval |-> 2, speed |-> 3, auto |-> 1, gain |-> 2]

Zero == [k \in Configured |-> 0]
None == [k \in Configured |-> -1]
Values == 0..3

\* The entries that the restore looks at: none after an automatic mode.
Relevant(c) ==
    IF c["auto"] = 1 THEN Configured \cap {"interval", "speed", "auto"} ELSE Configured

-----------------------------------------------------------------------------
(* Messages: entries to set, entries to report, something to do.           *)

Profile == Configured \cap {"gain", "length", "start"}

Nothing == [k \in {} |-> 0]

Ask(K) == [set |-> Nothing, ask |-> K, do |-> "nothing"]
Do(what) == [set |-> Nothing, ask |-> {}, do |-> what]

\* Mutant: a value is sent and not asked for.
SetterSilent(k, v) == [set |-> [j \in {k} |-> v], ask |-> {}, do |-> "nothing"]

\* Every setter sends a value and asks for it; the range goes as one message,
\* with the other half as the sensor last heard it.
Setter(k, v) ==
    LET K == IF k \in {"length", "start"} THEN {"length", "start"} ELSE {k}
    IN  [set |-> [j \in K |-> IF j = k THEN v ELSE class[j]], ask |-> K,
         do |-> "nothing"]

\* The entries of a message, and what is known of the others.
Merged(part, all) == [k \in Configured |-> IF k \in DOMAIN part THEN part[k] ELSE all[k]]

\* writeMessage() writes nothing unless the link is open.
Write(messages) == toDevice' = IF open THEN toDevice \o messages ELSE toDevice

PreConfiguration ==
    <<Ask({"auto"}), Ask(Profile)>>
       \o (IF "speed" \in Configured THEN <<Ask({"speed"})>> ELSE <<>>)

HasRoom == Len(toDevice) + Len(toViewer) <= Room

-----------------------------------------------------------------------------
DeviceBoot == [k \in Configured |-> IF k \in {"interval", "gain"} THEN 2
                                      ELSE Default(k)]

Init ==
    /\ alive = FALSE /\ open = FALSE /\ polling = FALSE /\ restoring = FALSE
    /\ srcId = 0 /\ lastId = -1
    /\ class = Zero /\ conf = Zero
    /\ saved \in {None} \cup {c \in [Configured -> 0..2] :
                                 \A k \in Configured : c[k] \in Valid(k)}
    /\ phase = "none" /\ flasher = "Idle"
    /\ toDevice = <<>> /\ toViewer = <<>>
    /\ dev = DeviceBoot /\ mode = "application" /\ streaming = FALSE
    /\ before = None /\ excuse = {}
    /\ calls = 0 /\ losses = 0

\* A link that opens emits connectionOpen, which starts the pre-configuration.
Opened(opens) ==
    /\ open' = opens
    /\ polling' = opens
    /\ toDevice' = IF opens THEN PreConfiguration ELSE <<>>
    /\ toViewer' = <<>>

\* Mutant: the device counts as configured.
ResetLocalKeepsId == class' = Zero /\ srcId' = 0 /\ lastId' = lastId

\* resetSensorLocalVariables()
ResetLocal ==
    /\ class' = Zero
    /\ srcId' = 0
    /\ lastId' = -1

\* Mutants: a value is stored as it came; what was loaded is stored again.
UpdateUnchecked == conf' = class /\ saved' = IF srcId = 1 THEN conf' ELSE saved
UpdateWanted == conf' = conf /\ saved' = IF srcId = 1 THEN conf ELSE saved

\* updatePingConfigurationSettings(): under the id of the device, if known.
Update ==
    /\ conf' = [k \in Configured |-> Checked(k, class[k])]
    /\ saved' = IF srcId = 1 THEN conf' ELSE saved

Call == calls + losses < MaxCalls /\ calls' = calls + 1

\* A new sensor, connected by the device manager.
Connect ==
    /\ ~alive
    /\ Call
    /\ alive' = TRUE
    /\ \E opens \in BOOLEAN : Opened(opens)
    /\ ResetLocal
    /\ conf' = Zero
    /\ flasher' = "Idle"
    /\ before' = None /\ excuse' = {}
    /\ UNCHANGED <<restoring, saved, phase, device, losses>>

\* The sensor is destroyed.  Its timers and the port go with it.
Close ==
    /\ alive /\ phase = "none"
    /\ Update
    /\ alive' = FALSE /\ open' = FALSE /\ polling' = FALSE /\ restoring' = FALSE
    /\ toViewer' = <<>>
    /\ before' = None
    /\ UNCHANGED <<srcId, lastId, class, phase, flasher, toDevice, device,
                   excuse, bounds>>

\* An error of the port closes it.
Unplug ==
    /\ open
    /\ Call
    /\ open' = FALSE
    /\ toDevice' = <<>> /\ toViewer' = <<>>
    /\ UNCHANGED <<alive, polling, restoring, srcId, lastId, class, conf, saved,
                   phase, flasher, device, history, losses>>

PeriodicTimeout ==
    /\ alive /\ polling
    /\ HasRoom
    /\ IF open THEN Write(<<Ask({"auto"})>>) /\ UNCHANGED polling
               ELSE polling' = FALSE /\ UNCHANGED toDevice
    /\ UNCHANGED <<alive, open, restoring, srcId, lastId, class, conf, saved,
                   phase, flasher, toViewer, device, history, bounds>>

\* loadLastPingConfigurationSettings()
Loaded == [k \in Configured |->
             Checked(k, IF saved = None THEN Default(k) ELSE saved[k])]

\* setLastPingConfiguration(), run by the signal that the id has changed.
SetLastPingConfiguration ==
    /\ lastId' = 1
    /\ IF lastId = 1
         THEN UNCHANGED <<conf, restoring, toDevice>>
         ELSE /\ conf' = Loaded
              /\ restoring' = TRUE
              /\ Write(<<Ask(Profile)>>)

\* Every message names its sender, and a new one is recognised at once.
HandleMessagePrivate ==
    /\ srcId' = 1
    /\ IF srcId # 1 THEN SetLastPingConfiguration
                    ELSE UNCHANGED <<lastId, conf, restoring, toDevice>>

\* Then the values of the message are taken over.
HandleMessage ==
    /\ alive /\ open /\ toViewer # <<>>
    /\ toViewer' = Tail(toViewer)
    /\ HandleMessagePrivate
    /\ class' = Merged(Head(toViewer), class)
    /\ UNCHANGED <<alive, open, polling, saved, phase, flasher, device,
                   history, bounds>>

Differing == Keys({k \in Relevant(conf) : conf[k] # class[k]})

RestoreTimeout ==
    /\ alive /\ restoring
    /\ HasRoom
    /\ IF Differing = <<>>
         THEN restoring' = FALSE /\ Write(<<Do("start")>>)
         ELSE /\ Write([i \in DOMAIN Differing |->
                          Setter(Differing[i], conf[Differing[i]])])
              /\ UNCHANGED restoring
    /\ UNCHANGED <<alive, open, polling, srcId, lastId, class, conf, saved,
                   phase, flasher, toViewer, device, history, bounds>>

-----------------------------------------------------------------------------
(* The user.                                                               *)

\* setPingFrequency() stops the stream, or sets the interval and starts it.
SetPingFrequency(on) ==
    IF ~on THEN <<Do("stop")>>
    ELSE IF "interval" \in Configured
      THEN <<Setter("interval", 2), Do("start")>> ELSE <<Do("start")>>

UserSets ==
    /\ alive /\ open /\ phase = "none"
    /\ Call /\ HasRoom
    /\ \/ \E k \in Configured : \E v \in Valid(k) \ {class[k]} : Write(<<Setter(k, v)>>)
       \/ \E on \in BOOLEAN : Write(SetPingFrequency(on))
    /\ before' = None
    /\ UNCHANGED <<viewer, toViewer, device, excuse, losses>>

ResetSettings ==
    /\ alive /\ phase = "none"
    /\ Call /\ HasRoom
    /\ LET reset == Entry("speed", Configured) \o Entry("auto", Configured)
                      \o Entry("interval", Configured) \o Entry("gain", Configured)
       IN  Write([i \in DOMAIN reset |-> Setter(reset[i], FirmwareDefault[reset[i]])])
    /\ ResetLocal
    /\ before' = None
    /\ UNCHANGED <<alive, open, polling, restoring, conf, saved, phase, flasher,
                   toViewer, device, excuse, losses>>

\* The viewer is at rest: nothing on the way, the configuration in force.
Quiet ==
    /\ alive /\ open /\ ~restoring /\ phase = "none"
    /\ srcId = 1 /\ lastId = 1
    /\ toDevice = <<>> /\ toViewer = <<>>

Flash ==
    /\ alive /\ phase = "none"
    /\ Call
    /\ \E valid \in BOOLEAN :
       IF open /\ valid
         THEN /\ flasher' = "StartingFlash"
              /\ phase' = "closing"
              /\ polling' = FALSE
              /\ Write(<<Do("stop"), Do("bootloader")>>)
              /\ before' = IF Quiet /\ excuse = {} THEN dev ELSE None
         ELSE /\ flasher' = "Error"
              /\ before' = None
              /\ UNCHANGED <<phase, polling, toDevice>>
    /\ UNCHANGED <<alive, open, restoring, srcId, lastId, class, conf, saved,
                   toViewer, device, excuse, losses>>

\* finishConnection of flash(): one second later.
FinishConnection ==
    /\ phase = "closing"
    /\ phase' = "closed"
    /\ open' = FALSE
    /\ toViewer' = <<>>
    /\ Update
    /\ UNCHANGED <<alive, polling, restoring, srcId, lastId, class, flasher,
                   toDevice, device, history, bounds>>

\* Flasher::flash(), one second later: without stm32flash or the file it fails.
StartProcess ==
    /\ phase = "closed"
    /\ \/ phase' = "process" /\ UNCHANGED flasher
       \/ phase' = "none" /\ flasher' = "Error"
    /\ UNCHANGED <<alive, open, polling, restoring, srcId, lastId, class, conf,
                   saved, toDevice, toViewer, device, history, bounds>>

\* stm32flash writes a line that holds one of the error words.
ProcessPrintsError ==
    /\ phase = "process" /\ flasher # "Error"
    /\ flasher' = "Error"
    /\ UNCHANGED <<alive, open, polling, restoring, srcId, lastId, class, conf,
                   saved, phase, toDevice, toViewer, device, history, bounds>>

\* It ends before the firmware is complete, with or without an explanation.
ProcessEnds ==
    /\ phase = "process"
    /\ phase' = "none"
    /\ UNCHANGED <<alive, open, polling, restoring, srcId, lastId, class, conf,
                   saved, flasher, toDevice, toViewer, device, history, bounds>>

\* The sensor forgets the device and connects again.
ConnectAgain == ResetLocal /\ \E opens \in BOOLEAN : Opened(opens)

\* It prints 100 %.
ProcessFinishes ==
    /\ phase = "process" /\ mode = "bootloader" /\ toDevice = <<>>
    /\ phase' = "none"
    /\ flasher' = "FlashFinished"
    /\ dev' = DeviceBoot /\ mode' = "application" /\ streaming' = FALSE
    /\ ConnectAgain
    /\ excuse' = {}
    /\ UNCHANGED <<alive, restoring, conf, saved, before, bounds>>

-----------------------------------------------------------------------------
(* The device and the cable.  A Ping1D refuses a length of zero and a speed *)
(* below its range; in automatic mode it chooses its own range.            *)

Taken(set) ==
    IF \A k \in DOMAIN set : set[k] \in Valid(k) THEN Merged(set, dev) ELSE dev

\* The bootloader ignores what it does not understand.
Ignore(m) ==
    /\ mode = "bootloader"
    /\ excuse' = IF m.ask = {} THEN excuse ELSE excuse \cup {"ignored"}
    /\ UNCHANGED <<toViewer, device>>

Obey(m) ==
    /\ mode = "application"
    /\ dev' = Taken(m.set)
    /\ mode' = IF m.do = "bootloader" THEN "bootloader" ELSE mode
    /\ streaming' = IF m.do = "nothing" THEN streaming ELSE m.do = "start"
    /\ toViewer' = IF m.ask = {} \/ ~open THEN toViewer
                     ELSE Append(toViewer, [k \in m.ask |-> dev'[k]])
    /\ UNCHANGED excuse

Serve ==
    /\ toDevice # <<>>
    /\ toDevice' = Tail(toDevice)
    /\ Ignore(Head(toDevice)) \/ Obey(Head(toDevice))
    /\ UNCHANGED <<viewer, before, bounds>>

Stream ==
    /\ streaming /\ open /\ toViewer = <<>>
    /\ toViewer' = <<[k \in Profile |-> dev[k]]>>
    /\ UNCHANGED <<viewer, toDevice, device, history, bounds>>

Adjust ==
    /\ mode = "application" /\ dev["auto"] = 1
    /\ \E v \in Valid("length") \ {dev["length"]} : dev' = [dev EXCEPT !["length"] = v]
    /\ excuse' = excuse \cup {"adjusted"}
    /\ UNCHANGED <<viewer, toDevice, toViewer, mode, streaming, before, bounds>>

\* A command, a request, both or a reply is lost.
Lose ==
    /\ losses < MaxLosses /\ calls + losses < MaxCalls
    /\ losses' = losses + 1
    /\ \/ /\ toDevice # <<>>
          /\ \E part \in {[Head(toDevice) EXCEPT !.set = Nothing],
                          [Head(toDevice) EXCEPT !.ask = {}],
                          Do("nothing")} :
                toDevice' = <<part>> \o Tail(toDevice)
          /\ UNCHANGED toViewer
       \/ /\ toViewer # <<>>
          /\ toViewer' = Tail(toViewer)
          /\ UNCHANGED toDevice
    /\ excuse' = excuse \cup {"lost"}
    /\ UNCHANGED <<viewer, device, before, calls>>

PowerCycle ==
    /\ Call
    /\ dev' = DeviceBoot /\ mode' = "application" /\ streaming' = FALSE
    /\ before' = None
    /\ excuse' = excuse \cup {"rebooted"}
    /\ UNCHANGED <<viewer, toDevice, toViewer, losses>>

Next ==
    \/ Connect \/ Close \/ Unplug
    \/ PeriodicTimeout \/ HandleMessage \/ RestoreTimeout
    \/ UserSets \/ ResetSettings
    \/ Flash \/ FinishConnection \/ StartProcess
    \/ ProcessPrintsError \/ ProcessEnds \/ ProcessFinishes
    \/ Serve \/ Stream \/ Adjust \/ Lose \/ PowerCycle

\* The timers fire whatever is on the cable; Room is a bound of the model, so
\* that a tick it holds back comes when the cable has been read.
Fairness == /\ SF_vars(PeriodicTimeout) /\ SF_vars(RestoreTimeout)
            /\ WF_vars(HandleMessage) /\ WF_vars(Serve) /\ WF_vars(FinishConnection)

Spec == Init /\ [][Next]_vars /\ Fairness

-----------------------------------------------------------------------------
\* While a link is open and no flash is under way the device is asked again
\* every second, so that it will be recognised whatever is lost; a restore
\* serves a sensor that exists, and only a recognised device counts as
\* configured.
PolledWhileOpen ==
    /\ open /\ phase = "none" => alive /\ polling
    /\ restoring => alive
    /\ lastId = srcId => srcId = 1

TypeOK ==
    /\ {alive, open, polling, restoring, streaming} \subseteq BOOLEAN
    /\ srcId \in 0..1 /\ lastId \in {-1, 1}
    /\ class \in [Configured -> Values] /\ conf \in [Configured -> Values]
    /\ saved \in [Configured -> -1..3]
    /\ \A k \in Configured : saved = None \/ saved[k] \in Valid(k)
    /\ phase \in {"none", "closing", "closed", "process"}
    /\ flasher \in {"Idle", "StartingFlash", "Error", "FlashFinished"}
    /\ dev \in [Configured -> Values] /\ mode \in {"application", "bootloader"}
    /\ excuse \subseteq {"lost", "adjusted", "rebooted", "ignored"}
    /\ calls \in 0..MaxCalls /\ losses \in 0..MaxLosses

\* What the settings hold is valid, and an open link is polled.
Inv == TypeOK /\ PolledWhileOpen

\* A firmware update sets the device back to its defaults.  When the restore
\* that follows has ended, the device is again set as it was, as far as the
\* restore goes.  Two things excuse it: a lost message, since the restore takes
\* the 0 of an entry it has not heard of for a value of the device, and an
\* automatic mode that has changed the range meanwhile.
FlashKeepsConfiguration ==
    /\ before # None /\ flasher = "FlashFinished" /\ phase = "none"
    /\ alive /\ open /\ srcId = 1 /\ ~restoring /\ toDevice = <<>>
    /\ excuse \cap {"lost", "adjusted"} = {}
    => \A k \in Relevant(before) : dev[k] = before[k]

Stores == \/ alive /\ ~alive'
          \/ phase = "closing" /\ phase' = "closed"

Undisturbed == /\ open /\ ~restoring /\ srcId = 1
               /\ toViewer = <<>> /\ toDevice = <<>>
               /\ excuse \cap {"lost", "rebooted", "ignored"} = {}

\* A sensor that is closed or flashed at rest stores what its device is set
\* to, unless messages were lost, the device was restarted or its bootloader got
\* a request of the restore; and the range, unless the device has chosen that
\* itself.
SavesWhatIsSet ==
    [][Stores /\ Undisturbed =>
         \A k \in IF "adjusted" \in excuse THEN Configured \ Profile ELSE Configured :
            saved'[k] = dev[k]]_vars

\* A restore comes to its end while the link is open.
RestoreEnds == (restoring /\ open) ~> (~restoring \/ ~open)

=============================================================================
