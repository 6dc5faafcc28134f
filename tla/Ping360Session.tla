---------------------------- MODULE Ping360Session ----------------------------
(***************************************************************************)
(* A Ping360 object talking to its device, from the first request for the  *)
(* device information to the stream of profiles: the two timers, the two   *)
(* strategies of asking for profiles, and handleMessage() (ping360.cpp).   *)
(*                                                                         *)
(* Legacy firmware sends one profile per request.  Newer firmware streams  *)
(* profiles until its line sees a break.  The link is a serial port or UDP *)
(* to a serial bridge.  On a serial port resetBaudrate() closes and opens  *)
(* the port and sends a break: what is on the way is lost and a stream     *)
(* ends.  On UDP it is an empty datagram that makes the bridge send one.   *)
(*                                                                         *)
(* What baud rate the detection picks is the subject of BaudDetection;     *)
(* here a detection is a number of triggers after which it is over.        *)
(* A setting stands for all the values that requests and profiles carry.   *)
(***************************************************************************)
EXTENDS Integers, Sequences, FiniteSets

CONSTANTS Setups,      \* the pairs of a link and a firmware that are checked
          Settings,    \* combinations of settings, 0 are the defaults
          Rejected,    \* those the device answers with a NACK
          MaxRetry,    \* profiles with old settings before a new request, 5
          MaxTriggers, \* bound: triggers of a baud rate detection
          MaxCable,    \* bound: messages on the way in one direction
          MaxChanges,  \* bound: changes of the settings by the user
          MaxLosses,   \* bound: messages lost
          MaxResets,   \* bound: power cycles of the device
          MaxEarly     \* bound: timeouts over UDP while an answer is due

ASSUME SessionAssumption ==
  /\ Setups \subseteq {"serial", "udp"} \X {"legacy", "async"}
  /\ 0 \in Settings /\ -1 \notin Settings /\ Rejected \subseteq Settings \ {0}
  /\ MaxRetry \in Nat \ {0} /\ MaxTriggers \in Nat /\ MaxCable \in Nat \ {0}
  /\ MaxChanges \in Nat /\ MaxLosses \in Nat /\ MaxResets \in Nat /\ MaxEarly \in Nat

VARIABLES setup,        \* the link and the firmware of this session
          configuring,  \* _configuring
          infoTimer,    \* _baudrateConfigurationTimer.isActive()
          profileTimer, \* _timeoutProfileMessage.isActive()
          wanted,       \* _sensorSettings
          waitRetry,    \* _waitRetryMessages
          triggers,     \* of the running detection
          toDevice, toHost,
          mode,         \* the setting the device streams with, or None
          shown,        \* the setting of the last profile, or None
          changes, losses, resets,
          early         \* timeouts over UDP that came before the answer

host   == <<configuring, infoTimer, profileTimer, wanted, waitRetry, triggers, shown>>
cable  == <<toDevice, toHost>>
bounds == <<changes, losses, resets, early>>
vars   == <<setup, host, cable, mode, bounds>>

Serial == setup[1] = "serial"
Async  == setup[2] = "async"    \* firmware later than 3.3.0

None == -1

Message(id, s) == [id |-> id, setting |-> s]

Info       == Message("DEVICE_INFORMATION", 0)
Break      == Message("break", 0)
Request(s) == Message(IF Async THEN "AUTO_TRANSMIT" ELSE "TRANSDUCER", s)
Profile(s) == Message(IF Async THEN "AUTO_DEVICE_DATA" ELSE "DEVICE_DATA", s)

\* The cable with more on it.  What a serial port cannot hold is lost; over
\* UDP the early timeouts and the stream bound what is on the way.
Put(queue, new) == LET all == queue \o new
                   IN IF ~Serial \/ Len(all) <= MaxCable THEN all
                      ELSE SubSeq(all, 1, MaxCable)

Init == /\ setup \in Setups
        /\ configuring = TRUE
        /\ infoTimer = FALSE /\ profileTimer = FALSE
        /\ wanted = 0 /\ waitRetry = 1
        /\ triggers = 0
        /\ toDevice = <<>> /\ toHost = <<>>
        /\ mode = None /\ shown = None
        /\ changes = 0 /\ losses = 0 /\ resets = 0 /\ early = 0

-----------------------------------------------------------------------------
\* writeMessage() with left still to be read.
Write(m, left) == /\ toDevice' = Put(toDevice, <<m>>) /\ toHost' = left
                  /\ UNCHANGED mode

\* setBaudRate() and then writing new: the port is closed and opened.
ReopenAndWrite(new) == toDevice' = new /\ toHost' = <<>> /\ mode' = None

\* resetBaudrate() followed by writeMessage().
ResetAndWrite(m, left) ==
  IF Serial
    THEN ReopenAndWrite(<<m>>)
    ELSE /\ toDevice' = Put(toDevice, <<Break, m>>) /\ toHost' = left
         /\ UNCHANGED mode

\* requestNextProfile(): asyncProfileRequest() resets the line first.
RequestNextProfile(s, left) ==
  IF Async THEN ResetAndWrite(Request(s), left) ELSE Write(Request(s), left)

\* checkBaudrateProcess(): the settings are set to their defaults and the
\* device information is requested.  While configuring, a call may set a rate
\* and may be the last; only a reply can prove the present rate the best.
CheckBaudrateProcess(left, isReply) ==
  /\ wanted' = 0
  /\ \/ /\ ~configuring
        /\ Write(Info, left)
        /\ UNCHANGED <<configuring, triggers>>
     \/ /\ configuring /\ triggers < MaxTriggers
        /\ Write(Info, left) \/ ReopenAndWrite(<<>>)
        /\ triggers' = triggers + 1 /\ UNCHANGED configuring
     \/ /\ configuring
        /\ (isReply /\ Write(Info, left)) \/ ReopenAndWrite(<<>>)
        /\ configuring' = FALSE /\ UNCHANGED triggers

\* connectionOpen: checkBootloader() and, on a serial port 250 ms later,
\* startConfiguration(); on UDP startPreConfigurationProcess().
Connect == /\ triggers = 0
           /\ triggers' = 1
           /\ wanted' = 0
           /\ IF Serial
                THEN /\ ReopenAndWrite(<<>>)
                     /\ infoTimer' = TRUE
                     /\ UNCHANGED configuring
                ELSE /\ Write(Info, toHost)
                     /\ configuring' = FALSE
                     /\ UNCHANGED infoTimer
           /\ UNCHANGED <<setup, profileTimer, waitRetry, shown, bounds>>

\* startConfiguration() from its button.
StartConfiguration ==
  /\ Serial /\ triggers > 0 /\ changes < MaxChanges
  /\ changes' = changes + 1
  /\ configuring' = TRUE /\ triggers' = 1
  /\ wanted' = 0
  /\ infoTimer' = TRUE /\ profileTimer' = FALSE
  /\ ReopenAndWrite(<<>>)
  /\ UNCHANGED <<setup, waitRetry, shown, losses, resets, early>>

\* Mutant: new settings are asked for at once.
SetSettingsRequests(s) ==
  /\ changes < MaxChanges /\ s # wanted /\ shown # None
  /\ changes' = changes + 1
  /\ wanted' = s
  /\ RequestNextProfile(s, toHost)
  /\ UNCHANGED <<setup, configuring, infoTimer, profileTimer, waitRetry, triggers, shown,
                 losses, resets, early>>

\* The setters of the control panel change the settings and ask for nothing.
SetSettings(s) == /\ changes < MaxChanges /\ s # wanted
                  /\ changes' = changes + 1
                  /\ wanted' = s
                  /\ UNCHANGED <<setup, configuring, infoTimer, profileTimer, waitRetry,
                       triggers, shown, cable, mode, losses, resets, early>>

InfoTimeout == /\ infoTimer
               /\ CheckBaudrateProcess(toHost, FALSE)
               /\ UNCHANGED <<setup, infoTimer, profileTimer, waitRetry, shown, bounds>>

\* Nothing is on the way and the device sends nothing of itself.
Quiet == toDevice = <<>> /\ toHost = <<>> /\ mode = None

\* _timeoutProfileMessage: resetBaudrate() and requestNextProfile().  With
\* legacy firmware it runs for little more than 200 ms after a profile, while
\* the device may take four seconds: it can expire early.  On a serial port what
\* is late is lost when the port is reopened; over UDP it still arrives.
ProfileTimeout ==
  /\ profileTimer
  /\ \/ (Serial \/ Quiet) /\ UNCHANGED early
     \/ ~Serial /\ ~Quiet /\ early < MaxEarly /\ early' = early + 1
  /\ ResetAndWrite(Request(wanted), toHost)
  /\ UNCHANGED <<setup, host, changes, losses, resets>>

Received(id) == toHost # <<>> /\ Head(toHost).id = id

\* Mutant: the timer is left to the first profile.
HandleDeviceInformationNoTimer ==
  /\ Received("DEVICE_INFORMATION")
  /\ \/ /\ configuring /\ Serial
        /\ infoTimer' = TRUE
        /\ CheckBaudrateProcess(Tail(toHost), TRUE)
        /\ UNCHANGED profileTimer
     \/ /\ ~(configuring /\ Serial)
        /\ infoTimer' = FALSE /\ UNCHANGED profileTimer
        /\ RequestNextProfile(wanted, Tail(toHost))
        /\ UNCHANGED <<configuring, wanted, triggers>>
  /\ UNCHANGED <<setup, waitRetry, shown, bounds>>

\* While configuring, the device information triggers the next request;
\* afterwards it starts the profiles.
HandleDeviceInformation ==
  /\ Received("DEVICE_INFORMATION")
  /\ \/ /\ configuring /\ Serial
        /\ infoTimer' = TRUE
        /\ CheckBaudrateProcess(Tail(toHost), TRUE)
        /\ UNCHANGED profileTimer
     \/ /\ ~(configuring /\ Serial)
        /\ infoTimer' = FALSE /\ profileTimer' = TRUE
        /\ RequestNextProfile(wanted, Tail(toHost))
        /\ UNCHANGED <<configuring, wanted, triggers>>
  /\ UNCHANGED <<setup, waitRetry, shown, bounds>>

HandleDeviceData ==
  /\ Received("DEVICE_DATA")
  /\ shown' = Head(toHost).setting
  /\ RequestNextProfile(wanted, Tail(toHost))
  /\ profileTimer' = TRUE
  /\ UNCHANGED <<setup, configuring, infoTimer, wanted, waitRetry, triggers, bounds>>

\* Mutant: a stream with other settings is taken as it is.
HandleAutoDeviceDataAnySetting ==
  /\ Received("AUTO_DEVICE_DATA")
  /\ shown' = Head(toHost).setting
  /\ waitRetry' = 1 /\ profileTimer' = FALSE
  /\ toHost' = Tail(toHost) /\ UNCHANGED <<toDevice, mode>>
  /\ UNCHANGED <<setup, configuring, infoTimer, wanted, triggers, bounds>>

\* A profile of the stream stops the timer; one with other settings than the
\* wanted leads to a new request, but only one per MaxRetry of them.
HandleAutoDeviceData ==
  /\ Received("AUTO_DEVICE_DATA")
  /\ shown' = Head(toHost).setting
  /\ \/ /\ Head(toHost).setting = wanted
        /\ waitRetry' = 1 /\ profileTimer' = FALSE
        /\ toHost' = Tail(toHost) /\ UNCHANGED <<toDevice, mode>>
     \/ /\ Head(toHost).setting # wanted /\ waitRetry > 1
        /\ waitRetry' = waitRetry - 1 /\ profileTimer' = FALSE
        /\ toHost' = Tail(toHost) /\ UNCHANGED <<toDevice, mode>>
     \/ /\ Head(toHost).setting # wanted /\ waitRetry = 1
        /\ waitRetry' = MaxRetry /\ profileTimer' = TRUE
        /\ RequestNextProfile(wanted, Tail(toHost))
  /\ UNCHANGED <<setup, configuring, infoTimer, wanted, triggers, bounds>>

HandleNack == /\ Received("NACK")
              /\ wanted' = 0
              /\ RequestNextProfile(0, Tail(toHost))
              /\ profileTimer' = TRUE
              /\ UNCHANGED <<setup, configuring, infoTimer, waitRetry, triggers, shown, bounds>>

Handle == \/ HandleDeviceInformation \/ HandleDeviceData
          \/ HandleAutoDeviceData \/ HandleNack

-----------------------------------------------------------------------------
\* The device, and what happens to messages.
Serve ==
  /\ toDevice # <<>>
  /\ toDevice' = Tail(toDevice)
  /\ LET m == Head(toDevice) IN
       CASE m.id = "break" -> mode' = None /\ UNCHANGED toHost
         [] m.id = "DEVICE_INFORMATION" ->
              toHost' = Put(toHost, <<Info>>) /\ UNCHANGED mode
         [] m.id \in {"TRANSDUCER", "AUTO_TRANSMIT"} /\ m.setting \in Rejected ->
              toHost' = Put(toHost, <<Message("NACK", 0)>>) /\ UNCHANGED mode
         [] m.id = "TRANSDUCER" /\ m.setting \notin Rejected ->
              toHost' = Put(toHost, <<Profile(m.setting)>>) /\ UNCHANGED mode
         [] m.id = "AUTO_TRANSMIT" /\ m.setting \notin Rejected ->
              mode' = m.setting /\ UNCHANGED toHost
  /\ UNCHANGED <<setup, host, bounds>>

\* (A stream leaves room on the cable for a request and its reply.)
Stream == /\ mode # None /\ Len(toHost) + Len(toDevice) + 2 <= MaxCable
          /\ toHost' = Append(toHost, Profile(mode))
          /\ UNCHANGED <<setup, toDevice, host, mode, bounds>>

Lose == /\ losses < MaxLosses /\ losses' = losses + 1
        /\ \/ toDevice # <<>> /\ toDevice' = Tail(toDevice) /\ UNCHANGED toHost
           \/ toHost # <<>> /\ toHost' = Tail(toHost) /\ UNCHANGED toDevice
        /\ UNCHANGED <<setup, host, mode, changes, resets, early>>

PowerCycle == /\ resets < MaxResets /\ resets' = resets + 1
              /\ mode' = None /\ toDevice' = <<>>
              /\ UNCHANGED <<setup, host, toHost, changes, losses, early>>

User == StartConfiguration \/ \E s \in Settings : SetSettings(s)

Next == \/ Connect \/ User \/ InfoTimeout \/ ProfileTimeout \/ Handle
        \/ Serve \/ Stream \/ Lose \/ PowerCycle

\* The timer of the device information expires as long as it runs, that of the
\* profiles, which every answer starts again, once nothing can come any more;
\* the event loop reads what has arrived, the device serves what reaches it and
\* streams: a reply is not for ever later than its timer.
Fairness == /\ WF_vars(Connect)
            /\ WF_vars(InfoTimeout) /\ WF_vars(Quiet /\ ProfileTimeout)
            /\ SF_vars(Handle) /\ SF_vars(Serve) /\ SF_vars(Stream)

Spec == Init /\ [][Next]_vars /\ Fairness

-----------------------------------------------------------------------------
MessageIds == {"DEVICE_INFORMATION", "break", "AUTO_TRANSMIT", "TRANSDUCER",
               "AUTO_DEVICE_DATA", "DEVICE_DATA", "NACK"}
Messages   == [id : MessageIds, setting : Settings]

TypeOK == /\ setup \in Setups
          /\ configuring \in BOOLEAN
          /\ infoTimer \in BOOLEAN /\ profileTimer \in BOOLEAN
          /\ wanted \in Settings /\ waitRetry \in 1..MaxRetry
          /\ triggers \in Nat
          /\ toDevice \in Seq(Messages) /\ toHost \in Seq(Messages)
          /\ mode \in Settings \cup {None} /\ shown \in Settings \cup {None}
          /\ changes \in 0..MaxChanges /\ losses \in 0..MaxLosses
          /\ resets \in 0..MaxResets /\ early \in 0..MaxEarly

\* Nothing will ever happen again: no timer will ask, nothing is on the way
\* and the device sends nothing of itself.
Silent == ~infoTimer /\ ~profileTimer /\ Quiet

\* What the code does not survive: over UDP a lost message, with streaming
\* firmware a power cycle of the device.
Excused == \/ ~Serial /\ losses + resets > 0
           \/ Async /\ resets > 0

\* A session never falls silent: on a serial port, whatever is lost and
\* rejected and whenever the detection is started again.
NeverSilent == triggers > 0 /\ ~Excused => ~Silent

\* Profiles with the settings that are wanted arrive for ever, also after the
\* settings were changed or rejected.
WantedProfile == /\ Received(Profile(0).id) /\ Head(toHost).setting = wanted
                 /\ Handle
ProfilesFlow  == <>Excused \/ []<><<WantedProfile>>_vars

\* "each request creates a single reply" (ping360.h): over UDP, with legacy
\* firmware, every loop of a request and its answer beyond the first is the work
\* of a timer that expired before the answer; losses, rejected settings, power
\* cycles and the answers themselves add none.  On a serial port they can: every
\* late reply to the baud rate detection starts another loop.
Requests(queue) == Cardinality({i \in DOMAIN queue : queue[i].id # Break.id})
LoopsOverUdp == ~Serial /\ ~Async => Requests(toDevice) + Len(toHost) <= early + 1

-----------------------------------------------------------------------------
\* What NeverSilent rests on.
Ids(queue) == {queue[i].id : i \in DOMAIN queue}

\* Before a link is open nothing moves.
Unconnected == triggers = 0 => /\ ~infoTimer /\ ~profileTimer /\ mode = None
                               /\ toDevice = <<>> /\ toHost = <<>>

\* What is asked for and what answers it belong to the firmware; the legacy one
\* never streams.
FirmwareInv == /\ Ids(toDevice) \subseteq {Break.id, Info.id, Request(0).id}
               /\ Ids(toHost) \subseteq {Info.id, "NACK", Profile(0).id}
               /\ ~Async => mode = None

\* On a serial port a timer runs or the device streams: what stops the timer is
\* a profile of a stream, and a stream leaves nothing behind on the cable when
\* the port is reopened.
SerialInv == Serial =>
  /\ Break.id \notin Ids(toDevice)
  /\ ~Excused =>
       /\ "AUTO_DEVICE_DATA" \in Ids(toHost) => mode # None
       /\ triggers > 0 => infoTimer \/ profileTimer \/ mode # None

\* Over UDP a break may be on the way, but a request follows it, so that as
\* long as nothing is lost something will come of what is on the way.
WillCome == IF toDevice = <<>> THEN mode # None \/ Ids(toHost) \cap {Info.id, "NACK"} # {}
           ELSE toDevice[Len(toDevice)].id \in {Info.id, "AUTO_TRANSMIT"}
UdpInv == ~Serial =>
  /\ ~infoTimer
  /\ ~Excused =>
       /\ toDevice # <<>> => toDevice[Len(toDevice)].id # Break.id
       /\ mode # None \/ "AUTO_DEVICE_DATA" \in Ids(toHost) => WillCome
       /\ triggers > 0 => profileTimer \/ WillCome

\* Types, the loops over UDP and these.
Inv == TypeOK /\ LoopsOverUdp /\ Unconnected /\ FirmwareInv /\ SerialInv /\ UdpInv

=============================================================================
