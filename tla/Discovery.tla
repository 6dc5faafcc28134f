------------------------------ MODULE Discovery ------------------------------
(***************************************************************************)
(* The search for devices: DeviceManager on the GUI thread,                *)
(* ProtocolDetector::doScan on a thread of its own, the flag _active that  *)
(* they share, the reports queued from one to the other, and               *)
(* Ping360HelperService, which finds Ethernet devices on the GUI thread.   *)
(*                                                                         *)
(* doScan() is called by the thread's started signal, before the thread    *)
(* has an event loop; stopDetecting() clears the flag and asks the thread  *)
(* to quit.  A thread that is still running is not started again.          *)
(*                                                                         *)
(* A link stands for a configuration with the type of the device at it,    *)
(* which is what operator== compares.  The detector tries the serial ports *)
(* after all other links, each at one baud rate.  A link to a serial port  *)
(* holds the port for itself; datagrams have no such limit.                *)
(***************************************************************************)
EXTENDS Integers, Sequences, Functions

CONSTANTS Links,       \* the links the detector tries
          Serial,      \* those that are serial ports: one opener at a time
          Ethernet,    \* the links Ping360HelperService can find
          NoLink,
          MaxCalls,    \* bound: calls of start, stop and connect
          MaxPlugs,    \* bound: devices plugged in or unplugged
          MaxReports   \* bound: reports under way

ASSUME DiscoveryAssumption ==
  /\ Serial \subseteq Links /\ Links \cap Ethernet = {}
  /\ NoLink \notin Links \cup Ethernet
  /\ MaxCalls \in Nat /\ MaxPlugs \in Nat /\ MaxReports \in Nat \ {0}

VARIABLES thread,    \* stopped, starting, scanning, resting or ending
          active,    \* _active
          todo,      \* links not yet tried in this round
          probing,   \* the link checkLink() has open, or NoLink
          found,     \* _availableLinks
          reports,   \* queued availableLinksChanged signals
          rows,      \* the rows of _sensors
          sensor,    \* the link of _primarySensor, and whether it opened
          wanted,    \* history: startDetecting() was called last
          present,   \* the devices at Links that are there
          calls, plugs

detector == <<active, todo, probing, found>>
manager  == <<rows, sensor>>
bounds   == <<calls, plugs>>
vars     == <<thread, detector, reports, manager, wanted, present, bounds>>

AllLinks == Links \cup Ethernet

\* Connected, which is set for a row that is used and never reset, is left out.
Row(link, who) == [link |-> link, available |-> TRUE, detector |-> who]

HasRow(rs, link)  == \E i \in DOMAIN rs : rs[i].link = link
RowNumber(rs, link) == CHOOSE i \in DOMAIN rs :
                         rs[i].link = link /\ \A j \in 1..(i - 1) : rs[j].link # link

Init == /\ thread = "stopped" /\ active = FALSE
        /\ todo = {} /\ probing = NoLink /\ found = <<>>
        /\ reports = <<>> /\ rows = <<>>
        /\ sensor = [link |-> NoLink, open |-> FALSE]
        /\ wanted = FALSE /\ present = Links
        /\ calls = 0 /\ plugs = 0

-----------------------------------------------------------------------------
\* The detector's thread.

\* started -> scan -> doScan(): whatever was said before, it is active now.
\* What comes next is the condition of the loop, as after each pause.
BeginScan == /\ thread = "starting"
             /\ thread' = "resting" /\ active' = TRUE
             /\ UNCHANGED <<todo, probing, found>>

\* canOpenPort(): a serial port that the sensor has open is not free.
CanOpen(link) == link \in Serial => sensor # [link |-> link, open |-> TRUE]

\* checkLink() opens the link, if it can.
BeginProbe(link) ==
  /\ thread = "scanning" /\ active /\ probing = NoLink
  /\ link \in todo /\ (link \in Serial => todo \subseteq Serial)
  /\ todo' = todo \ {link}
  /\ probing' = IF CanOpen(link) THEN link ELSE NoLink
  /\ UNCHANGED <<thread, active, found>>

Detect == /\ probing # NoLink /\ probing \in present
          /\ found' = IF probing \in Range(found) THEN found
                                                 ELSE Append(found, probing)
          /\ probing' = NoLink
          /\ UNCHANGED <<thread, active, todo>>

\* No answer in time, or told to stop while waiting.
GiveUp == /\ probing # NoLink
          /\ probing' = NoLink
          /\ UNCHANGED <<thread, active, todo, found>>

\* The end of a round, cut short or not: the links that were found are
\* reported.
EndRound == /\ thread = "scanning" /\ probing = NoLink /\ (todo = {} \/ ~active)
            /\ Len(reports) < MaxReports
            /\ reports' = Append(reports, found)
            /\ found' = <<>> /\ thread' = "resting"
            /\ UNCHANGED <<active, todo, probing>>

\* Mutant: the flag is looked at between links only.
NextRoundAnyway == /\ thread = "resting"
                   /\ thread' = "scanning" /\ todo' = Links
                   /\ UNCHANGED <<active, probing, found>>

\* Half a second later: while (_active).
NextRound == /\ thread = "resting"
             /\ IF active THEN thread' = "scanning" /\ todo' = Links
                          ELSE thread' = "ending" /\ UNCHANGED todo
             /\ UNCHANGED <<active, probing, found>>

\* The event loop finds that it was told to quit.
EndThread == /\ thread = "ending"
             /\ thread' = "stopped"
             /\ UNCHANGED detector

Detector == /\ \/ BeginScan \/ \E link \in Links : BeginProbe(link)
               \/ Detect \/ GiveUp \/ NextRound \/ EndThread
            /\ UNCHANGED <<reports, manager, wanted, present, bounds>>

Report == EndRound /\ UNCHANGED <<manager, wanted, present, bounds>>

-----------------------------------------------------------------------------
\* The device manager.

\* Mutant: a link that has a row gets another one.
AppendAlways(rs, link, who) == rs \o <<Row(link, who)>>

\* append()
AppendRow(rs, link, who) ==
  IF HasRow(rs, link)
    THEN [rs EXCEPT ![RowNumber(rs, link)].available = TRUE]
    ELSE Append(rs, Row(link, who))

\* append() of one link after the other.
AppendRows(rs, links, who) ==
  LET after[k \in 0..Len(links)] ==
        IF k = 0 THEN rs ELSE AppendRow(after[k - 1], links[k], who)
  IN after[Len(links)]

\* Mutant: the rows of every detector become unavailable.
UpdateAllAvailableConnections(rs, links, who) ==
  LET hidden == [i \in DOMAIN rs |-> [rs[i] EXCEPT !.available = FALSE]]
  IN AppendRows(hidden, links, who)

\* Mutant: what was found is added to the list, and nothing is hidden.
UpdateAvailableConnectionsAdds(rs, links, who) ==
  AppendRows(rs, links, who)

\* updateAvailableConnections()
UpdateAvailableConnections(rs, links, who) ==
  LET hidden == [i \in DOMAIN rs |->
                   [rs[i] EXCEPT !.available = @ /\ rs[i].detector # who]]
  IN AppendRows(hidden, links, who)

DeliverReport ==
  /\ reports # <<>>
  /\ reports' = Tail(reports)
  /\ rows' = UpdateAvailableConnections(rows, Head(reports), "protocol")
  /\ UNCHANGED <<thread, detector, sensor, wanted, present, bounds>>

\* The timer of the helper service runs and its socket is open: every second
\* it broadcasts to the networks of all interfaces.
Broadcasting == wanted

\* The helper service reports each answer to its broadcast by itself, if and
\* when one comes.
DeliverHelper(link) ==
  /\ Broadcasting
  /\ rows' = UpdateAvailableConnections(rows, <<link>>, "ethernet")
  /\ UNCHANGED <<thread, detector, reports, sensor, wanted, present, bounds>>

Call == calls < MaxCalls /\ calls' = calls + 1 /\ UNCHANGED plugs

StartDetecting == /\ Call
                  /\ wanted' = TRUE
                  /\ thread' = IF thread = "stopped" THEN "starting" ELSE thread
                  /\ UNCHANGED <<detector, reports, manager, present>>

StopDetecting == /\ Call
                 /\ wanted' = FALSE /\ active' = FALSE
                 /\ UNCHANGED <<thread, todo, probing, found, reports, manager, present>>

\* connectLink() of a link that is in the list rs.  The previous sensor is
\* destroyed and lets go of its link.
ConnectLink(rs, link) ==
  /\ Call
  /\ wanted' = FALSE /\ active' = FALSE
  /\ rows' = rs
  /\ sensor' = [link |-> link,
                open |-> link \in Serial => link \in present /\ probing # link]
  /\ UNCHANGED <<thread, todo, probing, found, reports, present>>

\* A click on a device in the list.
ConnectRow(link) == HasRow(rows, link) /\ ConnectLink(rows, link)

ConnectLinkDirectly(link) == ConnectLink(AppendRow(rows, link, "None"), link)

\* clear(), when the user has given an Ethernet device another address.
ClearList == /\ Call
             /\ rows' = <<>>
             /\ UNCHANGED <<thread, detector, reports, sensor, wanted, present>>

\* A port that goes away is closed by the serial link that has it open.
Plug(link) ==
  /\ plugs < MaxPlugs /\ plugs' = plugs + 1
  /\ present' = IF link \in present THEN present \ {link} ELSE present \cup {link}
  /\ sensor' = IF link \in Serial /\ sensor.link = link
                 THEN [sensor EXCEPT !.open = FALSE] ELSE sensor
  /\ UNCHANGED <<thread, detector, reports, rows, wanted, calls>>

User == \/ StartDetecting \/ StopDetecting \/ ClearList
        \/ \E link \in AllLinks : ConnectRow(link) \/ ConnectLinkDirectly(link)

Next == \/ Detector \/ Report \/ DeliverReport \/ User
        \/ \E link \in Ethernet : DeliverHelper(link)
        \/ \E link \in Links : Plug(link)

\* The thread runs, and so does the event loop of the interface.  A device
\* that is asked again and again answers in time again and again.
Fairness == /\ WF_vars(Detector) /\ WF_vars(Report) /\ WF_vars(DeliverReport)
            /\ \A link \in Links :
                 SF_vars(Detect /\ probing = link /\ Detector)

Spec == Init /\ [][Next]_vars /\ Fairness

-----------------------------------------------------------------------------
Detectors == {"protocol", "ethernet", "None"}

\* A round reports a link at most once.
Once(s) == \A i, j \in DOMAIN s : s[i] = s[j] => i = j

TypeOK == /\ thread \in {"stopped", "starting", "scanning", "resting", "ending"}
          /\ active \in BOOLEAN /\ wanted \in BOOLEAN
          /\ todo \subseteq Links /\ probing \in Links \cup {NoLink}
          /\ found \in Seq(Links) /\ Once(found)
          /\ reports \in Seq(Seq(Links)) /\ Len(reports) <= MaxReports
          /\ \A i \in DOMAIN reports : Once(reports[i])
          /\ rows \in Seq([link: AllLinks, available: BOOLEAN,
                            detector: Detectors])
          /\ sensor \in [link: AllLinks \cup {NoLink}, open: BOOLEAN]
          /\ present \subseteq Links
          /\ calls \in 0..MaxCalls /\ plugs \in 0..MaxPlugs

\* The list never shows a link twice, whichever detector reports it, however
\* often, and however the user connected to it (append(), connectLink()).
OneRowPerLink == \A i, j \in DOMAIN rows : rows[i].link = rows[j].link => i = j

\* The invariants of the state.
Inv == TypeOK /\ OneRowPerLink

\* The scan reports without the row's link, which it found.
ReportHides(row) == /\ row.detector = "protocol"
                    /\ reports # <<>> /\ reports' = Tail(reports)
                    /\ row.link \notin Range(Head(reports))

\* The helper service found the row's link, and now it found another.
HelperHides(row) ==
  /\ row.detector = "ethernet"
  /\ \E link \in Ethernet \ {row.link} :
       HasRow(rows', link) /\ rows'[RowNumber(rows', link)].available

\* The rows this step hides: those of the detector that reports, without them.
HidesItsOwn ==
  \A i \in DOMAIN rows \cap DOMAIN rows' :
    rows[i].available /\ ~rows'[i].available =>
      ReportHides(rows[i]) \/ HelperHides(rows[i])

\* A device that is shown as available disappears only because the detector
\* that found it reports without it: the reports of one detector do not hide
\* what the other found, nor what the user entered.
HiddenOnlyByItsDetector == [][HidesItsOwn]_vars

\* A scan that has begun ends after stopDetecting(), in whatever place it is:
\* between links, waiting for an answer or resting.  ~DeviceManager() waits
\* for that.
StopTakesEffect == (~active /\ thread \in {"scanning", "resting"})
                     ~> (thread = "stopped")

Shown(link) == HasRow(rows, link) /\ rows[RowNumber(rows, link)].available

\* While the scan goes on, a device that is there and is not the one in use is
\* offered for connection again and again (an answer that comes late hides it
\* for a round), and one the scan found earlier does not stay on offer when it
\* is gone.
ListFollowsDevices ==
  \A link \in Links :
    /\ <>[](active /\ link \in present /\ sensor.link # link) => []<>Shown(link)
    /\ <>[](active /\ link \notin present) =>
         <>[](Shown(link) => rows[RowNumber(rows, link)].detector # "protocol")

=============================================================================
