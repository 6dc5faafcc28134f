----------------------------- MODULE FlashWorker -----------------------------
(***************************************************************************)
(* Flashing a Ping360: the thread that talks to the bootloader             *)
(* (Ping360FlashWorker::run), the object it reports to on the GUI thread   *)
(* (Ping360Flasher and the state and message of Flasher), the serial cable *)
(* and the bootloader at its other end.                                    *)
(*                                                                         *)
(* run() is a sequence of commands, each followed by a wait for its reply. *)
(* pc names the command the thread is at; page is the loop variable i of   *)
(* the three loops over program memory.  The code has 86 pages of which    *)
(* 1 .. 3 hold the bootloader itself.                                      *)
(*                                                                         *)
(* The bootloader is not in this repository.  It is modelled by what the   *)
(* worker expects of it: it serves commands in order, answers each with    *)
(* its reply, an ACK or a NACK, and starts the application at power-up     *)
(* exactly when page 0 is not erased ("we write this page last, to prevent *)
(* booting after failed programming").  The cable keeps the order of what  *)
(* it carries, and loses or garbles any of it.                             *)
(***************************************************************************)
EXTENDS Integers, Sequences

CONSTANTS NPages,     \* pages of program memory, 86 in the code
          NBoot,      \* pages 1 .. NBoot are "protected boot code", 3
          MaxTries,   \* attempts at opening the port and at the device id, 10
          MaxJunk,    \* bound: parse errors one garbled reply leads to
          MayWear,    \* whether a page may hold something else than what an
                      \* acknowledged write put there
          Verify      \* the user's choice, _verify

ASSUME FlashAssumption ==
  /\ NPages \in Nat /\ NBoot \in Nat /\ NBoot + 1 < NPages
  /\ MaxTries \in Nat \ {0}
  /\ MaxJunk \in Nat
  /\ MayWear \in BOOLEAN /\ Verify \in BOOLEAN

VARIABLES pc,         \* the command run() is at, or how it ended
          page,       \* i of the loops
          tries,      \* i of the two retry loops
          waiting,    \* in bl_wait_packet(), the command has been sent
          toDevice,   \* commands on the cable
          toHost,     \* replies on the cable or in the port's buffer
          mem, cfg,   \* the device's program and configuration memory
          running,    \* what the device executes
          signals,    \* the worker's queued signals, not yet delivered
          state,      \* Flasher::_state
          message     \* Flasher::_message: none, or the reason of an error

workerVars == <<pc, page, tries, waiting>>
cableVars  == <<toDevice, toHost>>
deviceVars == <<mem, cfg, running>>
guiVars    == <<state, message>>
vars == <<workerVars, cableVars, deviceVars, signals, guiVars>>

Page         == 0..(NPages - 1)
Protected    == 1..NBoot
Programmable == Page \ Protected

OneShot == {"version", "erase", "write", "boot", "verify", "config", "reset"}
Asking  == {"devid"} \cup OneShot
Ended   == {"idle", "failed", "finished"}

\* The next page of a loop that skips the protected ones.
Following(p) == IF p = 0 THEN NBoot + 1 ELSE p + 1

\* A packet that carries a page, and one whose payload is fixed or empty.
WriteCommand(p, content) == [id |-> "WRITE_PGM_MEM", page |-> p, data |-> content]
PlainCommand(id) == [id |-> id, page |-> 0, data |-> "none"]

\* The packet sent at each point of run().
Command ==
  CASE pc = "devid"   -> PlainCommand("READ_DEV_ID")
    [] pc = "version" -> PlainCommand("READ_VERSION")
    [] pc = "erase"   -> WriteCommand(page, "blank")
    [] pc = "write"   -> WriteCommand(page, "image")
    [] pc = "boot"    -> WriteCommand(0, "image")
    [] pc = "verify"  -> PlainCommand("READ_PGM_MEM")
    [] pc = "config"  -> PlainCommand("WRITE_CFG_MEM")
    [] pc = "reset"   -> PlainCommand("RESET_PROCESSOR")

\* The id bl_wait_packet() is given at each point of run().
ExpectedReply ==
  CASE pc = "devid"   -> "RSP_DEV_ID"
    [] pc = "version" -> "RSP_VERSION"
    [] pc = "verify"  -> "RSP_PGM_MEM"
    [] OTHER          -> "RSP_ACK"

StateSignal(s)   == [kind |-> "stateChanged", value |-> s]
MessageSignal(m) == [kind |-> "messageChanged", value |-> m]

Init == /\ pc = "idle" /\ page = 0 /\ tries = 0 /\ waiting = FALSE
        /\ toDevice = <<>> /\ toHost = <<>>
        /\ mem = [p \in Page |-> IF p \in Protected THEN "loader" ELSE "old"]
        /\ cfg = "old"
        /\ running \in {"app", "bootloader"}
        /\ signals = <<>>
        /\ state = "Idle" /\ message = "none"

-----------------------------------------------------------------------------
\* Mutant: the port is reopened with what was left in its buffer.
StartKeepsBuffer ==
  /\ pc \in Ended
  /\ state \in {"Idle", "Error", "FlashFinished"} /\ signals = <<>>
  /\ toDevice = <<>>
  /\ pc' = "open" /\ tries' = 0 /\ page' = 0 /\ waiting' = FALSE
  /\ state' = "StartingFlash" /\ message' = "none"
  /\ signals' = <<StateSignal("StartingFlash")>>
  /\ running' \in {running, "bootloader"}
  /\ UNCHANGED <<toDevice, toHost, mem, cfg>>

\* Ping360::flash() and, 750 ms later, Ping360Flasher::flash().  The button
\* is disabled until the last run's end has been reported; by the time the
\* thread starts the device has dealt with what that run had sent it, and
\* the new QSerialPort starts with an empty buffer.  The messages that ask
\* the application for its bootloader may all be lost.
Start == /\ pc \in Ended
         /\ state \in {"Idle", "Error", "FlashFinished"} /\ signals = <<>>
         /\ toDevice = <<>>
         /\ pc' = "open" /\ tries' = 0 /\ page' = 0 /\ waiting' = FALSE
         /\ state' = "StartingFlash" /\ message' = "none"
         /\ signals' = <<StateSignal("StartingFlash")>>
         /\ toHost' = <<>>
         /\ running' \in {running, "bootloader"}
         /\ UNCHANGED <<toDevice, mem, cfg>>

\* Mutant: the port is closed and only the message is queued.
ErrorSilent == /\ pc' = "failed" /\ waiting' = FALSE
               /\ signals' = Append(signals, MessageSignal("reason"))
               /\ UNCHANGED <<page, tries>>

\* error(): the port is closed and two signals are queued.
Error == /\ pc' = "failed" /\ waiting' = FALSE
         /\ signals' = signals \o <<MessageSignal("reason"), StateSignal("Error")>>
         /\ UNCHANGED <<page, tries>>

Goto(p, first) == /\ pc' = p /\ page' = first
                  /\ waiting' = FALSE
                  /\ UNCHANGED <<tries, signals>>

\* An attempt of a retry loop failed: the last one is an error.
Retry == IF tries + 1 < MaxTries
           THEN /\ tries' = tries + 1 /\ waiting' = FALSE
                /\ UNCHANGED <<pc, page, signals>>
           ELSE Error

OpenPort == /\ pc = "open"
            /\ \/ /\ pc' = "devid" /\ tries' = 0
                  /\ UNCHANGED <<page, waiting, signals>>
               \/ Retry
            /\ UNCHANGED <<cableVars, deviceVars, guiVars>>

\* bl_write_packet()
Send == /\ pc \in Asking /\ ~waiting
        /\ waiting' = TRUE
        /\ toDevice' = Append(toDevice, Command)
        /\ UNCHANGED <<pc, page, tries, toHost, deviceVars, signals, guiVars>>

\* bl_wait_packet() returned NULL.
Refused == IF pc = "devid" THEN Retry ELSE Error

\* Mutant: the loop over the pages stops one page early.
LoopOneShort(here, next, first) ==
  IF Following(page) < NPages - 1
    THEN Goto(here, Following(page))
    ELSE Goto(next, first)

\* The end of an iteration over the pages.
Loop(here, next, first) ==
  IF Following(page) < NPages
    THEN Goto(here, Following(page))
    ELSE Goto(next, first)

\* bl_wait_packet() returned the packet.  The device id that was read is
\* compared with nothing; the version that was read is compared, and any
\* outcome is possible; a page read back that differs is only logged.
Accepted ==
  CASE pc = "devid"   -> Goto("version", 0)
    [] pc = "version" -> \/ Error
                         \/ /\ pc' = "erase" /\ page' = 0 /\ waiting' = FALSE
                            /\ signals' = Append(signals, StateSignal("Flashing"))
                            /\ UNCHANGED tries
    [] pc = "erase"   -> Loop("erase", "write", NBoot + 1)
    [] pc = "write"   -> Loop("write", "boot", 0)
    [] pc = "boot"    -> IF Verify THEN Goto("verify", 0) ELSE Goto("config", 0)
    [] pc = "verify"  -> Loop("verify", "config", 0)
    [] pc = "config"  -> Goto("reset", 0)
    [] pc = "reset"   -> /\ pc' = "finished" /\ waiting' = FALSE
                         /\ signals' = Append(signals, StateSignal("FlashFinished"))
                         /\ UNCHANGED <<page, tries>>

\* Mutant: any well-formed packet is taken for the answer.
ReceiveAny == /\ pc \in Asking /\ waiting
              /\ toHost # <<>>
              /\ toHost' = Tail(toHost)
              /\ IF Head(toHost) # "junk" THEN Accepted ELSE Refused
              /\ UNCHANGED <<toDevice, deviceVars, guiVars>>

\* The parser delivered a packet or an error; the rest of the buffer stays.
Receive == /\ pc \in Asking /\ waiting
           /\ toHost # <<>>
           /\ toHost' = Tail(toHost)
           /\ IF Head(toHost) = ExpectedReply THEN Accepted ELSE Refused
           /\ UNCHANGED <<toDevice, deviceVars, guiVars>>

\* The wait's time is over, whether or not a reply is on its way.
Timeout == /\ pc \in Asking /\ waiting
           /\ Refused
           /\ UNCHANGED <<cableVars, deviceVars, guiVars>>

Worker == OpenPort \/ Send \/ Receive \/ Timeout

-----------------------------------------------------------------------------
\* Ping360Flasher's lambdas run on the GUI thread: setState(newState) also
\* sets the message, to its default, none.
DeliverState == /\ signals # <<>> /\ Head(signals).kind = "stateChanged"
                /\ signals' = Tail(signals)
                /\ state' = Head(signals).value
                /\ message' = "none"
                /\ UNCHANGED <<workerVars, cableVars, deviceVars>>

DeliverMessage == /\ signals # <<>> /\ Head(signals).kind = "messageChanged"
                  /\ signals' = Tail(signals)
                  /\ message' = Head(signals).value
                  /\ UNCHANGED <<state, workerVars, cableVars, deviceVars>>

Gui == DeliverState \/ DeliverMessage

-----------------------------------------------------------------------------
\* What a power-up starts.
Boot == IF mem[0] = "blank" THEN "bootloader" ELSE "app"

\* The reply to command c.
ReplyTo(c) == CASE c.id = "READ_DEV_ID"  -> "RSP_DEV_ID"
                [] c.id = "READ_VERSION" -> "RSP_VERSION"
                [] c.id = "READ_PGM_MEM" -> "RSP_PGM_MEM"
                [] OTHER                 -> "RSP_ACK"

\* The effect of command c on the memories and on what runs.
Effect(c) ==
  CASE c.id = "WRITE_PGM_MEM" ->
         /\ \/ mem' = [mem EXCEPT ![c.page] = c.data]
            \/ MayWear /\ UNCHANGED mem
         /\ UNCHANGED <<cfg, running>>
    [] c.id = "WRITE_CFG_MEM" -> cfg' = "image" /\ UNCHANGED <<mem, running>>
    [] c.id = "RESET_PROCESSOR" -> running' = Boot /\ UNCHANGED <<mem, cfg>>
    [] OTHER -> UNCHANGED deviceVars

\* The bootloader obeys or refuses the oldest command; an application does
\* not understand it.
Serve == /\ toDevice # <<>>
         /\ toDevice' = Tail(toDevice)
         /\ \/ /\ running = "bootloader"
               /\ Effect(Head(toDevice))
               /\ toHost' = Append(toHost, ReplyTo(Head(toDevice)))
            \/ /\ running = "bootloader"
               /\ toHost' = Append(toHost, "RSP_NACK")
               /\ UNCHANGED deviceVars
            \/ running = "app" /\ UNCHANGED <<toHost, deviceVars>>
         /\ UNCHANGED <<workerVars, signals, guiVars>>

\* A command or a reply is lost or arrives garbled.  A garbled command is
\* not a command; a garbled reply is a number of parse errors.
LoseCommand == /\ toDevice # <<>>
               /\ toDevice' = Tail(toDevice)
               /\ UNCHANGED <<toHost, workerVars, deviceVars, signals, guiVars>>

GarbleReply == /\ toHost # <<>> /\ Head(toHost) # "junk"
               /\ \E n \in 0..MaxJunk :
                    toHost' = [i \in 1..n |-> "junk"] \o Tail(toHost)
               /\ UNCHANGED <<toDevice, workerVars, deviceVars, signals, guiVars>>

\* The device loses its power and gets it back.
PowerCycle == /\ running' = Boot
              /\ toDevice' = <<>>
              /\ UNCHANGED <<toHost, mem, cfg, workerVars, signals, guiVars>>

Device == Serve \/ LoseCommand \/ GarbleReply \/ PowerCycle

Next == Start \/ Worker \/ Gui \/ Device

\* The thread runs until run() returns, every wait has its time limit, and
\* the GUI's event loop delivers what is queued.  Nothing is assumed of the
\* device, the cable or the user.
Fairness == WF_vars(Worker) /\ WF_vars(Gui)

Spec == Init /\ [][Next]_vars /\ Fairness

-----------------------------------------------------------------------------
\* The packets of the protocol that the worker sends, and those it can get.
Commands == {WriteCommand(p, d) : p \in Programmable, d \in {"blank", "image"}}
            \cup {PlainCommand(id) : id \in {"READ_DEV_ID", "READ_VERSION",
                   "READ_PGM_MEM", "WRITE_CFG_MEM", "RESET_PROCESSOR"}}
Replies == {"RSP_DEV_ID", "RSP_VERSION", "RSP_PGM_MEM", "RSP_ACK", "RSP_NACK", "junk"}
States  == {"Idle", "StartingFlash", "Flashing", "FlashFinished", "Error"}
Signals == {StateSignal(s) : s \in States} \cup {MessageSignal("reason")}

\* Only programmable pages are ever addressed, and their content is one of
\* the three that exist; in particular a protected page keeps its content.
TypeOK == /\ pc \in Ended \cup {"open"} \cup Asking
          /\ page \in Programmable
          /\ tries \in 0..(MaxTries - 1)
          /\ waiting \in BOOLEAN
          /\ toDevice \in Seq(Commands) /\ toHost \in Seq(Replies)
          /\ mem \in [Page -> {"loader", "old", "blank", "image"}]
          /\ cfg \in {"old", "image"}
          /\ running \in {"app", "bootloader"}
          /\ signals \in Seq(Signals)
          /\ state \in States /\ message \in {"none", "reason"}

\* The bootloader's own pages are never rewritten.
ProtectedKept == \A p \in Protected : mem[p] = "loader"

Holds(content) == \A p \in Programmable : mem[p] = content

\* A device never runs part of a firmware: whatever fails or is unplugged
\* during a flash, an application that runs is wholly the old or wholly the
\* new one (the reason page 0 is written last).
NeverRunsPartOfAFirmware ==
  running = "app" => Holds("old") \/ Holds("image")

\* The success that is reported is real: every page and the configuration
\* are the new ones, whatever was lost and retried on the way.
FinishedMeansFlashed ==
  state = "FlashFinished" => Holds("image") /\ cfg = "image"

\* Every started flash is eventually reported as finished or failed.
AlwaysReported == pc = "open" ~> state \in {"Error", "FlashFinished"}

-----------------------------------------------------------------------------
\* The strengthening of the two safety properties that is inductive when no
\* page wears out.  Its parts say what is on the cable, what the progress of
\* run() says about the memory, and what a late write may still find.

ReadDevId   == PlainCommand("READ_DEV_ID")
ReadVersion == PlainCommand("READ_VERSION")

\* Until the version has been read the cable may hold late device ids; the
\* reply to READ_VERSION, when there is one, is the last thing on it.
EarlyCable ==
  /\ pc \in {"idle", "open", "finished"} => toDevice = <<>>
  /\ pc = "idle" => toHost = <<>>
  /\ pc \in {"open", "devid"} \/ (pc = "version" /\ ~waiting) =>
       /\ \A i \in 1..Len(toDevice) : toDevice[i] = ReadDevId
       /\ \A i \in 1..Len(toHost) : toHost[i] # "RSP_VERSION"
  /\ pc = "version" /\ waiting =>
       /\ \A i \in 1..Len(toDevice) :
            \/ toDevice[i] = ReadDevId
            \/ toDevice[i] = ReadVersion /\ i = Len(toDevice)
       /\ \A i \in 1..Len(toHost) :
            toHost[i] = "RSP_VERSION" => i = Len(toHost) /\ toDevice = <<>>

Late == OneShot \ {"version"}

\* From then on the cable holds the one command that was just sent, or what
\* became of its reply.
LateCable ==
  /\ pc \in Late /\ ~waiting => toDevice = <<>> /\ toHost = <<>>
  /\ pc \in Late /\ waiting =>
       \/ toDevice = <<Command>> /\ toHost = <<>>
       \/ toDevice = <<>> /\ \A i \in 1..Len(toHost) :
                               toHost[i] = ExpectedReply => Len(toHost) = 1

\* A packet that is accepted is the reply to the command that was just sent,
\* though replies carry no sequence number and the device id is asked for
\* again and again.
RepliesMatch == EarlyCable /\ LateCable

\* A write that waits on the cable is alone there, and cannot make a partial
\* firmware bootable: the boot page is erased, or being written last.
PendingWrite ==
  \A i \in 1..Len(toDevice) : toDevice[i].id = "WRITE_PGM_MEM" =>
    /\ Len(toDevice) = 1
    /\ pc \in {"erase", "write", "boot", "failed"}
    /\ \/ toDevice[i].page = 0 /\ toDevice[i].data = "blank"
       \/ /\ toDevice[i].page # 0 /\ mem[0] = "blank"
       \/ /\ toDevice[i].page = 0 /\ toDevice[i].data = "image"
          /\ \A p \in Programmable \ {0} : mem[p] = "image"
          /\ mem[0] = "blank"

Below(content) == \A q \in Programmable \ {0} : q < page => mem[q] = content
Answered == waiting /\ toHost = <<"RSP_ACK">>

\* What has been acknowledged has been done.
Progress ==
  /\ pc = "erase" => /\ page # 0 => mem[0] = "blank"
                     /\ Answered => mem[page] = "blank"
  /\ pc = "write" => /\ page # 0 /\ mem[0] = "blank" /\ Below("image")
                     /\ Answered => mem[page] = "image"
  /\ pc = "boot"  => /\ \A q \in Programmable \ {0} : mem[q] = "image"
                     /\ mem[0] \in {"blank", "image"}
                     /\ toDevice # <<>> => mem[0] = "blank"
                     /\ ~waiting => mem[0] = "blank"
                     /\ Answered => mem[0] = "image"
  /\ pc \in {"verify", "config", "reset", "finished"} => Holds("image")
  /\ pc = "config" /\ Answered => cfg = "image"
  /\ pc \in {"reset", "finished"} => cfg = "image"

WholeOrNone == mem[0] = "blank" \/ Holds("old") \/ Holds("image")
Bootable    == running = "app" => mem[0] # "blank"

\* A success that is reported, or on its way to be, is that of the last flash.
Reported ==
  \/ state = "FlashFinished"
  \/ \E i \in 1..Len(signals) : signals[i] = StateSignal("FlashFinished")
  => pc = "finished"

IInv == TypeOK /\ ProtectedKept /\ RepliesMatch /\ PendingWrite
        /\ Progress /\ WholeOrNone /\ Bootable /\ Reported

\* What is promised of a flash, and what the state of a flash stands for.
Firmware == IF mem[0] = "blank" THEN "none"
            ELSE IF Holds("old") THEN "old"
            ELSE IF Holds("image") THEN "new" ELSE "mixed"

Outcome == IF pc \in Ended THEN pc ELSE "updating"

Promise == INSTANCE FirmwareUpdate WITH firmware <- Firmware, outcome <- Outcome

\* A flash keeps the promise of FirmwareUpdate.
KeepsPromise == Promise!Spec

-----------------------------------------------------------------------------
\* "set to true to read back and verify the firmware after programming the
\* device" (ping360flashworker.h): with verification, a flash that finished
\* left the firmware on the device, whatever the memory did.
VerifiedMeansEqual == pc = "finished" /\ Verify => Holds("image")

=============================================================================
