-------------------------- MODULE FlashWorkerProofs --------------------------
(***************************************************************************)
(* Proofs about FlashWorker, for any number of pages, attempts and parse   *)
(* errors, with and without verification; and, in the second part,         *)
(* about the parser that reads the replies, for every radix, buffer        *)
(* length, framing bytes and checksum function.                            *)
(***************************************************************************)
EXTENDS FlashWorker, BootloaderParser, SequenceTheorems, TLAPS

\* What holds of the cable whatever the memory does with what is written.
CableInv == TypeOK /\ ProtectedKept /\ RepliesMatch

-----------------------------------------------------------------------------
\* The pages of the loops: they start at a programmable page, go from one to
\* the next, and have met all of them when they end.
LEMMA PageFacts ==
  /\ Programmable \subseteq Page /\ Page \subseteq Nat
  /\ 0 \in Programmable /\ NBoot + 1 \in Programmable
  /\ \A q \in Programmable \ {0} : NBoot < q
BY FlashAssumption DEF Programmable, Page, Protected

LEMMA FollowingFacts ==
  ASSUME NEW p \in Programmable
  PROVE  /\ Following(p) < NPages => Following(p) \in Programmable \ {0}
         /\ \A q \in Programmable \ {0} :
              q < Following(p) \/ ~(Following(p) < NPages) => q = p \/ q < p
BY FlashAssumption DEF Programmable, Page, Protected, Following

\* The command of each point of run(), and what the device answers to it.
LEMMA CommandFacts ==
  ASSUME pc \in Asking
  PROVE  /\ pc = "devid"   => Command = ReadDevId
         /\ pc = "version" => Command = ReadVersion
         /\ pc = "erase"   => Command = WriteCommand(page, "blank")
         /\ pc = "write"   => Command = WriteCommand(page, "image")
         /\ pc = "boot"    => Command = WriteCommand(0, "image")
         /\ pc = "verify"  => Command = PlainCommand("READ_PGM_MEM")
         /\ pc = "config"  => Command = PlainCommand("WRITE_CFG_MEM")
         /\ pc = "reset"   => Command = PlainCommand("RESET_PROCESSOR")
BY DEF Command, Asking, OneShot, ReadDevId, ReadVersion

LEMMA CommandType ==
  ASSUME page \in Programmable, pc \in Asking
  PROVE  Command \in Commands
<1> USE DEF Commands
<1>1. CASE pc = "erase"
  BY <1>1, CommandFacts
<1>2. CASE pc = "write"
  BY <1>2, CommandFacts
<1>3. CASE pc = "boot"
  BY <1>3, CommandFacts, PageFacts
<1>4. CASE pc \notin {"erase", "write", "boot"}
  BY <1>4, CommandFacts DEF Asking, OneShot, ReadDevId, ReadVersion
<1>5. QED
  BY <1>1, <1>2, <1>3, <1>4

LEMMA ReplyFacts ==
  ASSUME NEW c \in Commands
  PROVE  /\ ReplyTo(c) \in Replies \ {"junk", "RSP_NACK"}
         /\ ReplyTo(c) = "RSP_VERSION" <=> c = ReadVersion
BY DEF ReplyTo, Commands, Replies, WriteCommand, PlainCommand, ReadVersion

\* What a garbled reply leaves: parse errors, and the replies behind it.
LEMMA GarbledFacts ==
  ASSUME NEW s \in Seq(Replies), s # <<>>, NEW n \in Nat,
         NEW t, t = [i \in 1..n |-> "junk"] \o Tail(s)
  PROVE  /\ t \in Seq(Replies) /\ Len(t) = n + Len(s) - 1
         /\ \A i \in 1..Len(t) : \/ i <= n /\ t[i] = "junk"
                                 \/ i > n /\ i - n + 1 \in 2..Len(s) /\ t[i] = s[i - n + 1]
<1> DEFINE j == [i \in 1..n |-> "junk"]
<1>1. j \in Seq(Replies) /\ Len(j) = n /\ \A i \in 1..n : j[i] = "junk"
  BY DEF Replies
<1>2. /\ Tail(s) \in Seq(Replies) /\ Len(Tail(s)) = Len(s) - 1 /\ Len(s) \in Nat
      /\ \A i \in 1..Len(Tail(s)) : Tail(s)[i] = s[i + 1]
  BY HeadTailProperties, LenProperties
<1> HIDE DEF j
<1>3. t = j \o Tail(s)
  BY DEF j
<1>4. QED
  BY <1>1, <1>2, <1>3, ConcatProperties

-----------------------------------------------------------------------------
\* The steps of run(): what each of them may do to the worker's variables.
Again == /\ tries + 1 < MaxTries /\ tries' = tries + 1
         /\ waiting' = FALSE /\ UNCHANGED <<pc, page, signals>>

LEMMA RefusedFacts ==
  ASSUME Refused
  PROVE  Error \/ (pc = "devid" /\ Again)
BY DEF Refused, Retry, Again

LEMMA AcceptedFacts ==
  ASSUME Accepted, pc \in Asking
  PROVE  \/ pc = "devid"   /\ Goto("version", 0)
         \/ pc = "version" /\ Error
         \/ /\ pc = "version" /\ pc' = "erase" /\ page' = 0 /\ waiting' = FALSE
            /\ signals' = Append(signals, StateSignal("Flashing")) /\ UNCHANGED tries
         \/ pc = "erase"   /\ Loop("erase", "write", NBoot + 1)
         \/ pc = "write"   /\ Loop("write", "boot", 0)
         \/ pc = "boot"    /\ (Goto("verify", 0) \/ Goto("config", 0))
         \/ pc = "verify"  /\ Loop("verify", "config", 0)
         \/ pc = "config"  /\ Goto("reset", 0)
         \/ /\ pc = "reset" /\ pc' = "finished" /\ waiting' = FALSE
            /\ signals' = Append(signals, StateSignal("FlashFinished"))
            /\ UNCHANGED <<page, tries>>
<1>1. CASE pc = "devid"
  BY <1>1 DEF Accepted
<1>2. CASE pc = "version"
  BY <1>2 DEF Accepted
<1>3. CASE pc = "erase"
  BY <1>3 DEF Accepted
<1>4. CASE pc = "write"
  BY <1>4 DEF Accepted
<1>5. CASE pc = "boot"
  BY <1>5 DEF Accepted
<1>6. CASE pc = "verify"
  BY <1>6 DEF Accepted
<1>7. CASE pc = "config"
  BY <1>7 DEF Accepted
<1>8. CASE pc = "reset"
  BY <1>8 DEF Accepted
<1>9. QED
  BY <1>1, <1>2, <1>3, <1>4, <1>5, <1>6, <1>7, <1>8 DEF Asking, OneShot

-----------------------------------------------------------------------------
\* The types, action by action.

LEMMA TriesFacts ==
  /\ 0 \in 0..(MaxTries - 1)
  /\ \A t \in 0..(MaxTries - 1) : t + 1 < MaxTries => t + 1 \in 0..(MaxTries - 1)
BY FlashAssumption

LEMMA InitType == Init => TypeOK
<1> SUFFICES ASSUME Init PROVE TypeOK
  OBVIOUS
<1>1. mem \in [Page -> {"loader", "old", "blank", "image"}]
  BY DEF Init
<1>2. tries \in 0..(MaxTries - 1)
  BY TriesFacts DEF Init
<1>3. waiting \in BOOLEAN /\ page \in Programmable
  BY PageFacts DEF Init
<1>4. toDevice \in Seq(Commands) /\ toHost \in Seq(Replies) /\ signals \in Seq(Signals)
  BY DEF Init
<1>5. QED
  BY <1>1, <1>2, <1>3, <1>4 DEF Init, TypeOK, Ended, States

LEMMA SignalTypes ==
  /\ \A s \in States : StateSignal(s) \in Signals /\ <<StateSignal(s)>> \in Seq(Signals)
  /\ <<MessageSignal("reason"), StateSignal("Error")>> \in Seq(Signals)
<1>1. \A s \in States : StateSignal(s) \in Signals
  BY DEF Signals
<1>2. MessageSignal("reason") \in Signals
  BY DEF Signals
<1>3. "Error" \in States
  BY DEF States
<1>4. QED
  BY <1>1, <1>2, <1>3

LEMMA StartType == TypeOK /\ Start => TypeOK'
<1> SUFFICES ASSUME TypeOK, Start PROVE TypeOK'
  OBVIOUS
<1>1. state' \in States /\ signals' \in Seq(Signals)
  BY SignalTypes DEF Start, States
<1>2. tries' \in 0..(MaxTries - 1) /\ page' \in Programmable /\ waiting' \in BOOLEAN
  BY TriesFacts, PageFacts DEF Start
<1>3. toHost' \in Seq(Replies) /\ running' \in {"app", "bootloader"}
  BY DEF Start, TypeOK
<1>4. QED
  BY <1>1, <1>2, <1>3 DEF Start, TypeOK

LEMMA ErrorType == TypeOK /\ Error =>
  /\ pc' = "failed" /\ page' \in Programmable /\ tries' \in 0..(MaxTries - 1)
  /\ waiting' \in BOOLEAN /\ signals' \in Seq(Signals)
<1> SUFFICES ASSUME TypeOK, Error
             PROVE  /\ pc' = "failed" /\ page' \in Programmable
                    /\ tries' \in 0..(MaxTries - 1)
                    /\ waiting' \in BOOLEAN /\ signals' \in Seq(Signals)
  OBVIOUS
<1>1. signals' \in Seq(Signals)
  BY SignalTypes, ConcatProperties DEF TypeOK, Error
<1>2. QED
  BY <1>1 DEF TypeOK, Error

LEMMA RefusedType == TypeOK /\ Refused =>
  /\ pc' \in {"failed", pc} /\ page' \in Programmable /\ tries' \in 0..(MaxTries - 1)
  /\ waiting' \in BOOLEAN /\ signals' \in Seq(Signals)
<1> SUFFICES ASSUME TypeOK, Refused
             PROVE  /\ pc' \in {"failed", pc} /\ page' \in Programmable
                    /\ tries' \in 0..(MaxTries - 1)
                    /\ waiting' \in BOOLEAN /\ signals' \in Seq(Signals)
  OBVIOUS
<1>1. CASE Error
  BY <1>1, ErrorType
<1>2. CASE Again
  <2>1. tries' \in 0..(MaxTries - 1)
    BY <1>2, TriesFacts DEF Again, TypeOK
  <2>2. QED
    BY <1>2, <2>1 DEF Again, TypeOK
<1>3. QED
  BY <1>1, <1>2, RefusedFacts

LEMMA LoopFacts ==
  ASSUME page \in Programmable, NEW here, NEW next, NEW first \in {0, NBoot + 1},
         Loop(here, next, first)
  PROVE  /\ \/ pc' = here /\ page' = Following(page) /\ page' \in Programmable \ {0}
               /\ Following(page) < NPages
            \/ pc' = next /\ page' = first /\ ~(Following(page) < NPages)
         /\ page' \in Programmable
         /\ waiting' = FALSE /\ UNCHANGED <<tries, signals>>
BY PageFacts, FollowingFacts DEF Loop, Goto

LEMMA AcceptedType == TypeOK /\ pc \in Asking /\ Accepted =>
  /\ pc' \in Ended \cup Asking /\ page' \in Programmable /\ tries' \in 0..(MaxTries - 1)
  /\ waiting' \in BOOLEAN /\ signals' \in Seq(Signals)
<1> SUFFICES ASSUME TypeOK, pc \in Asking, Accepted
             PROVE  /\ pc' \in Ended \cup Asking /\ page' \in Programmable
                    /\ tries' \in 0..(MaxTries - 1)
                    /\ waiting' \in BOOLEAN /\ signals' \in Seq(Signals)
  OBVIOUS
<1> USE DEF Ended, Asking, OneShot
<1>1. CASE pc \in {"devid", "boot", "config"}
  BY <1>1, AcceptedFacts, PageFacts DEF Goto, TypeOK
<1>2. CASE pc = "version"
  BY <1>2, AcceptedFacts, ErrorType, SignalTypes, PageFacts DEF TypeOK, States
<1>3. CASE pc \in {"erase", "write", "verify"}
  <2>1. PICK next \in {"write", "boot", "config"}, first \in {0, NBoot + 1} :
          Loop(pc, next, first)
    BY <1>3, AcceptedFacts
  <2>2. pc' \in {pc, next} /\ page' \in Programmable /\ waiting' = FALSE
        /\ UNCHANGED <<tries, signals>>
    BY <2>1, LoopFacts DEF TypeOK
  <2>3. QED
    BY <1>3, <2>1, <2>2 DEF TypeOK
<1>4. CASE pc = "reset"
  <2>1. /\ pc' = "finished" /\ waiting' = FALSE /\ UNCHANGED <<page, tries>>
        /\ signals' = Append(signals, StateSignal("FlashFinished"))
    BY <1>4 DEF Accepted
  <2>2. signals' \in Seq(Signals)
    BY <2>1, SignalTypes DEF TypeOK, States
  <2>3. QED
    BY <2>1, <2>2 DEF TypeOK
<1>5. QED
  BY <1>1, <1>2, <1>3, <1>4

LEMMA WorkerType == TypeOK /\ Worker => TypeOK'
<1> SUFFICES ASSUME TypeOK, Worker PROVE TypeOK'
  OBVIOUS
<1> USE DEF cableVars, deviceVars, guiVars
<1>1. CASE OpenPort
  <2>1. CASE Retry
    <3>1. Error \/ Again
      BY <2>1 DEF Retry, Again
    <3>2. CASE Error
      BY <1>1, <3>2, ErrorType DEF OpenPort, TypeOK, Ended
    <3>3. CASE Again
      <4>1. tries' \in 0..(MaxTries - 1)
        BY <3>3, TriesFacts DEF Again, TypeOK
      <4>2. QED
        BY <1>1, <3>3, <4>1 DEF OpenPort, TypeOK, Again
    <3>4. QED
      BY <3>1, <3>2, <3>3
  <2>2. CASE ~Retry
    BY <1>1, <2>2, TriesFacts DEF OpenPort, TypeOK, Asking
  <2>3. QED
    BY <2>1, <2>2
<1>2. CASE Send
  <2>1. toDevice' \in Seq(Commands)
    BY <1>2, CommandType DEF Send, TypeOK
  <2>2. QED
    BY <1>2, <2>1 DEF Send, TypeOK
<1>3. CASE Receive
  <2>1. toHost' \in Seq(Replies)
    BY <1>3, HeadTailProperties DEF Receive, TypeOK
  <2>2. CASE Accepted
    BY <1>3, <2>1, <2>2, AcceptedType DEF Receive, TypeOK
  <2>3. CASE Refused
    BY <1>3, <2>1, <2>3, RefusedType DEF Receive, TypeOK, Ended
  <2>4. QED
    BY <1>3, <2>2, <2>3 DEF Receive
<1>4. CASE Timeout
  BY <1>4, RefusedType DEF Timeout, TypeOK, Ended
<1>5. QED
  BY <1>1, <1>2, <1>3, <1>4 DEF Worker

LEMMA GuiType == TypeOK /\ Gui => TypeOK'
<1> SUFFICES ASSUME TypeOK, Gui PROVE TypeOK'
  OBVIOUS
<1>1. signals # <<>> /\ signals' = Tail(signals)
  BY DEF Gui, DeliverState, DeliverMessage
<1>2. Head(signals) \in Signals /\ signals' \in Seq(Signals)
  BY <1>1, HeadTailProperties DEF TypeOK
<1>3. CASE DeliverState
  BY <1>2, <1>3 DEF DeliverState, TypeOK, workerVars, cableVars, deviceVars, Signals,
     StateSignal, MessageSignal
<1>4. CASE DeliverMessage
  BY <1>2, <1>4 DEF DeliverMessage, TypeOK, workerVars, cableVars, deviceVars, Signals,
     StateSignal, MessageSignal
<1>5. QED
  BY <1>3, <1>4 DEF Gui

\* What a command can do to the memories.
LEMMA EffectFacts ==
  ASSUME TypeOK, NEW c \in Commands, Effect(c)
  PROVE  /\ \/ UNCHANGED mem
            \/ /\ c.id = "WRITE_PGM_MEM"
               /\ c.page \in Programmable /\ c.data \in {"blank", "image"}
               /\ mem' = [mem EXCEPT ![c.page] = c.data]
         /\ c.id = "WRITE_PGM_MEM" /\ ~MayWear => mem' = [mem EXCEPT ![c.page] = c.data]
         /\ cfg' \in {cfg, "image"}
         /\ running' \in {running, Boot}
         /\ c.id = "WRITE_CFG_MEM" => cfg' = "image"
         /\ c.id # "WRITE_CFG_MEM" => cfg' = cfg
         /\ c.id # "RESET_PROCESSOR" => running' = running
         /\ c.id = "RESET_PROCESSOR" => running' = Boot
<1>1. c.id = "WRITE_PGM_MEM" => c.page \in Programmable /\ c.data \in {"blank", "image"}
  BY DEF Commands, WriteCommand, PlainCommand
<1>2. CASE c.id = "WRITE_PGM_MEM"
  <2>1. /\ mem' = [mem EXCEPT ![c.page] = c.data] \/ (MayWear /\ UNCHANGED mem)
        /\ UNCHANGED <<cfg, running>>
    BY <1>2 DEF Effect
  <2>2. QED
    BY <1>1, <1>2, <2>1
<1>3. CASE c.id = "WRITE_CFG_MEM"
  <2>1. cfg' = "image" /\ UNCHANGED <<mem, running>>
    BY <1>3 DEF Effect
  <2>2. QED
    BY <1>3, <2>1
<1>4. CASE c.id = "RESET_PROCESSOR"
  <2>1. running' = Boot /\ UNCHANGED <<mem, cfg>>
    BY <1>4 DEF Effect
  <2>2. QED
    BY <1>4, <2>1
<1>5. CASE c.id \notin {"WRITE_PGM_MEM", "WRITE_CFG_MEM", "RESET_PROCESSOR"}
  <2>1. UNCHANGED deviceVars
    BY <1>5 DEF Effect, Commands, WriteCommand, PlainCommand
  <2>2. QED
    BY <1>5, <2>1 DEF deviceVars
<1>6. QED
  BY <1>2, <1>3, <1>4, <1>5

LEMMA DeviceType == TypeOK /\ Device => TypeOK'
<1> SUFFICES ASSUME TypeOK, Device PROVE TypeOK'
  OBVIOUS
<1> USE DEF deviceVars, workerVars, guiVars
<1>0. Boot \in {"app", "bootloader"}
  BY DEF Boot
<1>1. CASE Serve
  <2>1. Head(toDevice) \in Commands /\ toDevice' \in Seq(Commands)
    BY <1>1, HeadTailProperties DEF Serve, TypeOK
  <2>2. toHost' \in Seq(Replies)
    <3>1. ReplyTo(Head(toDevice)) \in Replies /\ "RSP_NACK" \in Replies
      BY <2>1, ReplyFacts DEF Replies
    <3>2. \/ toHost' = toHost
          \/ toHost' = Append(toHost, ReplyTo(Head(toDevice)))
          \/ toHost' = Append(toHost, "RSP_NACK")
      BY <1>1 DEF Serve
    <3>3. toHost \in Seq(Replies)
      BY DEF TypeOK
    <3>4. QED
      BY <3>1, <3>2, <3>3, AppendProperties
  <2>3. CASE Effect(Head(toDevice))
    <3>1. mem' \in [Page -> {"loader", "old", "blank", "image"}]
      BY <2>1, <2>3, EffectFacts, PageFacts DEF TypeOK
    <3>2. cfg' \in {"old", "image"} /\ running' \in {"app", "bootloader"}
      BY <1>0, <2>1, <2>3, EffectFacts DEF TypeOK
    <3>3. QED
      BY <1>1, <2>1, <2>2, <3>1, <3>2 DEF Serve, TypeOK
  <2>4. CASE UNCHANGED deviceVars
    BY <1>1, <2>1, <2>2, <2>4 DEF Serve, TypeOK
  <2>5. QED
    BY <1>1, <2>3, <2>4 DEF Serve
<1>2. CASE LoseCommand
  BY <1>2, HeadTailProperties DEF LoseCommand, TypeOK
<1>3. CASE GarbleReply
  <2>1. PICK n \in 0..MaxJunk : toHost' = [i \in 1..n |-> "junk"] \o Tail(toHost)
    BY <1>3 DEF GarbleReply
  <2>2. n \in Nat /\ toHost # <<>> /\ toHost \in Seq(Replies)
    BY <1>3, FlashAssumption DEF GarbleReply, TypeOK
  <2>3. toHost' \in Seq(Replies)
    BY <2>1, <2>2, GarbledFacts
  <2>4. QED
    BY <1>3, <2>3 DEF GarbleReply, TypeOK
<1>4. CASE PowerCycle
  BY <1>0, <1>4 DEF PowerCycle, TypeOK
<1>5. QED
  BY <1>1, <1>2, <1>3, <1>4 DEF Device

LEMMA StepType == TypeOK /\ [Next]_vars => TypeOK'
<1> SUFFICES ASSUME TypeOK, [Next]_vars PROVE TypeOK'
  OBVIOUS
<1>1. CASE Next
  BY <1>1, StartType, WorkerType, GuiType, DeviceType DEF Next
<1>2. CASE UNCHANGED vars
  BY <1>2 DEF vars, workerVars, cableVars, deviceVars, guiVars, TypeOK
<1>3. QED
  BY <1>1, <1>2

-----------------------------------------------------------------------------
\* The replies match: what is on the cable at each point of run().

LEMMA CableTypes == TypeOK =>
  /\ toDevice \in Seq(Commands) /\ toHost \in Seq(Replies)
  /\ Len(toDevice) \in Nat /\ Len(toHost) \in Nat
  /\ pc \in Ended \cup {"open"} \cup Asking /\ page \in Programmable
BY LenProperties DEF TypeOK

LEMMA SamePoint ==
  ASSUME UNCHANGED <<pc, page>>
  PROVE  Command' = Command /\ ExpectedReply' = ExpectedReply
BY DEF Command, ExpectedReply

\* Taking the first element of a sequence away.
LEMMA TailFacts ==
  ASSUME NEW S, NEW s \in Seq(S), s # <<>>
  PROVE  /\ Head(s) \in S /\ Head(s) = s[1] /\ Len(s) \in Nat \ {0}
         /\ Tail(s) \in Seq(S) /\ Len(Tail(s)) = Len(s) - 1
         /\ \A i \in 1..Len(Tail(s)) :
              /\ i + 1 \in 2..Len(s) /\ i + 1 \in 1..Len(s) /\ Tail(s)[i] = s[i + 1]
              /\ i + 1 = Len(s) => i = Len(Tail(s))
         /\ Len(s) = 1 => Tail(s) = <<>>
<1>1. Head(s) \in S /\ Head(s) = s[1] /\ Len(s) \in Nat \ {0}
  BY HeadTailProperties, LenProperties, EmptySeq, ElementOfSeq
<1>2. Tail(s) \in Seq(S) /\ Len(Tail(s)) = Len(s) - 1
      /\ \A i \in 1..Len(Tail(s)) : Tail(s)[i] = s[i + 1]
  BY HeadTailProperties
<1>3. Len(s) = 1 => Tail(s) = <<>>
  <2>1. Len(s) = 1 => Len(Tail(s)) = 0
    BY <1>2
  <2>2. QED
    BY <1>2, <2>1, EmptySeq
<1>4. ASSUME NEW m \in Nat \ {0}, NEW i \in 1..(m - 1)
      PROVE  /\ i + 1 \in 2..m /\ i + 1 \in 1..m
             /\ i + 1 = m => i = m - 1
  OBVIOUS
<1>5. QED
  BY <1>1, <1>2, <1>3, <1>4

\* A step that leaves the cable alone and does not go on, or gives up.
LEMMA IdleCable ==
  ASSUME RepliesMatch, UNCHANGED cableVars,
         \/ UNCHANGED <<pc, page, waiting>>
         \/ pc' = "failed"
         \/ pc = "open" /\ pc' = "devid"
         \/ pc \in {"open", "devid"} /\ pc' = pc
  PROVE  RepliesMatch'
<1> USE DEF RepliesMatch, EarlyCable, LateCable, cableVars
<1>1. CASE UNCHANGED <<pc, page, waiting>>
  BY <1>1, SamePoint
<1>2. CASE pc' = "failed"
  BY <1>2 DEF Late, OneShot
<1>3. CASE pc = "open" /\ pc' = "devid"
  BY <1>3 DEF Late, OneShot
<1>4. CASE pc \in {"open", "devid"} /\ pc' = pc
  BY <1>4 DEF Late, OneShot
<1>5. QED
  BY <1>1, <1>2, <1>3, <1>4

LEMMA StartCable == Start => RepliesMatch'
<1> SUFFICES ASSUME Start PROVE RepliesMatch'
  OBVIOUS
<1>1. pc' = "open" /\ toDevice' = <<>> /\ toHost' = <<>>
  BY DEF Start
<1>2. QED
  BY <1>1 DEF RepliesMatch, EarlyCable, LateCable, Late, OneShot

LEMMA OpenPortCable == RepliesMatch /\ OpenPort => RepliesMatch'
<1> SUFFICES ASSUME RepliesMatch, OpenPort PROVE RepliesMatch'
  OBVIOUS
<1>1. pc = "open" /\ UNCHANGED cableVars
  BY DEF OpenPort
<1>2. pc' \in {"devid", "open", "failed"}
  BY <1>1 DEF OpenPort, Retry, Error
<1>3. QED
  BY <1>1, <1>2, IdleCable

LEMMA SendCable == TypeOK /\ RepliesMatch /\ Send => RepliesMatch'
<1> SUFFICES ASSUME TypeOK, RepliesMatch, Send PROVE RepliesMatch'
  OBVIOUS
<1> USE DEF RepliesMatch, EarlyCable, LateCable
<1>1. /\ pc \in Asking /\ ~waiting /\ waiting' = TRUE
      /\ toDevice' = Append(toDevice, Command) /\ toHost' = toHost
      /\ UNCHANGED <<pc, page>>
  BY DEF Send
<1>2. /\ Len(toDevice') = Len(toDevice) + 1 /\ toDevice'[Len(toDevice) + 1] = Command
      /\ \A i \in 1..Len(toDevice) : toDevice'[i] = toDevice[i]
  BY <1>1, CableTypes, CommandType, AppendProperties
<1>3. CASE pc = "devid"
  <2>1. Command = ReadDevId
    BY <1>1, <1>3, CommandFacts
  <2>2. QED
    BY <1>1, <1>2, <1>3, <2>1, CableTypes DEF Late, OneShot
<1>4. CASE pc = "version"
  <2>1. Command = ReadVersion
    BY <1>1, <1>4, CommandFacts
  <2>2. /\ \A i \in 1..Len(toDevice) : toDevice[i] = ReadDevId
        /\ \A i \in 1..Len(toHost) : toHost[i] # "RSP_VERSION"
    BY <1>1, <1>4
  <2>3. QED
    BY <1>1, <1>2, <1>4, <2>1, <2>2, CableTypes DEF Late, OneShot
<1>5. CASE pc \in Late
  <2>1. toDevice = <<>> /\ toHost = <<>>
    BY <1>1, <1>5
  <2>2. toDevice' = <<Command>>
    BY <1>1, <2>1
  <2>3. QED
    BY <1>1, <1>5, <2>1, <2>2, SamePoint DEF Late, OneShot
<1>6. QED
  BY <1>1, <1>3, <1>4, <1>5 DEF Asking, Late

\* The command that was just sent is answered: the cable is empty.
Confirmed == toDevice = <<>> /\ toHost = <<ExpectedReply>>

\* A packet that is accepted is the reply to the last command, and the only
\* thing on the cable, but for the device ids.
LEMMA AcceptedIsReply ==
  ASSUME TypeOK, RepliesMatch, pc \in OneShot, waiting, toHost # <<>>,
         Head(toHost) = ExpectedReply
  PROVE  Confirmed /\ Tail(toHost) = <<>>
<1> USE DEF RepliesMatch, EarlyCable, LateCable
<1>1. /\ toHost[1] = ExpectedReply /\ 1 \in 1..Len(toHost)
      /\ Len(toHost) = 1 => Tail(toHost) = <<>> /\ toHost = <<toHost[1]>>
  BY CableTypes, TailFacts
<1>2. toDevice = <<>> /\ Len(toHost) = 1
  <2>1. CASE pc = "version"
    BY <1>1, <2>1 DEF ExpectedReply
  <2>2. CASE pc \in Late
    BY <1>1, <2>2
  <2>3. QED
    BY <2>1, <2>2 DEF Late
<1>3. QED
  BY <1>1, <1>2 DEF Confirmed

\* After an acceptance the cable is empty, or holds late device ids only.
LEMMA AcceptedCable ==
  ASSUME TypeOK, RepliesMatch, pc \in Asking, waiting, toHost # <<>>,
         Head(toHost) = ExpectedReply, Accepted,
         toHost' = Tail(toHost), toDevice' = toDevice
  PROVE  RepliesMatch'
<1> USE DEF RepliesMatch, EarlyCable, LateCable, Late, OneShot
<1>1. CASE pc = "devid"
  <2>1. pc' = "version" /\ waiting' = FALSE
    BY <1>1, AcceptedFacts DEF Goto
  <2>2. \A i \in 1..Len(toHost') : toHost'[i] # "RSP_VERSION"
    BY <1>1, TailFacts, CableTypes
  <2>3. QED
    BY <1>1, <2>1, <2>2
<1>2. CASE pc \in OneShot
  <2>1. toDevice' = <<>> /\ toHost' = <<>>
    BY <1>2, AcceptedIsReply DEF Confirmed
  <2>2. waiting' = FALSE /\ pc' \in Late \cup {"finished", "failed"}
    <3>1. CASE pc = "version"
      BY <3>1, AcceptedFacts DEF Error
    <3>2. CASE pc \in {"erase", "write", "verify"}
      <4>1. \/ Loop("erase", "write", NBoot + 1)
            \/ Loop("write", "boot", 0)
            \/ Loop("verify", "config", 0)
        BY <3>2, AcceptedFacts
      <4>2. waiting' = FALSE /\ pc' \in {"erase", "write", "boot", "verify", "config"}
        BY <4>1 DEF Loop, Goto
      <4>3. QED
        BY <4>2
    <3>3. CASE pc \in {"boot", "config", "reset"}
      BY <3>3, AcceptedFacts DEF Goto
    <3>4. QED
      BY <1>2, <3>1, <3>2, <3>3
  <2>3. QED
    BY <2>1, <2>2
<1>3. QED
  BY <1>1, <1>2 DEF Asking

\* After a refusal the device id is asked for again, or the flash failed.
LEMMA RefusedCable ==
  ASSUME TypeOK, RepliesMatch, Refused, toDevice' = toDevice,
         \/ toHost' = toHost
         \/ toHost # <<>> /\ toHost' = Tail(toHost)
  PROVE  RepliesMatch'
<1> USE DEF RepliesMatch, EarlyCable, LateCable, Late, OneShot
<1>1. CASE Error
  BY <1>1 DEF Error
<1>2. CASE pc = "devid" /\ Again
  <2>1. pc' = "devid" /\ waiting' = FALSE
    BY <1>2 DEF Again
  <2>2. \A i \in 1..Len(toHost') : toHost'[i] # "RSP_VERSION"
    BY <1>2, TailFacts, CableTypes
  <2>3. QED
    BY <1>2, <2>1, <2>2
<1>3. QED
  BY <1>1, <1>2, RefusedFacts

LEMMA WorkerCable == TypeOK /\ RepliesMatch /\ Worker => RepliesMatch'
<1> SUFFICES ASSUME TypeOK, RepliesMatch, Worker PROVE RepliesMatch'
  OBVIOUS
<1>1. CASE Receive
  BY <1>1, AcceptedCable, RefusedCable DEF Receive
<1>2. CASE Timeout
  BY <1>2, RefusedCable DEF Timeout, cableVars
<1>3. QED
  BY <1>1, <1>2, OpenPortCable, SendCable DEF Worker

\* The phases of run(), and what makes the replies match in each.
LEMMA PhaseFacts == TypeOK =>
  \/ pc \in Ended \cup {"open", "devid", "version"}
  \/ pc \in Late
BY DEF TypeOK, Ended, Asking, Late

LEMMA OnlyIdsMatch ==
  ASSUME pc' \in {"open", "devid"} \/ (pc' = "version" /\ ~waiting'),
         pc' = "open" => toDevice' = <<>>,
         \A i \in 1..Len(toDevice') : toDevice'[i] = ReadDevId,
         \A i \in 1..Len(toHost') : toHost'[i] # "RSP_VERSION"
  PROVE  RepliesMatch'
<1>1. EarlyCable'
  BY DEF EarlyCable, ReadDevId
<1>2. LateCable'
  BY DEF LateCable, Late, OneShot
<1>3. QED
  BY <1>1, <1>2 DEF RepliesMatch

LEMMA VersionMatches ==
  ASSUME pc' = "version", waiting',
         \A i \in 1..Len(toDevice') : \/ toDevice'[i] = ReadDevId
                                      \/ toDevice'[i] = ReadVersion /\ i = Len(toDevice'),
         \A i \in 1..Len(toHost') :
            toHost'[i] = "RSP_VERSION" => i = Len(toHost') /\ toDevice' = <<>>
  PROVE  RepliesMatch'
<1>1. EarlyCable'
  BY DEF EarlyCable, ReadDevId, ReadVersion
<1>2. LateCable'
  BY DEF LateCable, Late, OneShot
<1>3. QED
  BY <1>1, <1>2 DEF RepliesMatch

LEMMA LateMatches ==
  ASSUME pc' \in Late, waiting', toDevice' = <<>>,
         \A i \in 1..Len(toHost') : toHost'[i] = ExpectedReply' => Len(toHost') = 1
  PROVE  RepliesMatch'
<1>1. EarlyCable'
  BY DEF EarlyCable, Late, OneShot
<1>2. LateCable'
  BY DEF LateCable
<1>3. QED
  BY <1>1, <1>2 DEF RepliesMatch

\* A command that leaves the cable, with its answer, another or none.
LEMMA TakeCable ==
  ASSUME TypeOK, RepliesMatch, toDevice # <<>>, toDevice' = Tail(toDevice),
         UNCHANGED workerVars,
         \/ toHost' = toHost
         \/ toHost' = Append(toHost, "RSP_NACK")
         \/ toHost' = Append(toHost, ReplyTo(Head(toDevice)))
  PROVE  RepliesMatch'
<1>0. UNCHANGED <<pc, page, waiting>>
  BY DEF workerVars
<1>1. /\ Head(toDevice) \in Commands /\ Head(toDevice) = toDevice[1]
      /\ 1 \in 1..Len(toDevice)
      /\ \A i \in 1..Len(toDevice') : i + 1 \in 2..Len(toDevice)
                                      /\ toDevice'[i] = toDevice[i + 1]
      /\ Len(toDevice') = Len(toDevice) - 1
      /\ Len(toDevice) = 1 => toDevice' = <<>>
  BY CableTypes, TailFacts
<1>2. CASE pc \in {"idle", "open", "finished"} \/ (pc \in Late /\ ~waiting)
  BY <1>1, <1>2 DEF RepliesMatch, EarlyCable, LateCable
<1>3. CASE pc = "failed"
  BY <1>0, <1>3 DEF RepliesMatch, EarlyCable, LateCable, Late, OneShot
<1>4. \A i \in 1..Len(toHost') : toHost'[i] = "RSP_VERSION" =>
        \/ i \in 1..Len(toHost) /\ toHost[i] = "RSP_VERSION"
        \/ i = Len(toHost') /\ Head(toDevice) = ReadVersion
  <2>1. CASE toHost' = toHost
    BY <2>1
  <2>2. ASSUME NEW r \in Replies, toHost' = Append(toHost, r)
        PROVE  \A i \in 1..Len(toHost') : \/ i \in 1..Len(toHost) /\ toHost'[i] = toHost[i]
                                          \/ i = Len(toHost') /\ toHost'[i] = r
    BY <2>2, CableTypes, AppendProperties
  <2>3. /\ "RSP_NACK" \in Replies \ {"RSP_VERSION"} /\ ReplyTo(Head(toDevice)) \in Replies
        /\ ReplyTo(Head(toDevice)) = "RSP_VERSION" => Head(toDevice) = ReadVersion
    BY <1>1, ReplyFacts DEF Replies
  <2>4. QED
    BY <2>1, <2>2, <2>3
<1>5. ReadDevId # ReadVersion
  BY DEF ReadDevId, ReadVersion, PlainCommand
<1>6. CASE pc = "devid" \/ (pc = "version" /\ ~waiting)
  <2>0. /\ \A i \in 1..Len(toDevice) : toDevice[i] = ReadDevId
        /\ \A i \in 1..Len(toHost) : toHost[i] # "RSP_VERSION"
    BY <1>6 DEF RepliesMatch, EarlyCable
  <2>1. \A i \in 1..Len(toDevice') : toDevice'[i] = ReadDevId
    BY <1>1, <2>0
  <2>2. \A i \in 1..Len(toHost') : toHost'[i] # "RSP_VERSION"
    BY <1>1, <1>4, <1>5, <2>0
  <2>3. QED
    BY <1>0, <1>6, <2>1, <2>2, OnlyIdsMatch
<1>7. CASE pc = "version" /\ waiting
  <2>1. \A i \in 1..Len(toDevice') : \/ toDevice'[i] = ReadDevId
                                     \/ toDevice'[i] = ReadVersion /\ i = Len(toDevice')
    <3>1. \A i \in 1..Len(toDevice) : \/ toDevice[i] = ReadDevId
                                      \/ toDevice[i] = ReadVersion /\ i = Len(toDevice)
      BY <1>7 DEF RepliesMatch, EarlyCable
    <3>2. ASSUME NEW i \in 1..Len(toDevice')
          PROVE  /\ i + 1 \in 1..Len(toDevice) /\ toDevice'[i] = toDevice[i + 1]
                 /\ i + 1 = Len(toDevice) => i = Len(toDevice')
      BY CableTypes, TailFacts
    <3>3. QED
      BY <3>1, <3>2
  <2>2. \A i \in 1..Len(toHost) : toHost[i] # "RSP_VERSION"
    BY <1>1, <1>7 DEF RepliesMatch, EarlyCable
  <2>3. Head(toDevice) = ReadVersion => toDevice' = <<>>
    BY <1>1, <1>5, <1>7 DEF RepliesMatch, EarlyCable
  <2>4. QED
    BY <1>0, <1>4, <1>7, <2>1, <2>2, <2>3, VersionMatches
<1>8. CASE pc \in Late /\ waiting
  <2>1. toDevice = <<Command>> /\ toHost = <<>>
    BY <1>1, <1>8 DEF RepliesMatch, LateCable
  <2>2. toDevice' = <<>> /\ Len(toHost') \in {0, 1}
    BY <1>1, <2>1
  <2>3. QED
    BY <1>0, <1>8, <2>2, LateMatches
<1>9. QED
  BY <1>2, <1>3, <1>6, <1>7, <1>8, PhaseFacts DEF Ended

LEMMA GarbleCable == TypeOK /\ RepliesMatch /\ GarbleReply => RepliesMatch'
<1> SUFFICES ASSUME TypeOK, RepliesMatch, GarbleReply PROVE RepliesMatch'
  OBVIOUS
<1>0. UNCHANGED <<pc, page, waiting, toDevice>> /\ toHost # <<>>
  BY DEF GarbleReply, workerVars
<1>1. PICK n \in 0..MaxJunk : toHost' = [i \in 1..n |-> "junk"] \o Tail(toHost)
  BY DEF GarbleReply
<1>2. n \in Nat
  BY FlashAssumption
<1>3. /\ Len(toHost') = n + Len(toHost) - 1
      /\ \A i \in 1..Len(toHost') :
           \/ i <= n /\ toHost'[i] = "junk"
           \/ i > n /\ i - n + 1 \in 2..Len(toHost) /\ toHost'[i] = toHost[i - n + 1]
  BY <1>0, <1>1, <1>2, CableTypes, GarbledFacts
<1>4. ExpectedReply' = ExpectedReply /\ ExpectedReply # "junk"
  BY <1>0, SamePoint DEF ExpectedReply
<1>5. CASE pc \in Late /\ waiting
  <2>1. toDevice = <<>> /\ \A i \in 1..Len(toHost') : toHost'[i] # ExpectedReply
    <3>1. toDevice = <<>> /\ \A i \in 2..Len(toHost) : toHost[i] # ExpectedReply
      BY <1>0, <1>5, CableTypes DEF RepliesMatch, LateCable
    <3>2. QED
      BY <1>3, <1>4, <3>1
  <2>2. QED
    BY <1>0, <1>4, <1>5, <2>1, LateMatches
<1>6. CASE pc \in {"open", "devid"} \/ (pc = "version" /\ ~waiting)
  <2>1. \A i \in 1..Len(toHost') : toHost'[i] # "RSP_VERSION"
    BY <1>3, <1>6, CableTypes DEF RepliesMatch, EarlyCable
  <2>2. QED
    <3>1. \A i \in 1..Len(toDevice') : toDevice'[i] = ReadDevId
      BY <1>0, <1>6 DEF RepliesMatch, EarlyCable
    <3>2. pc' = "open" => toDevice' = <<>>
      BY <1>0 DEF RepliesMatch, EarlyCable
    <3>3. pc' \in {"open", "devid"} \/ (pc' = "version" /\ ~waiting')
      BY <1>0, <1>6
    <3>4. QED
      BY <2>1, <3>1, <3>2, <3>3, OnlyIdsMatch
<1>7. CASE pc = "version" /\ waiting
  <2>1. \A i \in 1..Len(toHost') :
          toHost'[i] = "RSP_VERSION" => i = Len(toHost') /\ toDevice = <<>>
    <3>1. \A i \in 1..Len(toHost) :
            toHost[i] = "RSP_VERSION" => i = Len(toHost) /\ toDevice = <<>>
      BY <1>7 DEF RepliesMatch, EarlyCable
    <3>2. ASSUME NEW i \in 1..Len(toHost'), toHost'[i] = "RSP_VERSION"
          PROVE  /\ i - n + 1 \in 1..Len(toHost) /\ toHost'[i] = toHost[i - n + 1]
                 /\ i - n + 1 = Len(toHost) => i = Len(toHost')
      BY <1>2, <1>3, <3>2, CableTypes
    <3>3. QED
      BY <3>1, <3>2
  <2>2. QED
    <3>1. \A i \in 1..Len(toDevice') : \/ toDevice'[i] = ReadDevId
                                       \/ toDevice'[i] = ReadVersion /\ i = Len(toDevice')
      BY <1>0, <1>7 DEF RepliesMatch, EarlyCable
    <3>2. QED
      BY <1>0, <1>7, <2>1, <3>1, VersionMatches
<1>8. CASE pc \in Ended \/ (pc \in Late /\ ~waiting)
  BY <1>0, <1>8 DEF RepliesMatch, EarlyCable, LateCable, Late, OneShot, Ended
<1>9. QED
  BY <1>5, <1>6, <1>7, <1>8, PhaseFacts DEF Ended

LEMMA DeviceCable == TypeOK /\ RepliesMatch /\ Device => RepliesMatch'
<1> SUFFICES ASSUME TypeOK, RepliesMatch, Device PROVE RepliesMatch'
  OBVIOUS
<1>1. CASE Serve
  BY <1>1, TakeCable DEF Serve
<1>2. CASE LoseCommand
  BY <1>2, TakeCable DEF LoseCommand
<1>3. CASE PowerCycle
  <2>1. UNCHANGED <<pc, page, waiting, toHost>> /\ toDevice' = <<>>
    BY <1>3 DEF PowerCycle, workerVars
  <2>2. EarlyCable'
    BY <2>1 DEF RepliesMatch, EarlyCable
  <2>3. LateCable'
    BY <2>1, SamePoint DEF RepliesMatch, LateCable
  <2>4. QED
    BY <2>2, <2>3 DEF RepliesMatch
<1>4. QED
  BY <1>1, <1>2, <1>3, GarbleCable DEF Device

-----------------------------------------------------------------------------
\* The bootloader's pages: what is written is on a programmable page.

LEMMA StepProtected == TypeOK /\ ProtectedKept /\ [Next]_vars => ProtectedKept'
<1> SUFFICES ASSUME TypeOK, ProtectedKept, [Next]_vars PROVE ProtectedKept'
  OBVIOUS
<1>1. CASE UNCHANGED mem
  BY <1>1 DEF ProtectedKept
<1>2. CASE Serve /\ Effect(Head(toDevice))
  <2>1. Head(toDevice) \in Commands
    BY <1>2, CableTypes, TailFacts DEF Serve
  <2>2. PICK q \in Programmable, d \in {"blank", "image"} :
          UNCHANGED mem \/ mem' = [mem EXCEPT ![q] = d]
    BY <1>2, <2>1, EffectFacts, PageFacts
  <2>3. mem \in [Page -> {"loader", "old", "blank", "image"}] /\ Protected \subseteq Page
    BY FlashAssumption DEF TypeOK, Page, Protected
  <2>4. \A p \in Protected : p # q
    BY DEF Programmable
  <2>5. QED
    BY <2>2, <2>3, <2>4 DEF ProtectedKept
<1>3. UNCHANGED mem \/ (Serve /\ Effect(Head(toDevice)))
  BY DEF Next, vars, workerVars, deviceVars, cableVars, guiVars, Start, Worker, OpenPort,
         Send, Receive, Timeout, Gui, DeliverState, DeliverMessage, Device, Serve,
         LoseCommand, GarbleReply, PowerCycle
<1>4. QED
  BY <1>1, <1>2, <1>3

LEMMA GuiCable == RepliesMatch /\ Gui => RepliesMatch'
BY IdleCable DEF Gui, DeliverState, DeliverMessage, workerVars

LEMMA InitCable == Init => CableInv
<1> SUFFICES ASSUME Init PROVE CableInv
  OBVIOUS
<1>1. ProtectedKept
  <2>1. Protected \subseteq Page
    BY FlashAssumption DEF Page, Protected
  <2>2. QED
    BY <2>1 DEF Init, ProtectedKept
<1>2. RepliesMatch
  BY DEF Init, RepliesMatch, EarlyCable, LateCable, Late, OneShot
<1>3. QED
  BY <1>1, <1>2, InitType DEF CableInv

LEMMA StepCable == CableInv /\ [Next]_vars => CableInv'
<1> SUFFICES ASSUME CableInv, [Next]_vars PROVE CableInv'
  OBVIOUS
<1> USE DEF CableInv
<1>1. RepliesMatch'
  <2>1. CASE UNCHANGED vars
    BY <2>1, IdleCable DEF vars, workerVars
  <2>2. CASE Next
    BY <2>2, StartCable, WorkerCable, GuiCable, DeviceCable DEF Next
  <2>3. QED
    BY <2>1, <2>2
<1>2. QED
  BY <1>1, StepType, StepProtected

\* A packet that is accepted answers the command that was just sent, and the
\* bootloader's own pages are never rewritten, whatever is lost, garbled,
\* late or worn out.
THEOREM CableInvariant == Spec => []CableInv
BY InitCable, StepCable, PTL DEF Spec

-----------------------------------------------------------------------------
\* The memory: what has been acknowledged has been done, and no write that is
\* still on the cable makes a part of a firmware bootable.

Memory == PendingWrite /\ Progress /\ WholeOrNone /\ Bootable

\* A command on the cable late in a flash is the one that was just sent.
LEMMA LateCommand ==
  ASSUME TypeOK, RepliesMatch, pc \in Late, toDevice # <<>>
  PROVE  /\ waiting /\ toDevice = <<Command>> /\ toHost = <<>>
         /\ Head(toDevice) = Command /\ Tail(toDevice) = <<>>
<1>1. waiting /\ toDevice = <<Command>> /\ toHost = <<>>
  BY DEF RepliesMatch, LateCable
<1>2. QED
  BY <1>1

\* The commands that are not writes, and the writes.
LEMMA WriteFacts ==
  /\ ReadDevId.id # "WRITE_PGM_MEM" /\ ReadVersion.id # "WRITE_PGM_MEM"
  /\ \A p, d : /\ WriteCommand(p, d).id = "WRITE_PGM_MEM"
               /\ WriteCommand(p, d).page = p /\ WriteCommand(p, d).data = d
  /\ \A id : PlainCommand(id).id = id
BY DEF ReadDevId, ReadVersion, WriteCommand, PlainCommand

\* Behind another command there is no write.
LEMMA NoWriteBehind ==
  ASSUME TypeOK, PendingWrite, toDevice # <<>>
  PROVE  \A i \in 1..Len(Tail(toDevice)) : Tail(toDevice)[i].id # "WRITE_PGM_MEM"
<1>1. ASSUME NEW i \in 1..Len(Tail(toDevice)), Tail(toDevice)[i].id = "WRITE_PGM_MEM"
      PROVE  FALSE
  <2>1. /\ i + 1 \in 1..Len(toDevice) /\ toDevice[i + 1].id = "WRITE_PGM_MEM"
        /\ Len(Tail(toDevice)) = Len(toDevice) - 1
    BY <1>1, CableTypes, TailFacts
  <2>2. Len(toDevice) = 1
    BY <2>1 DEF PendingWrite
  <2>3. QED
    BY <1>1, <2>1, <2>2
<1>2. QED
  BY <1>1

\* Where the memory and the point of run() stay, or nothing depends on them.
LEMMA QuietMemory ==
  ASSUME Memory, UNCHANGED deviceVars,
         \/ pc' \in Ended \cup {"open", "devid", "version"} /\ pc' # "finished"
         \/ UNCHANGED <<pc, page, waiting>>,
         pc \in {"erase", "write", "boot", "config"} /\ Answered' => Answered,
         toDevice' # <<>> => toDevice # <<>>,
         \A i \in 1..Len(toDevice') : toDevice'[i].id = "WRITE_PGM_MEM" =>
            pc' \in {pc, "failed"} /\ toDevice' = toDevice
  PROVE  Memory'
<1> USE DEF Memory, deviceVars
<1>1. WholeOrNone' /\ Bootable'
  BY DEF WholeOrNone, Bootable, Holds
<1>2. Progress'
  <2>1. CASE pc' \in Ended \cup {"open", "devid", "version"} /\ pc' # "finished"
    BY <2>1 DEF Progress, Ended
  <2>2. CASE UNCHANGED <<pc, page, waiting>>
    BY <2>2 DEF Progress, Below, Holds
  <2>3. QED
    BY <2>1, <2>2
<1>3. PendingWrite'
  BY DEF PendingWrite
<1>4. QED
  BY <1>1, <1>2, <1>3

LEMMA StartMemory == Memory /\ Start => Memory'
<1> SUFFICES ASSUME Memory, Start PROVE Memory'
  OBVIOUS
<1>1. pc' = "open" /\ toDevice' = <<>> /\ UNCHANGED mem /\ running' \in {running, "bootloader"}
  BY DEF Start
<1>2. PendingWrite' /\ Progress'
  BY <1>1 DEF PendingWrite, Progress
<1>3. WholeOrNone' /\ Bootable'
  BY <1>1 DEF Memory, WholeOrNone, Bootable, Holds
<1>4. QED
  BY <1>2, <1>3 DEF Memory

LEMMA OpenPortMemory == RepliesMatch /\ Memory /\ OpenPort => Memory'
<1> SUFFICES ASSUME RepliesMatch, Memory, OpenPort PROVE Memory'
  OBVIOUS
<1>1. pc = "open" /\ UNCHANGED <<cableVars, deviceVars>>
  BY DEF OpenPort
<1>2. pc' \in {"devid", "open", "failed"}
  BY <1>1 DEF OpenPort, Retry, Error
<1>3. toDevice' = <<>>
  BY <1>1 DEF RepliesMatch, EarlyCable, cableVars
<1>4. QED
  BY <1>1, <1>2, <1>3, QuietMemory DEF Ended

LEMMA SendMemory == TypeOK /\ RepliesMatch /\ Memory /\ Send => Memory'
<1> SUFFICES ASSUME TypeOK, RepliesMatch, Memory, Send PROVE Memory'
  OBVIOUS
<1>1. /\ pc \in Asking /\ ~waiting /\ toDevice' = Append(toDevice, Command) /\ toHost' = toHost
      /\ UNCHANGED <<pc, page>> /\ UNCHANGED <<mem, cfg, running>>
  BY DEF Send, deviceVars
<1>2. CASE pc \in {"devid", "version"}
  <2>1. Command \in {ReadDevId, ReadVersion}
    BY <1>1, <1>2, CommandFacts
  <2>2. \A i \in 1..Len(toDevice) : toDevice[i] = ReadDevId
    BY <1>1, <1>2 DEF RepliesMatch, EarlyCable
  <2>3. \A i \in 1..Len(toDevice') : toDevice'[i] \in {ReadDevId, ReadVersion}
    BY <1>1, <2>1, <2>2, CableTypes, CommandType, AppendProperties
  <2>4. PendingWrite'
    BY <2>3, WriteFacts DEF PendingWrite
  <2>5. Progress'
    BY <1>1, <1>2 DEF Progress
  <2>6. QED
    BY <1>1, <2>4, <2>5 DEF Memory, WholeOrNone, Bootable, Holds
<1>3. CASE pc \in Late
  <2>1. toDevice = <<>> /\ toHost = <<>>
    BY <1>1, <1>3 DEF RepliesMatch, LateCable
  <2>2. toDevice' = <<Command>> /\ Len(toDevice') = 1 /\ ~Answered'
    BY <1>1, <2>1 DEF Answered
  <2>3. Command.id = "WRITE_PGM_MEM" =>
          /\ pc \in {"erase", "write", "boot"}
          /\ \/ Command.page = 0 /\ Command.data = "blank"
             \/ Command.page # 0 /\ mem[0] = "blank"
             \/ /\ Command.page = 0 /\ Command.data = "image"
                /\ \A p \in Programmable \ {0} : mem[p] = "image"
                /\ mem[0] = "blank"
    <3>1. CASE pc = "erase"
      BY <1>1, <3>1, CommandFacts, WriteFacts DEF Memory, Progress
    <3>2. CASE pc = "write"
      BY <1>1, <3>2, CommandFacts, WriteFacts DEF Memory, Progress
    <3>3. CASE pc = "boot"
      BY <1>1, <3>3, CommandFacts, WriteFacts DEF Memory, Progress
    <3>4. CASE pc \in {"verify", "config", "reset"}
      BY <1>1, <3>4, CommandFacts, WriteFacts
    <3>5. QED
      BY <1>3, <3>1, <3>2, <3>3, <3>4 DEF Late, OneShot
  <2>4. PendingWrite'
    BY <1>1, <2>2, <2>3 DEF PendingWrite
  <2>5. Progress'
    BY <1>1, <2>2 DEF Memory, Progress, Below, Holds
  <2>6. QED
    BY <1>1, <2>4, <2>5 DEF Memory, WholeOrNone, Bootable, Holds
<1>4. QED
  BY <1>1, <1>2, <1>3 DEF Asking, Late

LEMMA RefusedMemory ==
  ASSUME TypeOK, RepliesMatch, Memory, Refused, UNCHANGED deviceVars, toDevice' = toDevice
  PROVE  Memory'
<1>1. CASE Error
  <2>1. pc' = "failed" /\ ~waiting'
    BY <1>1 DEF Error
  <2>2. QED
    BY <2>1, QuietMemory DEF Ended, Answered
<1>2. CASE pc = "devid" /\ Again
  <2>1. pc' = "devid"
    BY <1>2 DEF Again
  <2>2. QED
    BY <1>2, <2>1, QuietMemory DEF Ended
<1>3. QED
  BY <1>1, <1>2, RefusedFacts

\* Each acceptance carries over what the command has done.
LEMMA AcceptedMemory ==
  ASSUME TypeOK, RepliesMatch, Memory, pc \in Asking, waiting, toHost # <<>>,
         Head(toHost) = ExpectedReply, Accepted,
         UNCHANGED <<toDevice, deviceVars>>
  PROVE  Memory'
<1>0. UNCHANGED <<mem, cfg, running>>
  BY DEF deviceVars
<1>1. WholeOrNone' /\ Bootable'
  BY <1>0 DEF Memory, WholeOrNone, Bootable, Holds
<1>2. PendingWrite'
  <2>1. CASE pc = "devid"
    <3>1. \A i \in 1..Len(toDevice) : toDevice[i] = ReadDevId
      BY <2>1 DEF RepliesMatch, EarlyCable
    <3>2. QED
      BY <3>1, WriteFacts DEF PendingWrite
  <2>2. CASE pc \in OneShot
    <3>1. toDevice' = <<>>
      BY <2>2, AcceptedIsReply DEF Confirmed
    <3>2. QED
      BY <3>1 DEF PendingWrite
  <2>3. QED
    BY <2>1, <2>2 DEF Asking
<1>3. Progress'
  <2>1. CASE pc = "devid"
    <3>1. pc' = "version"
      BY <2>1, AcceptedFacts DEF Goto
    <3>2. QED
      BY <3>1 DEF Progress
  <2>2. CASE pc = "version"
    <3>1. \/ pc' = "failed"
          \/ pc' = "erase" /\ page' = 0 /\ ~waiting'
      BY <2>2, AcceptedFacts DEF Error
    <3>2. CASE pc' = "failed"
      BY <3>2 DEF Progress
    <3>3. CASE pc' = "erase" /\ page' = 0 /\ ~waiting'
      BY <3>3 DEF Progress, Answered
    <3>4. QED
      BY <3>1, <3>2, <3>3
  <2>3. CASE pc = "erase"
    <3>1. Answered
      BY <2>3, AcceptedIsReply DEF Confirmed, Answered, ExpectedReply, OneShot
    <3>2. mem[0] = "blank"
      BY <2>3, <3>1 DEF Memory, Progress
    <3>3. Loop("erase", "write", NBoot + 1)
      BY <2>3, AcceptedFacts
    <3>4. CASE pc' = "erase" /\ ~waiting'
      BY <1>0, <3>2, <3>4 DEF Progress, Answered
    <3>5. CASE pc' = "write" /\ page' = NBoot + 1 /\ ~waiting'
      <4>1. page' # 0 /\ Below("image")'
        BY <3>5, PageFacts, FlashAssumption DEF Below
      <4>2. QED
        BY <1>0, <3>2, <3>5, <4>1 DEF Progress, Answered
    <3>6. QED
      BY <3>3, <3>4, <3>5 DEF Loop, Goto
  <2>4. CASE pc = "write"
    <3>1. Answered
      BY <2>4, AcceptedIsReply DEF Confirmed, Answered, ExpectedReply, OneShot
    <3>2. mem[0] = "blank" /\ mem[page] = "image" /\ Below("image")
      BY <2>4, <3>1 DEF Memory, Progress
    <3>3. Loop("write", "boot", 0)
      BY <2>4, AcceptedFacts
    <3>4. CASE /\ Following(page) < NPages
               /\ pc' = "write" /\ page' = Following(page) /\ ~waiting'
      <4>1. page' # 0 /\ Below("image")'
        BY <1>0, <3>2, <3>4, CableTypes, FollowingFacts DEF Below
      <4>2. QED
        BY <1>0, <3>2, <3>4, <4>1 DEF Progress, Answered
    <3>5. CASE /\ ~(Following(page) < NPages) /\ pc' = "boot" /\ ~waiting'
      <4>1. \A q \in Programmable \ {0} : mem[q] = "image"
        BY <3>2, <3>5, CableTypes, FollowingFacts DEF Below
      <4>2. QED
        BY <1>0, <3>2, <3>5, <4>1 DEF Progress, Answered
    <3>6. QED
      BY <3>3, <3>4, <3>5 DEF Loop, Goto
  <2>5. CASE pc = "boot"
    <3>1. Answered
      BY <2>5, AcceptedIsReply DEF Confirmed, Answered, ExpectedReply, OneShot
    <3>2. Holds("image")
      BY <2>5, <3>1 DEF Memory, Progress, Holds
    <3>3. pc' \in {"verify", "config"} /\ ~waiting'
      BY <2>5, AcceptedFacts DEF Goto
    <3>4. QED
      BY <1>0, <3>2, <3>3 DEF Progress, Holds, Answered
  <2>6. CASE pc = "verify"
    <3>1. Holds("image")
      BY <2>6 DEF Memory, Progress
    <3>2. Loop("verify", "config", 0)
      BY <2>6, AcceptedFacts
    <3>3. pc' \in {"verify", "config"} /\ ~waiting'
      BY <3>2 DEF Loop, Goto
    <3>4. QED
      BY <1>0, <3>1, <3>3 DEF Progress, Holds, Answered
  <2>7. CASE pc = "config"
    <3>1. Answered
      BY <2>7, AcceptedIsReply DEF Confirmed, Answered, ExpectedReply, OneShot
    <3>2. Holds("image") /\ cfg = "image"
      BY <2>7, <3>1 DEF Memory, Progress
    <3>3. pc' = "reset" /\ ~waiting'
      BY <2>7, AcceptedFacts DEF Goto
    <3>4. QED
      BY <1>0, <3>2, <3>3 DEF Progress, Holds, Answered
  <2>8. CASE pc = "reset"
    <3>1. Holds("image") /\ cfg = "image"
      BY <2>8 DEF Memory, Progress
    <3>2. pc' = "finished"
      BY <2>8, AcceptedFacts
    <3>3. QED
      BY <1>0, <3>1, <3>2 DEF Progress, Holds
  <2>9. QED
    BY <2>1, <2>2, <2>3, <2>4, <2>5, <2>6, <2>7, <2>8 DEF Asking, OneShot
<1>4. QED
  BY <1>1, <1>2, <1>3 DEF Memory

LEMMA WorkerMemory == TypeOK /\ RepliesMatch /\ Memory /\ Worker => Memory'
<1> SUFFICES ASSUME TypeOK, RepliesMatch, Memory, Worker PROVE Memory'
  OBVIOUS
<1>1. CASE Receive
  BY <1>1, AcceptedMemory, RefusedMemory DEF Receive
<1>2. CASE Timeout
  BY <1>2, RefusedMemory DEF Timeout, cableVars
<1>3. QED
  BY <1>1, <1>2, OpenPortMemory, SendMemory DEF Worker

LEMMA GuiMemory == Memory /\ Gui => Memory'
<1> SUFFICES ASSUME Memory, Gui PROVE Memory'
  OBVIOUS
<1>1. UNCHANGED <<workerVars, cableVars, deviceVars>>
  BY DEF Gui, DeliverState, DeliverMessage
<1>2. QED
  BY <1>1, QuietMemory DEF workerVars, cableVars, Answered

\* The write at the head of the cable is done.
LEMMA WriteMemory ==
  ASSUME ~MayWear, TypeOK, RepliesMatch, Memory, Serve, running = "bootloader",
         Effect(Head(toDevice)), Head(toDevice).id = "WRITE_PGM_MEM"
  PROVE  Memory'
<1> DEFINE c == Head(toDevice)
<1>1. /\ c \in Commands /\ c = toDevice[1] /\ 1 \in 1..Len(toDevice)
      /\ Len(toDevice) = 1 => Tail(toDevice) = <<>>
  BY CableTypes, TailFacts DEF Serve
<1>2. /\ c.page \in Programmable
      /\ mem' = [mem EXCEPT ![c.page] = c.data] /\ cfg' = cfg /\ running' = running
  BY <1>1, EffectFacts, WriteFacts DEF Commands
<1>3. UNCHANGED <<pc, page, waiting>> /\ toDevice' = Tail(toDevice)
  BY DEF Serve, workerVars
<1>4. /\ Len(toDevice) = 1
      /\ pc \in {"erase", "write", "boot", "failed"}
      /\ \/ c.page = 0 /\ c.data = "blank"
         \/ c.page # 0 /\ mem[0] = "blank"
         \/ /\ c.page = 0 /\ c.data = "image" /\ mem[0] = "blank"
            /\ \A p \in Programmable \ {0} : mem[p] = "image"
  BY <1>1 DEF Memory, PendingWrite
<1>5. toDevice' = <<>>
  BY <1>1, <1>3, <1>4
<1>6. pc # "failed" => waiting /\ c = Command
  <2>1. toDevice # <<>>
    BY DEF Serve
  <2>2. QED
    BY <1>4, <2>1, LateCommand DEF Late, OneShot
<1>7. \A p \in Programmable : mem'[p] = IF p = c.page THEN c.data ELSE mem[p]
  BY <1>2, PageFacts DEF TypeOK
<1> HIDE DEF c
<1>8. PendingWrite'
  BY <1>5 DEF PendingWrite
<1>9. Bootable'
  BY <1>2 DEF Bootable
<1>10. WholeOrNone'
  <2>1. CASE c.page = 0 /\ c.data = "blank"
    BY <1>7, <2>1, PageFacts DEF WholeOrNone
  <2>2. CASE c.page # 0 /\ mem[0] = "blank"
    BY <1>7, <2>2, PageFacts DEF WholeOrNone
  <2>3. CASE /\ c.page = 0 /\ c.data = "image"
             /\ \A p \in Programmable \ {0} : mem[p] = "image"
    <3>1. \A p \in Programmable : mem'[p] = "image"
      BY <1>7, <2>3
    <3>2. QED
      BY <3>1 DEF WholeOrNone, Holds
  <2>4. QED
    BY <1>4, <2>1, <2>2, <2>3
<1>11. Progress'
  <2>1. CASE pc = "erase"
    <3>1. c.page = page /\ c.data = "blank"
      BY <1>6, <2>1, CommandFacts, WriteFacts DEF Asking, OneShot
    <3>2. mem'[0] = "blank" /\ mem'[page] = "blank"
      BY <1>2, <1>4, <1>7, <3>1, PageFacts
    <3>3. QED
      BY <1>3, <2>1, <3>2 DEF Progress
  <2>2. CASE pc = "write"
    <3>1. c.page = page /\ c.data = "image"
      BY <1>6, <2>2, CommandFacts, WriteFacts DEF Asking, OneShot
    <3>2. page # 0 /\ mem[0] = "blank" /\ Below("image")
      BY <2>2 DEF Memory, Progress
    <3>3. mem'[0] = "blank" /\ mem'[page] = "image"
      BY <1>2, <1>7, <3>1, <3>2, PageFacts
    <3>4. Below("image")'
      BY <1>3, <1>7, <3>1, <3>2 DEF Below
    <3>5. QED
      BY <1>3, <2>2, <3>2, <3>3, <3>4 DEF Progress
  <2>3. CASE pc = "boot"
    <3>1. c.page = 0 /\ c.data = "image"
      BY <1>6, <2>3, CommandFacts, WriteFacts DEF Asking, OneShot
    <3>2. \A q \in Programmable \ {0} : mem[q] = "image"
      BY <2>3 DEF Memory, Progress
    <3>3. QED
      BY <1>3, <1>5, <1>6, <1>7, <2>3, <3>1, <3>2, PageFacts DEF Progress
  <2>4. CASE pc = "failed"
    BY <1>3, <2>4 DEF Progress
  <2>5. QED
    BY <1>4, <2>1, <2>2, <2>3, <2>4
<1>12. QED
  BY <1>8, <1>9, <1>10, <1>11 DEF Memory

\* The other commands, and the answers that are not earned by one.
LEMMA ServeMemory == ~MayWear /\ TypeOK /\ RepliesMatch /\ Memory /\ Serve => Memory'
<1> SUFFICES ASSUME ~MayWear, TypeOK, RepliesMatch, Memory, Serve PROVE Memory'
  OBVIOUS
<1> DEFINE c == Head(toDevice)
<1>1. /\ toDevice # <<>> /\ toDevice' = Tail(toDevice) /\ UNCHANGED <<pc, page, waiting>>
      /\ c \in Commands
  BY CableTypes, TailFacts DEF Serve, workerVars
<1>2. \A i \in 1..Len(toDevice') : toDevice'[i].id # "WRITE_PGM_MEM"
  BY <1>1, NoWriteBehind DEF Memory
<1>3. PendingWrite'
  BY <1>2 DEF PendingWrite
<1>4. pc \in Late => /\ waiting /\ c = Command /\ toHost = <<>> /\ toDevice' = <<>>
  BY <1>1, LateCommand
<1>5. CASE running = "app" /\ UNCHANGED <<toHost, deviceVars>>
  BY <1>1, <1>2, <1>5, QuietMemory DEF Answered
<1>6. CASE toHost' = Append(toHost, "RSP_NACK") /\ UNCHANGED deviceVars
  <2>1. pc \in Late => ~Answered'
    BY <1>4, <1>6 DEF Answered
  <2>2. QED
    BY <1>1, <1>2, <1>6, <2>1, QuietMemory DEF Late, OneShot
<1>7. CASE running = "bootloader" /\ Effect(c)
  <2>1. CASE c.id = "WRITE_PGM_MEM"
    BY <1>7, <2>1, WriteMemory
  <2>2. CASE c.id # "WRITE_PGM_MEM"
    <3>1. pc \notin {"erase", "write", "boot"}
      BY <1>4, <2>2, CommandFacts, WriteFacts DEF Late, OneShot, Asking
    <3>2. /\ mem' = mem /\ cfg' \in {cfg, "image"} /\ running' \in {running, Boot}
          /\ c.id = "WRITE_CFG_MEM" => cfg' = "image"
      BY <1>1, <1>7, <2>2, EffectFacts
    <3>3. pc = "config" => c.id = "WRITE_CFG_MEM"
      BY <1>4, CommandFacts, WriteFacts DEF Late, OneShot, Asking
    <3>4. WholeOrNone'
      BY <3>2 DEF Memory, WholeOrNone, Holds
    <3>5. Bootable'
      BY <3>2 DEF Memory, Bootable, Boot
    <3>6. Progress'
      <4>1. pc \in {"verify", "config", "reset", "finished"} => Holds("image")'
        BY <3>2 DEF Memory, Progress, Holds
      <4>2. pc = "config" => cfg' = "image"
        BY <3>2, <3>3
      <4>3. pc \in {"reset", "finished"} => cfg' = "image"
        BY <3>2 DEF Memory, Progress
      <4>4. QED
        BY <1>1, <3>1, <4>1, <4>2, <4>3 DEF Progress
    <3>7. QED
      BY <1>3, <3>4, <3>5, <3>6 DEF Memory
  <2>3. QED
    BY <2>1, <2>2
<1>8. QED
  BY <1>5, <1>6, <1>7 DEF Serve

LEMMA GarbleMemory == TypeOK /\ RepliesMatch /\ Memory /\ GarbleReply => Memory'
<1> SUFFICES ASSUME TypeOK, RepliesMatch, Memory, GarbleReply PROVE Memory'
  OBVIOUS
<1>1. /\ toHost # <<>> /\ Head(toHost) # "junk"
      /\ UNCHANGED <<pc, page, waiting, toDevice>> /\ UNCHANGED deviceVars
  BY DEF GarbleReply, workerVars
<1>2. PICK n \in 0..MaxJunk : toHost' = [i \in 1..n |-> "junk"] \o Tail(toHost)
  BY DEF GarbleReply
<1>3. n \in Nat
  BY FlashAssumption
<1>4. /\ Len(toHost') = n + Len(toHost) - 1
      /\ \A i \in 1..Len(toHost') :
           \/ i <= n /\ toHost'[i] = "junk"
           \/ i > n /\ i - n + 1 \in 2..Len(toHost) /\ toHost'[i] = toHost[i - n + 1]
  BY <1>1, <1>2, <1>3, CableTypes, GarbledFacts
<1>5. pc \in {"erase", "write", "boot", "config"} => ~Answered'
  <2>1. SUFFICES ASSUME pc \in {"erase", "write", "boot", "config"}, Answered'
                 PROVE  FALSE
    OBVIOUS
  <2>2. Len(toHost') = 1 /\ toHost'[1] = "RSP_ACK" /\ waiting
    BY <1>1, <2>1 DEF Answered
  <2>3. ExpectedReply = "RSP_ACK"
    BY <2>1 DEF ExpectedReply
  <2>4. \A i \in 1..Len(toHost) : toHost[i] = "RSP_ACK" => Len(toHost) = 1
    BY <1>1, <2>1, <2>2, <2>3 DEF RepliesMatch, LateCable, Late, OneShot
  <2>5. 1 - n + 1 \in 2..Len(toHost) /\ toHost[1 - n + 1] = "RSP_ACK"
    <3>1. 1 \in 1..Len(toHost')
      BY <2>2
    <3>2. toHost'[1] # "junk"
      BY <2>2
    <3>3. QED
      BY <1>4, <2>2, <3>1, <3>2
  <2>6. QED
    BY <1>3, <2>4, <2>5, CableTypes
<1>6. QED
  BY <1>1, <1>5, QuietMemory

LEMMA DeviceMemory == ~MayWear /\ TypeOK /\ RepliesMatch /\ Memory /\ Device => Memory'
<1> SUFFICES ASSUME ~MayWear, TypeOK, RepliesMatch, Memory, Device PROVE Memory'
  OBVIOUS
<1>1. CASE LoseCommand
  <2>1. /\ toDevice # <<>> /\ toDevice' = Tail(toDevice)
        /\ UNCHANGED <<pc, page, waiting, toHost>> /\ UNCHANGED deviceVars
    BY <1>1 DEF LoseCommand, workerVars
  <2>2. QED
    BY <2>1, NoWriteBehind, QuietMemory DEF Answered, Memory
<1>2. CASE PowerCycle
  <2>1. /\ toDevice' = <<>> /\ running' = Boot
        /\ UNCHANGED <<pc, page, waiting, toHost>> /\ UNCHANGED <<mem, cfg>>
    BY <1>2 DEF PowerCycle, workerVars
  <2>2. PendingWrite' /\ WholeOrNone'
    BY <2>1 DEF Memory, PendingWrite, WholeOrNone, Holds
  <2>3. Bootable'
    BY <2>1 DEF Bootable, Boot
  <2>4. Progress'
    BY <2>1 DEF Memory, Progress, Below, Holds, Answered
  <2>5. QED
    BY <2>2, <2>3, <2>4 DEF Memory
<1>3. QED
  BY <1>1, <1>2, ServeMemory, GarbleMemory DEF Device

-----------------------------------------------------------------------------
\* What is reported: the signals that are still queued are those of the last
\* flash.

\* A signal that joins the queue, and the others that stay.
LEMMA QueueFacts ==
  ASSUME NEW S, NEW s \in Seq(S), NEW a \in S
  PROVE  \A i \in 1..Len(Append(s, a)) :
            Append(s, a)[i] = a \/ (i \in 1..Len(s) /\ Append(s, a)[i] = s[i])
BY AppendProperties, LenProperties

LEMMA ReportedStep == TypeOK /\ Reported /\ [Next]_vars => Reported'
<1> SUFFICES ASSUME TypeOK, Reported, [Next]_vars PROVE Reported'
  OBVIOUS
<1> DEFINE F == StateSignal("FlashFinished")
<1>0. /\ F # StateSignal("StartingFlash") /\ F # StateSignal("Flashing")
      /\ F # StateSignal("Error") /\ F # MessageSignal("reason")
  BY DEF StateSignal, MessageSignal
<1>1. CASE UNCHANGED <<pc, signals, state>>
  BY <1>1 DEF Reported
<1>2. CASE Start
  <2>1. state' = "StartingFlash" /\ signals' = <<StateSignal("StartingFlash")>>
    BY <1>2 DEF Start
  <2>2. QED
    BY <1>0, <2>1 DEF Reported
<1>3. CASE Worker /\ ~UNCHANGED <<pc, signals, state>>
  <2>1. pc \notin Ended /\ state' = state
    BY <1>3 DEF Worker, OpenPort, Send, Receive, Timeout, guiVars, Ended, Asking, OneShot
  <2>2. state # "FlashFinished" /\ \A i \in 1..Len(signals) : signals[i] # F
    BY <2>1 DEF Reported, Ended
  <2>3. CASE pc' = "finished"
    BY <2>3 DEF Reported
  <2>4. CASE signals' = signals
    BY <2>1, <2>2, <2>4 DEF Reported
  <2>5. CASE Error
    <3>1. /\ signals' = signals \o <<MessageSignal("reason"), StateSignal("Error")>>
          /\ signals \in Seq(Signals)
      BY <2>5 DEF Error, TypeOK
    <3>2. /\ Len(signals') = Len(signals) + 2 /\ Len(signals) \in Nat
          /\ \A i \in 1..Len(signals) : signals'[i] = signals[i]
          /\ signals'[Len(signals) + 1] = MessageSignal("reason")
          /\ signals'[Len(signals) + 2] = StateSignal("Error")
      BY <3>1, LenProperties
    <3>3. \A i \in 1..Len(signals') : signals'[i] # F
      BY <1>0, <2>2, <3>2
    <3>4. QED
      BY <2>1, <2>2, <3>3 DEF Reported
  <2>6. CASE signals' = Append(signals, StateSignal("Flashing"))
    <3>1. signals \in Seq(Signals) /\ StateSignal("Flashing") \in Signals
      BY SignalTypes DEF TypeOK, States
    <3>2. \A i \in 1..Len(signals') : signals'[i] # F
      BY <1>0, <2>2, <2>6, <3>1, QueueFacts
    <3>3. QED
      BY <2>1, <2>2, <3>2 DEF Reported
  <2>7. \/ pc' = "finished" \/ signals' = signals \/ Error
        \/ signals' = Append(signals, StateSignal("Flashing"))
    <3>1. CASE OpenPort \/ Send \/ Timeout
      BY <3>1, RefusedFacts DEF OpenPort, Retry, Send, Timeout, Again
    <3>2. CASE Receive /\ Refused
      BY <3>2, RefusedFacts DEF Again
    <3>3. CASE Receive /\ Accepted
      BY <3>3, AcceptedFacts DEF Receive, Goto, Loop
    <3>4. QED
      BY <1>3, <3>1, <3>2, <3>3 DEF Worker, Receive
  <2>8. QED
    BY <2>3, <2>4, <2>5, <2>6, <2>7
<1>4. CASE Gui
  <2>1. /\ signals # <<>> /\ signals' = Tail(signals) /\ signals \in Seq(Signals)
        /\ pc' = pc
        /\ state' = state \/ StateSignal(state') = Head(signals)
    BY <1>4 DEF Gui, DeliverState, DeliverMessage, workerVars, TypeOK, Signals,
       StateSignal, MessageSignal
  <2>2. /\ Head(signals) = signals[1] /\ 1 \in 1..Len(signals)
        /\ \A i \in 1..Len(signals') : i + 1 \in 1..Len(signals) /\ signals'[i] = signals[i + 1]
    BY <2>1, TailFacts
  <2>3. QED
    BY <2>1, <2>2 DEF Reported
<1>5. QED
  BY <1>1, <1>2, <1>3, <1>4 DEF Next, vars, workerVars, guiVars, Device, Serve, LoseCommand,
     GarbleReply, PowerCycle

-----------------------------------------------------------------------------
\* The whole invariant.  What an acknowledgement promises is that the write
\* was done: the theorems below assume that no page wears out.  A worn page
\* is the subject of VerifiedMeansEqual, which the code does not keep.

LEMMA InitInvariant == Init => IInv
<1> SUFFICES ASSUME Init PROVE IInv
  OBVIOUS
<1>1. CableInv
  BY InitCable
<1>2. mem[0] = "old" /\ Holds("old")
  BY PageFacts DEF Init, Holds, Programmable
<1>3. PendingWrite /\ Progress /\ Reported
  BY DEF Init, PendingWrite, Progress, Reported
<1>4. WholeOrNone /\ Bootable
  BY <1>2 DEF WholeOrNone, Bootable
<1>5. QED
  BY <1>1, <1>3, <1>4 DEF IInv, CableInv

LEMMA StepInvariant == ASSUME ~MayWear PROVE IInv /\ [Next]_vars => IInv'
<1> SUFFICES ASSUME IInv, [Next]_vars PROVE IInv'
  OBVIOUS
<1>1. CableInv /\ Memory /\ Reported
  BY DEF IInv, CableInv, Memory
<1>2. CableInv' /\ Reported'
  BY <1>1, StepCable, ReportedStep DEF CableInv
<1>3. Memory'
  <2>1. CASE UNCHANGED vars
    BY <1>1, <2>1, QuietMemory DEF vars, workerVars, cableVars, Answered
  <2>2. CASE Next
    BY <1>1, <2>2, StartMemory, WorkerMemory, GuiMemory, DeviceMemory DEF Next, CableInv
  <2>3. QED
    BY <2>1, <2>2
<1>4. QED
  BY <1>2, <1>3 DEF IInv, CableInv, Memory

\* The invariant of the flash: a packet that is accepted is the answer to the
\* last command, what was acknowledged was done, and a success is reported of
\* the last flash only.
THEOREM FlashInvariant == ASSUME ~MayWear PROVE Spec => []IInv
BY InitInvariant, StepInvariant, PTL DEF Spec

\* Whatever is lost, garbled, late or unplugged, an application that runs is
\* wholly the old or wholly the new one: page 0 is written last.
THEOREM RunsWholeFirmware == ASSUME ~MayWear PROVE Spec => []NeverRunsPartOfAFirmware
<1>1. IInv => NeverRunsPartOfAFirmware
  BY DEF IInv, WholeOrNone, Bootable, NeverRunsPartOfAFirmware
<1>2. QED
  BY <1>1, FlashInvariant, PTL

\* The success that the interface shows is real: every page and the
\* configuration are the new ones.
THEOREM FinishedIsFlashed == ASSUME ~MayWear PROVE Spec => []FinishedMeansFlashed
<1>1. IInv => FinishedMeansFlashed
  BY DEF IInv, Reported, Progress, FinishedMeansFlashed
<1>2. QED
  BY <1>1, FlashInvariant, PTL

-----------------------------------------------------------------------------
\* A flash implements FirmwareUpdate, step by step.

LEMMA FirmwareFacts ==
  /\ mem[0] = "blank" <=> Firmware = "none"
  /\ Holds("old") => Firmware = "old"
  /\ Holds("image") => Firmware = "new"
<1>1. /\ Holds("old") => mem[0] = "old"
      /\ Holds("image") => mem[0] = "image"
  BY PageFacts DEF Holds
<1>2. QED
  BY <1>1 DEF Firmware

LEMMA InitPromise == Init => Promise!Init
<1> SUFFICES ASSUME Init PROVE Promise!Init
  OBVIOUS
<1>1. Holds("old")
  BY PageFacts DEF Init, Holds, Programmable
<1>2. QED
  BY <1>1, FirmwareFacts DEF Promise!Init, Init, Outcome, Ended

\* Where no page is written the outcome alone changes.
LEMMA SameFirmware == UNCHANGED mem => UNCHANGED Firmware
BY DEF Firmware, Holds

LEMMA PointPromise ==
  ASSUME IInv, [Next]_vars, UNCHANGED mem
  PROVE  [Promise!Next]_<<Firmware, Outcome>>
<1>1. UNCHANGED Firmware
  BY SameFirmware
<1>2. CASE pc' = pc
  BY <1>1, <1>2 DEF Outcome
<1>3. CASE Start
  <2>1. Outcome # "updating" /\ Outcome' = "updating"
    BY <1>3 DEF Start, Outcome, Ended
  <2>2. QED
    BY <1>1, <2>1 DEF Promise!Next, Promise!Begin
<1>4. CASE pc \notin Ended /\ pc' \notin Ended
  BY <1>1, <1>4 DEF Outcome
<1>5. CASE pc \notin Ended /\ pc' = "failed"
  <2>1. Outcome = "updating" /\ Outcome' = "failed"
    BY <1>5 DEF Outcome, Ended
  <2>2. QED
    BY <1>1, <2>1 DEF Promise!Next, Promise!Fail
<1>6. CASE pc = "reset" /\ pc' = "finished"
  <2>1. Outcome = "updating" /\ Outcome' = "finished"
    BY <1>6 DEF Outcome, Ended
  <2>2. Firmware = "new"
    BY <1>6, FirmwareFacts DEF IInv, Progress
  <2>3. QED
    BY <1>1, <2>1, <2>2 DEF Promise!Next, Promise!Finish
<1>7. CASE Worker
  <2>1. pc \notin Ended
    BY <1>7 DEF Worker, OpenPort, Send, Receive, Timeout, Ended, Asking, OneShot
  <2>2. CASE OpenPort \/ Send
    BY <1>2, <1>4, <1>5, <2>1, <2>2 DEF OpenPort, Send, Retry, Error, Ended
  <2>3. CASE Refused
    BY <1>2, <1>5, <2>1, <2>3, RefusedFacts DEF Error, Again
  <2>4. CASE pc \in Asking /\ Accepted
    <3>1. \/ pc' \in {"version", "erase", "write", "boot", "verify", "config", "reset", "failed"}
          \/ pc = "reset" /\ pc' = "finished"
      BY <2>4, AcceptedFacts DEF Goto, Loop, Error
    <3>2. QED
      BY <1>4, <1>5, <1>6, <2>1, <3>1 DEF Ended
  <2>5. QED
    BY <1>7, <2>2, <2>3, <2>4 DEF Worker, Receive, Timeout
<1>8. QED
  BY <1>2, <1>3, <1>7 DEF Next, vars, workerVars, Gui, DeliverState, DeliverMessage,
     Device, Serve, LoseCommand, GarbleReply, PowerCycle

\* A page that is written wipes the firmware, installs it, or neither.
LEMMA WritePromise ==
  ASSUME ~MayWear, IInv, Serve, Effect(Head(toDevice)), Head(toDevice).id = "WRITE_PGM_MEM"
  PROVE  [Promise!Next]_<<Firmware, Outcome>>
<1> DEFINE c == Head(toDevice)
<1>1. c \in Commands /\ c = toDevice[1] /\ 1 \in 1..Len(toDevice)
  BY CableTypes, TailFacts DEF Serve, IInv
<1>2. c.page \in Programmable /\ mem' = [mem EXCEPT ![c.page] = c.data]
  BY <1>1, EffectFacts, WriteFacts DEF Commands, IInv
<1>3. /\ pc \in {"erase", "write", "boot", "failed"}
      /\ \/ c.page = 0 /\ c.data = "blank"
         \/ c.page # 0 /\ mem[0] = "blank"
         \/ /\ c.page = 0 /\ c.data = "image" /\ mem[0] = "blank"
            /\ \A p \in Programmable \ {0} : mem[p] = "image"
  BY <1>1 DEF IInv, PendingWrite
<1>4. \A p \in Programmable : mem'[p] = IF p = c.page THEN c.data ELSE mem[p]
  BY <1>2, PageFacts DEF TypeOK, IInv
<1> HIDE DEF c
<1>5. Outcome \in {"updating", "failed"} /\ UNCHANGED Outcome
  BY <1>3 DEF Serve, workerVars, Outcome, Ended
<1>6. CASE c.page = 0 /\ c.data = "blank"
  <2>1. Firmware' = "none"
    BY <1>4, <1>6, PageFacts DEF Firmware
  <2>2. QED
    BY <1>5, <2>1 DEF Promise!Next, Promise!Wipe
<1>7. CASE c.page # 0 /\ mem[0] = "blank"
  <2>1. Firmware = "none" /\ Firmware' = "none"
    BY <1>4, <1>7, PageFacts DEF Firmware
  <2>2. QED
    BY <1>5, <2>1
<1>8. CASE /\ c.page = 0 /\ c.data = "image" /\ mem[0] = "blank"
           /\ \A p \in Programmable \ {0} : mem[p] = "image"
  <2>1. Holds("image")' /\ ~Holds("old")' /\ mem'[0] = "image"
    BY <1>4, <1>8, PageFacts DEF Holds
  <2>2. Firmware = "none" /\ Firmware' = "new"
    BY <1>8, <2>1 DEF Firmware
  <2>3. QED
    BY <1>5, <2>2 DEF Promise!Next, Promise!Install
<1>9. QED
  BY <1>3, <1>6, <1>7, <1>8

LEMMA StepPromise ==
  ASSUME ~MayWear, IInv, [Next]_vars
  PROVE  [Promise!Next]_<<Firmware, Outcome>>
<1>1. \/ UNCHANGED mem
      \/ Serve /\ Effect(Head(toDevice)) /\ Head(toDevice).id = "WRITE_PGM_MEM"
  <2>1. UNCHANGED mem \/ (Serve /\ Effect(Head(toDevice)))
    BY DEF Next, vars, workerVars, deviceVars, cableVars, guiVars, Start, Worker, OpenPort,
           Send, Receive, Timeout, Gui, DeliverState, DeliverMessage, Device, Serve,
           LoseCommand, GarbleReply, PowerCycle
  <2>2. Serve => Head(toDevice) \in Commands
    BY CableTypes, TailFacts DEF Serve, IInv
  <2>3. QED
    BY <2>1, <2>2, EffectFacts DEF IInv
<1>2. QED
  BY <1>1, PointPromise, WritePromise

\* A flash keeps the promise of FirmwareUpdate: what a power-up starts is the
\* old firmware, the new one or nothing, and "finished" means the new one.
THEOREM FlashKeepsPromise == ASSUME ~MayWear PROVE Spec => KeepsPromise
<1>1. IInv /\ [Next]_vars => [Promise!Next]_Promise!vars
  BY StepPromise DEF Promise!vars
<1>2. QED
  BY <1>1, InitPromise, FlashInvariant, PTL DEF Spec, KeepsPromise, Promise!Spec

-----------------------------------------------------------------------------
(* BootloaderParser.  Its inductive invariant is ParserInv: the states of  *)
(* the switch stand for positions in a frame (Position), and what has been *)
(* stored is the beginning of a frame.  First, frames that grow at the end.*)

\* What Append does to a buffer, said once for all the proofs below.
LEMMA AppendByte ==
  ASSUME NEW s \in Seq(Byte), NEW b \in Byte
  PROVE  /\ Append(s, b) \in Seq(Byte)
         /\ Len(Append(s, b)) = Len(s) + 1
         /\ \A i \in 1..Len(s) : Append(s, b)[i] = s[i]
         /\ Append(s, b)[Len(s) + 1] = b
OBVIOUS

\* The first bytes of a buffer survive an Append, and the second byte
\* arrives with one.
LEMMA AppendHeader ==
  ASSUME NEW s \in Seq(Byte), NEW b \in Byte
  PROVE  /\ Len(s) >= 1 => Append(s, b)[1] = s[1]
         /\ Len(s) >= 2 => Append(s, b)[2] = s[2]
         /\ Len(s) = 1  => Append(s, b)[2] = b
OBVIOUS

\* The start and the id of a frame that has got that far.
LEMMA PrefixHeader ==
  ASSUME NEW s \in Seq(Byte), FramePrefix(s)
  PROVE  /\ Len(s) >= 1 => s[1] = FramingStart
         /\ Len(s) >= 2 => s[2] \in Id
BY DEF FramePrefix

\* The length field of a complete header is a natural number.
LEMMA PayloadLengthType ==
  ASSUME NEW s \in Seq(Byte), Len(s) >= 4
  PROVE  PayloadLength(s) \in Nat
<1>1. s[3] \in Byte /\ s[4] \in Byte
  OBVIOUS
<1>2. s[3] \in Nat /\ s[4] \in Nat /\ Radix \in Nat
  BY <1>1, ParserAssumption DEF Byte
<1>3. \A m, n \in Nat : m * n \in Nat
  OBVIOUS
<1>4. QED
  BY <1>2, <1>3 DEF PayloadLength

\* Once the header is there, a further byte changes neither the length
\* field nor the complement, nor the covered bytes once they are all there.
LEMMA HeaderKept ==
  ASSUME NEW s \in Seq(Byte), NEW b \in Byte, Len(s) >= 4
  PROVE  /\ PayloadLength(Append(s, b)) = PayloadLength(s)
         /\ Complement(Append(s, b)) = Complement(s)
         /\ Len(s) >= 4 + PayloadLength(s)
              => Covered(Append(s, b)) = Covered(s)
<1> DEFINE t == Append(s, b)
<1>1. t[2] = s[2] /\ t[3] = s[3] /\ t[4] = s[4]
  BY AppendByte
<1>2. PayloadLength(t) = PayloadLength(s)
  BY <1>1 DEF PayloadLength
<1>3. Complement(t) = Complement(s)
  BY <1>1 DEF Complement
<1>4. ASSUME Len(s) >= 4 + PayloadLength(s)
      PROVE  Covered(t) = Covered(s)
  <2> DEFINE n == 4 + PayloadLength(s)
  <2>1. n \in Nat /\ n >= 4
    BY PayloadLengthType
  <2>2. \A i \in 2..n : t[i] = s[i]
    BY <1>4, <2>1, AppendByte
  <2> HIDE DEF n, t
  <2>3. SubSeq(t, 2, n) = [i \in 1..(n - 1) |-> t[i + 1]]
    BY <2>1
  <2>4. SubSeq(s, 2, n) = [i \in 1..(n - 1) |-> s[i + 1]]
    BY <2>1
  <2>5. SubSeq(t, 2, n) = SubSeq(s, 2, n)
    BY <2>1, <2>2, <2>3, <2>4
  <2>6. QED
    BY <1>2, <2>5 DEF Covered, n, t
<1>5. QED
  BY <1>2, <1>3, <1>4

\* Behind the header, a frame prefix goes on with exactly the byte its
\* position asks for.
LEMMA ExtendPrefix ==
  ASSUME NEW s \in Seq(Byte), NEW b \in Byte, Len(s) >= 4,
         FramePrefix(s), Len(s) < PayloadLength(s) + 7
  PROVE  FramePrefix(Append(s, b)) <=>
           /\ Len(s) = PayloadLength(s) + 4 => b = Checksum(Covered(s))
           /\ Len(s) = PayloadLength(s) + 5 => b = Complement(s)
           /\ Len(s) = PayloadLength(s) + 6 => b = FramingEnd
<1> DEFINE t == Append(s, b)
           n == PayloadLength(s)
<1>1. n \in Nat
  BY PayloadLengthType
<1>2. /\ Len(t) = Len(s) + 1
      /\ t[Len(s) + 1] = b
      /\ \A i \in 1..Len(s) : t[i] = s[i]
  BY AppendByte
<1>3. PayloadLength(t) = n /\ Complement(t) = Complement(s)
  BY HeaderKept
<1>4. Len(s) >= n + 4 => Checksum(Covered(t)) = Checksum(Covered(s))
  BY <1>1, HeaderKept
<1>5. Len(s) \in Nat
  OBVIOUS
<1>6. /\ s[1] = FramingStart /\ s[2] \in Id
      /\ n <= MaxLength /\ Len(s) <= n + 7
      /\ Len(s) >= n + 5 => s[n + 5] = Checksum(Covered(s))
      /\ Len(s) >= n + 6 => s[n + 6] = Complement(s)
  BY <1>1, <1>5 DEF FramePrefix
<1> HIDE DEF t, n
<1>7. FramePrefix(t) <=>
        /\ Len(t) >= n + 5 => t[n + 5] = Checksum(Covered(t))
        /\ Len(t) >= n + 6 => t[n + 6] = Complement(t)
        /\ Len(t) >= n + 7 => t[n + 7] = FramingEnd
  <2>1. t[1] = FramingStart /\ t[2] \in Id /\ Len(t) >= 5
    BY <1>2, <1>5, <1>6
  <2>2. PayloadLength(t) <= MaxLength /\ Len(t) <= PayloadLength(t) + 7
    BY <1>1, <1>2, <1>3, <1>5, <1>6 DEF n
  <2>3. QED
    BY <2>1, <2>2, <1>2, <1>3, <1>5 DEF FramePrefix
<1>8. CASE Len(s) < n + 4
  BY <1>1, <1>2, <1>5, <1>7, <1>8 DEF t, n
<1>9. CASE Len(s) = n + 4
  BY <1>1, <1>2, <1>4, <1>5, <1>7, <1>9 DEF t, n
<1>10. CASE Len(s) = n + 5
  <2>1. t[n + 5] = s[n + 5] /\ t[n + 6] = b /\ Len(t) = n + 6
    BY <1>1, <1>2, <1>5, <1>10
  <2>2. QED
    BY <1>1, <1>3, <1>4, <1>5, <1>6, <1>7, <1>10, <2>1 DEF t, n
<1>11. CASE Len(s) = n + 6
  <2>1. /\ t[n + 5] = s[n + 5] /\ t[n + 6] = s[n + 6]
        /\ t[n + 7] = b /\ Len(t) = n + 7
    BY <1>1, <1>2, <1>5, <1>11
  <2>2. QED
    BY <1>1, <1>3, <1>4, <1>5, <1>6, <1>7, <1>11, <2>1 DEF t, n
<1>12. QED
  BY <1>1, <1>5, <1>8, <1>9, <1>10, <1>11 DEF n
-----------------------------------------------------------------------------
(* The inductive invariant.                                                *)

LEMMA ParserBegins == ParserInit => ParserInv
  BY ParserAssumption
     DEF ParserInit, ParserInv, ParserTypes, Position, ParseState, InFrame

\* A byte that continues the frame behind the header: the part of the
\* argument that payload, checksum, complement and terminator share.
LEMMA GrowFrame ==
  ASSUME ParserInv, NEW b \in Byte, Len(rx) >= 4, parseState \in InFrame,
         Len(rx) < MaxLength, Len(rx) < PayloadLength(rx) + 7,
         rx' = Append(rx, b)
  PROVE  /\ rx' \in Seq(Byte) /\ Len(rx') = Len(rx) + 1
         /\ Len(rx') <= MaxLength
         /\ PayloadLength(rx') = PayloadLength(rx)
         /\ Len(rx') <= PayloadLength(rx') + 7
         /\ (/\ Len(rx) = PayloadLength(rx) + 4 => b = Checksum(Covered(rx))
             /\ Len(rx) = PayloadLength(rx) + 5 => b = Complement(rx)
             /\ Len(rx) = PayloadLength(rx) + 6 => b = FramingEnd)
            => FramePrefix(rx')
<1>1. /\ rx \in Seq(Byte) /\ FramePrefix(rx) /\ Len(rx) \in Nat
      /\ PayloadLength(rx) \in Nat
  BY PayloadLengthType DEF ParserInv, ParserTypes
<1>2. /\ rx' \in Seq(Byte) /\ Len(rx') = Len(rx) + 1
      /\ PayloadLength(rx') = PayloadLength(rx)
  BY <1>1, AppendByte, HeaderKept
<1>3. Len(rx') <= MaxLength /\ Len(rx') <= PayloadLength(rx') + 7
  BY <1>1, <1>2, ParserAssumption
<1>4. QED
  BY <1>1, <1>2, <1>3, ExtendPrefix

LEMMA ParserKeeps == ParserInv /\ [ParserNext]_parserVars => ParserInv'
<1> SUFFICES ASSUME ParserInv, [ParserNext]_parserVars PROVE ParserInv'
  OBVIOUS
<1>0. /\ rx \in Seq(Byte) /\ Len(rx) \in Nat /\ Len(rx) <= MaxLength
      /\ parseState \in ParseState /\ ret \in ParseState
      /\ packetLength \in Nat /\ MaxLength \in Nat /\ MaxLength >= 7
  BY ParserAssumption DEF ParserInv, ParserTypes
<1>1. CASE Reset
  BY <1>0, <1>1 DEF Reset, ParserInv, ParserTypes, Position, InFrame, ParseState
<1>2. CASE Overflow
  BY <1>0, <1>2 DEF Overflow, ParserInv, ParserTypes, Position, ParseState
<1>3. ASSUME NEW b \in Byte, BeginFrame(b) PROVE ParserInv'
  <2>1. CASE b # FramingStart /\ Enter("ERROR") /\ rx' = <<>>
    BY <1>0, <1>3, <2>1
       DEF BeginFrame, Enter, ParserInv, ParserTypes, Position, InFrame, ParseState
  <2>2. CASE b = FramingStart /\ Enter("WAIT_ID") /\ rx' = <<b>>
    <3>1. rx' \in Seq(Byte) /\ Len(rx') = 1 /\ rx'[1] = FramingStart
      BY <2>2
    <3>2. FramePrefix(rx')
      BY <3>1 DEF FramePrefix
    <3>3. QED
      BY <1>0, <1>3, <2>2, <3>1, <3>2
         DEF BeginFrame, Enter, ParserInv, ParserTypes, Position, ParseState
  <2>3. QED
    BY <1>3, <2>1, <2>2 DEF BeginFrame
<1>4. ASSUME NEW b \in Byte, ReadId(b) PROVE ParserInv'
  <2>1. parseState \in InFrame /\ Len(rx) = 1 /\ rx[1] = FramingStart
    <3>1. parseState \in InFrame /\ Len(rx) = 1
      BY <1>4 DEF ReadId, ParserInv, Position, InFrame
    <3>2. rx \in Seq(Byte) /\ FramePrefix(rx)
      BY <3>1 DEF ParserInv, ParserTypes
    <3>3. QED
      BY <3>1, <3>2, PrefixHeader
  <2>2. CASE b \notin Id /\ Enter("ERROR") /\ UNCHANGED rx
    BY <1>0, <1>4, <2>1, <2>2
       DEF ReadId, Enter, ParserInv, ParserTypes, Position, InFrame, ParseState
  <2>3. CASE b \in Id /\ Enter("WAIT_LENGTH_L") /\ Store(b)
    <3>1. /\ rx' \in Seq(Byte) /\ Len(rx') = 2
          /\ rx'[1] = FramingStart /\ rx'[2] \in Id
      BY <1>0, <2>1, <2>3, AppendByte, AppendHeader DEF Store
    <3>2. FramePrefix(rx')
      BY <3>1 DEF FramePrefix
    <3>3. QED
      BY <1>0, <1>4, <2>3, <3>1, <3>2
         DEF ReadId, Enter, ParserInv, ParserTypes, Position, ParseState
  <2>4. QED
    BY <1>4, <2>2, <2>3 DEF ReadId
<1>5. ASSUME NEW b \in Byte, ReadLengthLow(b) PROVE ParserInv'
  <2>1. Len(rx) = 2 /\ rx[1] = FramingStart /\ rx[2] \in Id
    <3>1. Len(rx) = 2 /\ FramePrefix(rx)
      BY <1>5 DEF ReadLengthLow, ParserInv, Position, InFrame
    <3>2. rx \in Seq(Byte)
      BY <1>0
    <3>3. QED
      BY <3>1, <3>2, PrefixHeader
  <2>2. /\ rx' \in Seq(Byte) /\ Len(rx') = 3
        /\ rx'[1] = FramingStart /\ rx'[2] \in Id
    <3>1. rx \in Seq(Byte) /\ rx' = Append(rx, b)
      BY <1>0, <1>5 DEF ReadLengthLow, Store
    <3>2. rx' \in Seq(Byte) /\ Len(rx') = Len(rx) + 1
      BY <3>1, AppendByte
    <3>3. rx'[1] = rx[1] /\ rx'[2] = rx[2]
      BY <2>1, <3>1, AppendHeader
    <3>4. QED
      BY <2>1, <3>2, <3>3
  <2>3. FramePrefix(rx')
    BY <2>2 DEF FramePrefix
  <2>4. QED
    BY <1>0, <1>5, <2>2, <2>3
       DEF ReadLengthLow, Enter, ParserInv, ParserTypes, Position, ParseState
<1>6. ASSUME NEW b \in Byte, ReadLengthHigh(b) PROVE ParserInv'
  <2>1. Len(rx) = 3 /\ rx[1] = FramingStart /\ rx[2] \in Id
    <3>1. Len(rx) = 3 /\ FramePrefix(rx)
      BY <1>6 DEF ReadLengthHigh, ParserInv, Position, InFrame
    <3>2. rx \in Seq(Byte)
      BY <1>0
    <3>3. QED
      BY <3>1, <3>2, PrefixHeader
  <2>2. /\ rx' \in Seq(Byte) /\ Len(rx') = 4
        /\ rx'[1] = FramingStart /\ rx'[2] \in Id
    <3>1. rx \in Seq(Byte) /\ rx' = Append(rx, b)
      BY <1>0, <1>6 DEF ReadLengthHigh, Store
    <3>2. rx' \in Seq(Byte) /\ Len(rx') = Len(rx) + 1
      BY <3>1, AppendByte
    <3>3. rx'[1] = rx[1] /\ rx'[2] = rx[2]
      BY <2>1, <3>1, AppendHeader
    <3>4. QED
      BY <2>1, <3>2, <3>3
  <2>3. PayloadLength(rx') \in Nat /\ packetLength' = PayloadLength(rx')
    <3>1. Len(rx') >= 4
      BY <2>2
    <3>2. PayloadLength(rx') \in Nat
      BY <2>2, <3>1, PayloadLengthType
    <3>3. QED
      BY <1>6, <3>2 DEF ReadLengthHigh
  <2>4. CASE packetLength' > MaxLength /\ Enter("ERROR")
    BY <1>0, <2>2, <2>3, <2>4
       DEF Enter, ParserInv, ParserTypes, Position, InFrame, ParseState
  <2>5. CASE packetLength' = 0 /\ Enter("WAIT_CHECKSUM")
    <3>1. FramePrefix(rx')
      BY <1>0, <2>2, <2>3, <2>5 DEF FramePrefix
    <3>2. QED
      BY <1>0, <2>2, <2>3, <2>5, <3>1
         DEF Enter, ParserInv, ParserTypes, Position, ParseState
  <2>6. CASE packetLength' \in 1..MaxLength /\ Enter("WAIT_DATA")
    <3>1. FramePrefix(rx')
      BY <1>0, <2>2, <2>3, <2>6 DEF FramePrefix
    <3>2. QED
      BY <1>0, <2>2, <2>3, <2>6, <3>1
         DEF Enter, ParserInv, ParserTypes, Position, ParseState
  <2>7. QED
    BY <1>6, <2>4, <2>5, <2>6 DEF ReadLengthHigh
<1>7. ASSUME NEW b \in Byte, ReadData(b) PROVE ParserInv'
  <2>1. /\ parseState \in InFrame /\ Len(rx) >= 4
        /\ Len(rx) + packetLength = 4 + PayloadLength(rx)
        /\ packetLength > 0 /\ PayloadLength(rx) \in Nat
        /\ Len(rx) < MaxLength /\ rx' = Append(rx, b)
    BY <1>0, <1>7, PayloadLengthType
       DEF ReadData, Enter, Store, ParserInv, Position, InFrame
  <2>2. Len(rx) < PayloadLength(rx) + 4
    BY <1>0, <2>1
  <2>3. /\ rx' \in Seq(Byte) /\ Len(rx') = Len(rx) + 1
        /\ Len(rx') <= MaxLength
        /\ PayloadLength(rx') = PayloadLength(rx)
        /\ Len(rx') <= PayloadLength(rx') + 7
        /\ FramePrefix(rx')
    BY <1>0, <2>1, <2>2, GrowFrame
  <2>4. /\ packetLength' = packetLength - 1 /\ packetLength' \in Nat
        /\ parseState' = (IF packetLength' = 0 THEN "WAIT_CHECKSUM" ELSE "WAIT_DATA")
        /\ ret' = parseState'
    BY <1>0, <1>7, <2>1 DEF ReadData, Enter
  <2>5. QED
    BY <1>0, <2>1, <2>3, <2>4 DEF ParserInv, ParserTypes, Position, ParseState
<1>8. ASSUME NEW b \in Byte, ReadChecksum(b) PROVE ParserInv'
  <2>1. /\ parseState \in InFrame /\ Len(rx) >= 4
        /\ Len(rx) = PayloadLength(rx) + 4 /\ PayloadLength(rx) \in Nat
    BY <1>0, <1>8, PayloadLengthType
       DEF ReadChecksum, ReadFooter, ParserInv, Position, InFrame
  <2>2. CASE b # Checksum(Covered(rx)) /\ Enter("ERROR") /\ UNCHANGED rx
    BY <1>0, <1>8, <2>1, <2>2
       DEF ReadChecksum, ReadFooter, Enter, ParserInv, ParserTypes, Position, InFrame, ParseState
  <2>3. CASE b = Checksum(Covered(rx)) /\ Enter("WAIT_COMPLEMENT") /\ Store(b)
    <3>1. /\ rx' \in Seq(Byte) /\ Len(rx') = Len(rx) + 1
          /\ Len(rx') <= MaxLength
          /\ PayloadLength(rx') = PayloadLength(rx)
          /\ Len(rx') <= PayloadLength(rx') + 7
          /\ FramePrefix(rx')
      BY <1>0, <2>1, <2>3, GrowFrame DEF Enter, Store
    <3>2. QED
      BY <1>0, <1>8, <2>1, <2>3, <3>1
         DEF ReadChecksum, ReadFooter, Enter, ParserInv, ParserTypes, Position, ParseState
  <2>4. QED
    BY <1>8, <2>2, <2>3 DEF ReadChecksum, ReadFooter
<1>9. ASSUME NEW b \in Byte, ReadComplement(b) PROVE ParserInv'
  <2>1. /\ parseState \in InFrame /\ Len(rx) >= 4
        /\ Len(rx) = PayloadLength(rx) + 5 /\ PayloadLength(rx) \in Nat
    BY <1>0, <1>9, PayloadLengthType
       DEF ReadComplement, ReadFooter, ParserInv, Position, InFrame
  <2>2. CASE b # Complement(rx) /\ Enter("ERROR") /\ UNCHANGED rx
    BY <1>0, <1>9, <2>1, <2>2
       DEF ReadComplement, ReadFooter, Enter, ParserInv, ParserTypes, Position, InFrame, ParseState
  <2>3. CASE b = Complement(rx) /\ Enter("WAIT_END") /\ Store(b)
    <3>1. /\ rx' \in Seq(Byte) /\ Len(rx') = Len(rx) + 1
          /\ Len(rx') <= MaxLength
          /\ PayloadLength(rx') = PayloadLength(rx)
          /\ Len(rx') <= PayloadLength(rx') + 7
          /\ FramePrefix(rx')
      BY <1>0, <2>1, <2>3, GrowFrame DEF Enter, Store
    <3>2. QED
      BY <1>0, <1>9, <2>1, <2>3, <3>1
         DEF ReadComplement, ReadFooter, Enter, ParserInv, ParserTypes, Position, ParseState
  <2>4. QED
    BY <1>9, <2>2, <2>3 DEF ReadComplement, ReadFooter
<1>10. ASSUME NEW b \in Byte, ReadEnd(b) PROVE ParserInv'
  <2>1. /\ parseState \in InFrame /\ Len(rx) >= 4
        /\ Len(rx) = PayloadLength(rx) + 6 /\ PayloadLength(rx) \in Nat
    BY <1>0, <1>10, PayloadLengthType
       DEF ReadEnd, ReadFooter, ParserInv, Position, InFrame
  <2>2. CASE b # FramingEnd /\ Enter("ERROR") /\ UNCHANGED rx
    BY <1>0, <1>10, <2>1, <2>2
       DEF ReadEnd, ReadFooter, Enter, ParserInv, ParserTypes, Position, InFrame, ParseState
  <2>3. CASE b = FramingEnd /\ Enter("NEW_MESSAGE") /\ Store(b)
    <3>1. /\ rx' \in Seq(Byte) /\ Len(rx') = Len(rx) + 1
          /\ Len(rx') <= MaxLength
          /\ PayloadLength(rx') = PayloadLength(rx)
          /\ Len(rx') <= PayloadLength(rx') + 7
          /\ FramePrefix(rx')
      BY <1>0, <2>1, <2>3, GrowFrame DEF Enter, Store
    <3>2. QED
      BY <1>0, <1>10, <2>1, <2>3, <3>1
         DEF ReadEnd, ReadFooter, Enter, ParserInv, ParserTypes, Position, ParseState
  <2>4. QED
    BY <1>10, <2>2, <2>3 DEF ReadEnd, ReadFooter
<1>11. CASE UNCHANGED parserVars
  BY <1>11 DEF parserVars, ParserInv, ParserTypes, Position
<1>12. QED
  BY <1>1, <1>2, <1>3, <1>4, <1>5, <1>6, <1>7, <1>8, <1>9, <1>10, <1>11
     DEF ParserNext, PacketParseByte

-----------------------------------------------------------------------------
(* The theorems.                                                           *)

\* Every state the parser reaches satisfies the inductive invariant.
THEOREM ParserInvariant == ParserSpec => []ParserInv
  BY ParserBegins, ParserKeeps, PTL DEF ParserSpec

\* Type correctness; its last conjunct says that packet_parse_byte() never
\* writes behind rxBuffer.
THEOREM ParserTypeOK == ParserSpec => []ParserTypes
<1>1. ParserInv => ParserTypes
  BY DEF ParserInv
<1>2. QED
  BY <1>1, ParserInvariant, PTL

\* Soundness of packet_parse_byte(): NEW_MESSAGE is only ever reported for a
\* whole and valid frame.
THEOREM ParserSound == ParserSpec => []OnlyWholeFrames
<1>1. ParserInv => OnlyWholeFrames
  <2> SUFFICES ASSUME ParserInv, parseState = "NEW_MESSAGE" PROVE IsFrame(rx)
    BY DEF OnlyWholeFrames
  <2>1. FramePrefix(rx) /\ Len(rx) >= 4 /\ Len(rx) = 7 + PayloadLength(rx)
    BY DEF ParserInv, Position, InFrame
  <2>2. PayloadLength(rx) \in Nat
    BY <2>1, PayloadLengthType DEF ParserInv, ParserTypes
  <2>3. QED
    BY <2>1, <2>2 DEF IsFrame
<1>2. QED
  BY <1>1, ParserInvariant, PTL

\* Only a length field above MaxLength - 8 lets the buffer of
\* packet_parse_byte() fill up.
THEOREM ParserFullOnlyIfOverlong == ParserSpec => []FullOnlyIfOverlong
<1>1. ParserInv => FullOnlyIfOverlong
  <2> SUFFICES ASSUME ParserInv, Len(rx) = MaxLength
               PROVE  PayloadLength(rx) >= MaxLength - 7
    BY DEF FullOnlyIfOverlong
  <2>1. Len(rx) >= 4 /\ Len(rx) \in Nat /\ rx \in Seq(Byte)
    BY ParserAssumption DEF ParserInv, ParserTypes
  <2>2. PayloadLength(rx) \in Nat /\ Len(rx) <= PayloadLength(rx) + 7
    BY <2>1, PayloadLengthType DEF ParserInv
  <2>3. QED
    BY <2>1, <2>2
<1>2. QED
  BY <1>1, ParserInvariant, PTL

-----------------------------------------------------------------------------
(* Completeness.                                                           *)

\* The header: the second byte has to be an id, the third may be any, and
\* the fourth completes a length.
LEMMA ExtendHeader ==
  ASSUME NEW s \in Seq(Byte), NEW b \in Byte, FramePrefix(s)
  PROVE  /\ Len(s) = 1 => (FramePrefix(Append(s, b)) <=> b \in Id)
         /\ Len(s) = 2 => FramePrefix(Append(s, b))
         /\ Len(s) = 3 => (FramePrefix(Append(s, b))
                             <=> PayloadLength(Append(s, b)) <= MaxLength)
<1> DEFINE t == Append(s, b)
<1>1. t \in Seq(Byte) /\ Len(t) = Len(s) + 1 /\ Len(s) \in Nat
  BY AppendByte
<1>2. /\ Len(s) >= 1 => t[1] = s[1] /\ s[1] = FramingStart
      /\ Len(s) >= 2 => t[2] = s[2] /\ s[2] \in Id
      /\ Len(s) = 1 => t[2] = b
  BY AppendHeader, PrefixHeader
<1> HIDE DEF t
<1>3. ASSUME Len(s) = 3 PROVE PayloadLength(t) \in Nat
  <2>1. Len(t) >= 4
    BY <1>1, <1>3
  <2>2. QED
    BY <1>1, <2>1, PayloadLengthType
<1>4. Len(s) = 1 => (FramePrefix(t) <=> b \in Id)
  BY <1>1, <1>2 DEF FramePrefix
<1>5. Len(s) = 2 => FramePrefix(t)
  BY <1>1, <1>2 DEF FramePrefix
<1>6. Len(s) = 3 => (FramePrefix(t) <=> PayloadLength(t) <= MaxLength)
  BY <1>1, <1>2, <1>3 DEF FramePrefix
<1>7. QED
  BY <1>4, <1>5, <1>6 DEF t

\* One byte inside a frame.
LEMMA AcceptsByte ==
  ASSUME ParserInv, NEW b \in Byte, PacketParseByte(b),
         parseState \in InFrame \ {"NEW_MESSAGE"}, Len(rx) < MaxLength
  PROVE  parseState' # "ERROR" <=> FramePrefix(Append(rx, b))
<1>0. /\ rx \in Seq(Byte) /\ Len(rx) \in Nat /\ MaxLength \in Nat
      /\ packetLength \in Nat /\ FramePrefix(rx)
      /\ Len(rx) >= 4 => PayloadLength(rx) \in Nat
  BY ParserAssumption, PayloadLengthType DEF ParserInv, ParserTypes
<1>1. ~Overflow
  BY <1>0 DEF Overflow
<1>2. ~BeginFrame(b)
  BY DEF BeginFrame, InFrame
<1>3. CASE ReadId(b)
  <2>1. Len(rx) = 1
    BY <1>3 DEF ReadId, ParserInv, Position
  <2>2. QED
    BY <1>0, <1>3, <2>1, ExtendHeader DEF ReadId, Enter
<1>4. CASE ReadLengthLow(b)
  <2>1. Len(rx) = 2
    BY <1>4 DEF ReadLengthLow, ParserInv, Position
  <2>2. QED
    BY <1>0, <1>4, <2>1, ExtendHeader DEF ReadLengthLow, Enter
<1>5. CASE ReadLengthHigh(b)
  <2>1. Len(rx) = 3 /\ rx' = Append(rx, b) /\ packetLength' = PayloadLength(rx')
    BY <1>5 DEF ReadLengthHigh, Store, ParserInv, Position
  <2>2. FramePrefix(Append(rx, b)) <=> packetLength' <= MaxLength
    BY <1>0, <2>1, ExtendHeader
  <2>3. parseState' # "ERROR" <=> packetLength' <= MaxLength
    <3>1. rx' \in Seq(Byte) /\ Len(rx') >= 4
      BY <1>0, <2>1, AppendByte
    <3>2. packetLength' \in Nat
      BY <2>1, <3>1, PayloadLengthType
    <3>3. QED
      BY <1>0, <1>5, <3>2 DEF ReadLengthHigh, Enter
  <2>4. QED
    BY <2>2, <2>3
<1>6. CASE ReadData(b)
  <2>1. /\ Len(rx) >= 4 /\ Len(rx) < PayloadLength(rx) + 4
    BY <1>0, <1>6 DEF ReadData, ParserInv, Position
  <2>2. FramePrefix(Append(rx, b))
    BY <1>0, <2>1, ExtendPrefix
  <2>3. QED
    BY <1>6, <2>2 DEF ReadData, Enter
<1>7. CASE ReadChecksum(b)
  <2>1. Len(rx) >= 4 /\ Len(rx) = PayloadLength(rx) + 4
    BY <1>0, <1>7 DEF ReadChecksum, ReadFooter, ParserInv, Position
  <2>2. FramePrefix(Append(rx, b)) <=> b = Checksum(Covered(rx))
    BY <1>0, <2>1, ExtendPrefix
  <2>3. QED
    BY <1>7, <2>2 DEF ReadChecksum, ReadFooter, Enter
<1>8. CASE ReadComplement(b)
  <2>1. Len(rx) >= 4 /\ Len(rx) = PayloadLength(rx) + 5
    BY <1>0, <1>8 DEF ReadComplement, ReadFooter, ParserInv, Position
  <2>2. FramePrefix(Append(rx, b)) <=> b = Complement(rx)
    BY <1>0, <2>1, ExtendPrefix
  <2>3. QED
    BY <1>8, <2>2 DEF ReadComplement, ReadFooter, Enter
<1>9. CASE ReadEnd(b)
  <2>1. Len(rx) >= 4 /\ Len(rx) = PayloadLength(rx) + 6
    BY <1>0, <1>9 DEF ReadEnd, ReadFooter, ParserInv, Position
  <2>2. FramePrefix(Append(rx, b)) <=> b = FramingEnd
    BY <1>0, <2>1, ExtendPrefix
  <2>3. QED
    BY <1>9, <2>2 DEF ReadEnd, ReadFooter, Enter
<1>10. QED
  BY <1>1, <1>2, <1>3, <1>4, <1>5, <1>6, <1>7, <1>8, <1>9 DEF PacketParseByte

\* Completeness of packet_parse_byte(): with room in the buffer it gives up
\* inside a frame only on a byte with which no frame goes on.
THEOREM ParserComplete == ParserSpec => NoFrameRejected
<1>1. ASSUME ParserInv, NEW b \in Byte, PacketParseByte(b),
             parseState \in InFrame \ {"NEW_MESSAGE"}, Len(rx) < MaxLength
      PROVE  (parseState' # "ERROR") = FramePrefix(Append(rx, b))
  <2>1. FramePrefix(Append(rx, b)) \in BOOLEAN
    BY Zenon DEF FramePrefix
  <2>2. QED
    BY <1>1, <2>1, AcceptsByte, Zenon
<1>2. ParserInv => [ \A b \in Byte :
                  /\ PacketParseByte(b)
                  /\ parseState \in InFrame \ {"NEW_MESSAGE"}
                  /\ Len(rx) < MaxLength
                  => (parseState' # "ERROR") = FramePrefix(Append(rx, b)) ]_parserVars
  BY <1>1
<1>3. QED
  BY <1>2, ParserInvariant, PTL DEF NoFrameRejected

=============================================================================
