---------------------------- MODULE BaudDetection ----------------------------
(***************************************************************************)
(* The search for the fastest usable baud rate of a Ping360 on a serial    *)
(* port (Ping360::startConfiguration, checkBaudrateProcess,                *)
(* detectBaudrates, and the DEVICE_INFORMATION case of handleMessage).     *)
(*                                                                         *)
(* At each rate the device information is requested again and again.  Both *)
(* a reply and 100 ms without one trigger the next request; after Total+1  *)
(* triggers the replies are counted and the rate is kept or given up.      *)
(*                                                                         *)
(* Rates are numbered 1 .. NRates, fastest first, as in _validBaudRates.   *)
(* The cable is two numbers: requests on the way to the device and replies *)
(* on the way back.  setBaudRate() closes the port, reopens it and sends a *)
(* break, so whatever is on the way at that moment is gone.                *)
(***************************************************************************)
EXTENDS Integers

CONSTANTS NRates,      \* validBaudRates().size(), 8 in the code
          Total,       \* _ABRTotalNumberOfMessages, 20 in the code
          MaxErrors,   \* bound: parser errors while one rate is tested
          MaxStarts    \* bound: calls of startConfiguration()

ASSUME BaudAssumption ==
  /\ NRates \in Nat /\ NRates >= 2
  /\ Total \in Nat \ {0}
  /\ MaxErrors \in Nat /\ MaxStarts \in Nat

VARIABLES configuring,  \* _configuring
          count,        \* static count of checkBaudrateProcess()
          index,        \* static index of detectBaudrates()
          errorOf,      \* static baudRateToError, 0 where it has no entry
          msgs, errors, \* parsedMsgs(), parserErrors() since they were read
          timer,        \* _baudrateConfigurationTimer.isActive()
          profiling,    \* _timeoutProfileMessage.isActive()
          rate,         \* the rate of the port
          asked, answers, \* requests and replies on the cable
          silences,     \* history: timeouts since the rate was set
          verdict,      \* history: how the test of each rate went
          starts        \* bound: calls of startConfiguration()

code  == <<configuring, count, index, errorOf, timer, profiling, rate>>
cable == <<asked, answers>>
vars  == <<code, msgs, errors, cable, silences, verdict, starts>>

Rate   == 1..NRates
Lowest == NRates

Init == /\ configuring = TRUE
        /\ count = Total /\ index = 0
        /\ errorOf = [r \in Rate |-> 0]
        /\ msgs = 0 /\ errors = 0
        /\ timer = FALSE /\ profiling = FALSE
        /\ rate \in Rate
        /\ asked = 0 /\ answers = 0
        /\ silences = 0
        /\ verdict = [r \in Rate |-> "untested"]
        /\ starts = 0

-----------------------------------------------------------------------------
\* How the test of a rate went, from what happened on the cable: the first
\* timeout is that of the request sent just before the rate was set.
Judged(s, e) == IF s <= 1 /\ e = 0 THEN "clean" ELSE "dirty"

\* Mutant: one lost message is tolerated.
LastCounterTolerant(m, e) == IF m = Total - 1 THEN e ELSE e + Total - m

\* lastCounter: messages that failed to parse plus messages that were lost.
LastCounter(m, e) == e + Total - m

\* SerialLink::setBaudRate(): what is on the cable is lost.
SetBaudRate(r) == rate' = r /\ asked' = 0 /\ answers' = 0

\* The while loop that looks for the fastest rate without errors.
FirstWithoutError(errs) ==
  CHOOSE r \in Rate : errs[r] = 0 /\ \A q \in Rate : q < r => errs[q] # 0

\* detectBaudrates() at the end of the list or with a winner ends the
\* detection, otherwise it sets the next rate.
JudgeRate(m, s, sent, left) ==
  LET counter == LastCounter(m, errors)
      errs    == [errorOf EXCEPT ![index] = counter]
  IN /\ errorOf' = errs
     /\ verdict' = [verdict EXCEPT ![index] = Judged(s, errors)]
     /\ msgs' = 0 /\ errors' = 0 /\ silences' = 0
     /\ \/ /\ counter = 0
           /\ configuring' = FALSE
           /\ asked' = sent /\ answers' = left
           /\ UNCHANGED <<index, rate>>
        \/ /\ counter # 0 /\ index = NRates - 1
           /\ configuring' = FALSE
           /\ index' = FirstWithoutError(errs) - 1
           /\ SetBaudRate(FirstWithoutError(errs))
        \/ /\ counter # 0 /\ index # NRates - 1
           /\ index' = index + 1 /\ SetBaudRate(index + 1)
           /\ UNCHANGED configuring

\* count--, and back to the top if it was 0.
CountDown(n) == IF n = 0 THEN Total ELSE n - 1

\* checkBaudrateProcess(), called for a reply or a timeout that m and s
\* already count, with left replies on the cable.  The request goes out
\* first, at the old rate; the cable holds no more than Total messages.
\* Without a detection nobody reads the counters of messages.
CheckBaudrateProcess(m, s, left) ==
  LET sent == IF asked + left < Total THEN asked + 1 ELSE asked
  IN /\ count' = CountDown(count)
     /\ \/ /\ configuring /\ count = Total
           /\ JudgeRate(m, s, sent, left)
        \/ /\ ~(configuring /\ count = Total)
           /\ IF configuring THEN msgs' = m /\ silences' = s
                             ELSE UNCHANGED <<msgs, silences>>
           /\ asked' = sent /\ answers' = left
           /\ UNCHANGED <<configuring, index, errorOf, errors, rate, verdict>>

-----------------------------------------------------------------------------
\* Mutant: the fastest rate is not set.
StartConfigurationKeepsRate ==
  /\ starts < MaxStarts
  /\ starts' = starts + 1
  /\ configuring' = TRUE /\ profiling' = FALSE /\ timer' = TRUE
  /\ count' = CountDown(Total)
  /\ index' = 1
  /\ errorOf' = [r \in Rate |-> 0] /\ verdict' = [r \in Rate |-> "untested"]
  /\ msgs' = 0 /\ errors' = 0 /\ silences' = 0
  /\ SetBaudRate(rate)

\* startConfiguration(), 250 ms after a link was opened or by its button: it
\* sets _resetBaudRateDetection, with which checkBaudrateProcess() and
\* detectBaudrates() start over and set the fastest rate.
StartConfiguration ==
  /\ starts < MaxStarts
  /\ starts' = starts + 1
  /\ configuring' = TRUE /\ profiling' = FALSE /\ timer' = TRUE
  /\ count' = CountDown(Total)
  /\ index' = 1
  /\ errorOf' = [r \in Rate |-> 0] /\ verdict' = [r \in Rate |-> "untested"]
  /\ msgs' = 0 /\ errors' = 0 /\ silences' = 0
  /\ SetBaudRate(1)

\* Mutant: the timer is a single shot.
InfoTimeoutOnce == /\ timer
                   /\ timer' = FALSE
                   /\ CheckBaudrateProcess(msgs, silences + 1, answers)
                   /\ UNCHANGED <<profiling, starts>>

\* _baudrateConfigurationTimer: 100 ms without a reply.  The timer repeats.
InfoTimeout == /\ timer
               /\ CheckBaudrateProcess(msgs, silences + 1, answers)
               /\ UNCHANGED <<timer, profiling, starts>>

\* A reply arrives.  While configuring it triggers the next request,
\* afterwards it starts the profiles.
DeviceInformation ==
  /\ answers > 0
  /\ \/ /\ configuring
        /\ timer' = TRUE
        /\ CheckBaudrateProcess(msgs + 1, silences, answers - 1)
        /\ UNCHANGED profiling
     \/ /\ ~configuring
        /\ timer' = FALSE /\ profiling' = TRUE
        /\ answers' = answers - 1
        /\ UNCHANGED <<configuring, count, index, errorOf, msgs, errors, rate,
                       asked, silences, verdict>>
  /\ UNCHANGED starts

\* The device answers; a message is lost, or a reply is garbled.
Reply == /\ asked > 0
         /\ asked' = asked - 1 /\ answers' = answers + 1
         /\ UNCHANGED <<code, msgs, errors, silences, verdict, starts>>

LoseRequest == /\ asked > 0
               /\ asked' = asked - 1
               /\ UNCHANGED <<code, msgs, errors, answers, silences, verdict, starts>>

LoseReply == /\ answers > 0
             /\ answers' = answers - 1
             /\ errors' \in {errors, errors + 1} \cap 0..MaxErrors
             /\ UNCHANGED <<code, msgs, asked, silences, verdict, starts>>

Next == \/ StartConfiguration \/ InfoTimeout \/ DeviceInformation
        \/ Reply \/ LoseRequest \/ LoseReply

\* The timer repeats, and what has arrived is read.  Nothing is assumed of the
\* device.
Spec == /\ Init /\ [][Next]_vars
        /\ WF_vars(InfoTimeout) /\ WF_vars(DeviceInformation)

-----------------------------------------------------------------------------
TypeOK == /\ configuring \in BOOLEAN /\ timer \in BOOLEAN /\ profiling \in BOOLEAN
          /\ count \in 0..Total
          /\ index \in 0..(NRates - 1)
          /\ errorOf \in [Rate -> Int]
          /\ msgs \in Nat /\ errors \in 0..MaxErrors
          /\ rate \in Rate
          /\ asked \in 0..Total /\ answers \in Nat
          /\ silences \in Nat
          /\ verdict \in [Rate -> {"untested", "clean", "dirty"}]
          /\ starts \in 0..MaxStarts

\* The rate the detection ends with is the fastest at which nothing went
\* wrong, and the lowest if something went wrong at every rate that was tried
\* (the description of checkBaudrateProcess() in ping360.h).
BestRate == ~configuring =>
  /\ \A r \in Rate : r < rate => verdict[r] = "dirty"
  /\ rate # Lowest => verdict[rate] = "clean"

\* While a rate is under test, it is the rate of the port and the faster ones
\* have failed.
TestedInOrder == configuring /\ starts > 0 =>
  /\ rate = index
  /\ \A r \in Rate : IF r < rate THEN verdict[r] = "dirty"
                                 ELSE verdict[r] = "untested"

\* While a rate is under test every trigger so far was a reply or a timeout,
\* and the first was a timeout, that of the request which was on the cable when
\* the rate was set: this is what makes lastCounter 0 for a rate at which
\* nothing went wrong, and for no other.  Before the first detection nothing
\* happens.
Counted ==
  /\ configuring /\ starts > 0 =>
       /\ msgs + silences = IF count = Total THEN Total ELSE Total - 1 - count
       /\ silences = 0 => msgs = 0 /\ asked = 0 /\ answers = 0
       /\ \A r \in Rate : errorOf[r] = 0 <=> r >= index
  /\ starts = 0 => configuring /\ ~timer /\ asked = 0 /\ answers = 0

\* Those that need no verdict on the end; together with BestRate they are
\* inductive.
Inv == TypeOK /\ TestedInOrder /\ Counted

\* The detection ends, even if the device never answers.
DetectionEnds == (starts > 0) ~> ~configuring

\* Profiles are requested once the detection has ended, if the device answers
\* now and then: no lost message stops the asking.
ProfilesBegin == SF_vars(Reply) /\ SF_vars(DeviceInformation)
                   => ((starts > 0) ~> profiling)
=============================================================================
