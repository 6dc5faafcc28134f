------------------------- MODULE BaudDetectionProofs -------------------------
(***************************************************************************)
(* Proofs about BaudDetection, for any list of rates, any number of        *)
(* messages per rate and any number of detections, errors and losses.      *)
(***************************************************************************)
EXTENDS BaudDetection, TLAPS

IInv == Inv /\ BestRate

LEMMA Start == Init => IInv
<1> SUFFICES ASSUME Init PROVE IInv
  OBVIOUS
<1>1. TypeOK
  <2>1. /\ Total \in 0..Total /\ 0 \in 0..(NRates - 1) /\ 0 \in Nat /\ 0 \in Int
        /\ 0 \in 0..MaxErrors /\ 0 \in 0..Total /\ 0 \in 0..MaxStarts
    BY BaudAssumption
  <2>2. /\ [r \in Rate |-> 0] \in [Rate -> Int]
        /\ [r \in Rate |-> "untested"] \in [Rate -> {"untested", "clean", "dirty"}]
    BY <2>1, Zenon
  <2>3. QED
    BY <2>1, <2>2, Zenon DEF Init, TypeOK
<1>2. TestedInOrder /\ BestRate
  BY DEF Init, TestedInOrder, BestRate
<1>3. Counted
  BY DEF Init, Counted
<1>4. QED
  BY <1>1, <1>2, <1>3 DEF IInv, Inv

LEMMA CountDownFacts ==
  ASSUME count \in 0..Total
  PROVE  /\ CountDown(count) \in 0..Total
         /\ count = Total => CountDown(count) = Total - 1
         /\ count # Total => CountDown(count) = IF count = 0 THEN Total ELSE count - 1
BY BaudAssumption DEF CountDown

\* The rate a detection falls back to is the lowest, when all the others had
\* errors.
LEMMA Fallback ==
  ASSUME NEW errs, errs[NRates] = 0, \A r \in Rate : r < NRates => errs[r] # 0
  PROVE  FirstWithoutError(errs) = NRates
<1>1. NRates \in Rate /\ \A r \in Rate : r <= NRates
  BY BaudAssumption DEF Rate
<1>2. \E r \in Rate : errs[r] = 0 /\ \A q \in Rate : q < r => errs[q] # 0
  BY <1>1, Zenon
<1>3. PICK f : f = FirstWithoutError(errs)
  OBVIOUS
<1>4. f \in Rate /\ errs[f] = 0
  BY <1>2, <1>3, Zenon DEF FirstWithoutError
<1>5. ~(f < NRates) /\ f <= NRates
  BY <1>1, <1>4, Zenon
<1>6. QED
  BY <1>3, <1>4, <1>5, BaudAssumption DEF Rate

\* The messages of a test: what lastCounter says of it.
LEMMA CounterFacts ==
  ASSUME NEW m \in Nat, NEW s \in Nat, NEW e \in Nat, m + s = Total + 1, s >= 1
  PROVE  /\ LastCounter(m, e) \in Int
         /\ LastCounter(m, e) = 0 => Judged(s, e) = "clean"
         /\ LastCounter(m, e) # 0 => Judged(s, e) = "dirty"
BY BaudAssumption DEF LastCounter, Judged

\* A reply or a timeout that m and s already count, with left replies that are
\* still to be read.
LEMMA Triggered ==
  ASSUME IInv, starts > 0, NEW m \in Nat, NEW s \in Nat, NEW left \in Nat,
         CheckBaudrateProcess(m, s, left), UNCHANGED starts,
         timer' \in BOOLEAN, profiling' \in BOOLEAN,
         configuring => m + s = msgs + silences + 1 /\ s >= 1
  PROVE  IInv'
<1> DEFINE sent == IF asked + left < Total THEN asked + 1 ELSE asked
<1>0. TypeOK /\ TestedInOrder /\ Counted /\ BestRate
  BY DEF IInv, Inv
<1>1. sent \in 0..Total
  BY <1>0, BaudAssumption DEF TypeOK
<1>2. /\ count' \in 0..Total /\ starts' = starts /\ starts \in 0..MaxStarts
      /\ count = Total => count' = Total - 1
      /\ count # Total => count' = IF count = 0 THEN Total ELSE count - 1
  BY <1>0, CountDownFacts DEF TypeOK, CheckBaudrateProcess
<1> HIDE DEF sent
<1>9. 0 \in Nat /\ 0 \in Int /\ 0 \in 0..MaxErrors /\ 0 \in 0..Total /\ FALSE \in BOOLEAN
  BY BaudAssumption
<1>3. CASE configuring /\ count = Total
  <2> DEFINE counter == LastCounter(m, errors)
             errs    == [errorOf EXCEPT ![index] = counter]
  <2>1. JudgeRate(m, s, sent, left)
    BY <1>3, Zenon DEF CheckBaudrateProcess, sent
  <2>2. /\ rate = index /\ rate \in Rate
        /\ \A r \in Rate : IF r < rate THEN verdict[r] = "dirty" ELSE verdict[r] = "untested"
        /\ \A r \in Rate : errorOf[r] = 0 <=> r >= index
    BY <1>0, <1>3 DEF TestedInOrder, Counted, TypeOK
  <2>3. m + s = Total + 1 /\ s >= 1 /\ errors \in Nat
    BY <1>0, <1>3, BaudAssumption DEF Counted, TypeOK
  <2>4. /\ counter \in Int
        /\ counter = 0 => Judged(s, errors) = "clean"
        /\ counter # 0 => Judged(s, errors) = "dirty"
    BY <2>3, CounterFacts
  <2>5. /\ errorOf \in [Rate -> Int] /\ verdict \in [Rate -> {"untested", "clean", "dirty"}]
        /\ index \in Rate /\ index \in 0..(NRates - 1)
    BY <1>0, <2>2 DEF TypeOK
  <2> HIDE DEF counter
  <2>6. /\ errs \in [Rate -> Int] /\ errs[index] = counter
        /\ \A r \in Rate : r # index => errs[r] = errorOf[r]
    BY <2>4, <2>5
  <2>7. /\ errorOf' = errs /\ verdict' = [verdict EXCEPT ![index] = Judged(s, errors)]
        /\ msgs' = 0 /\ errors' = 0 /\ silences' = 0
        /\ \/ /\ counter = 0
              /\ configuring' = FALSE /\ ~configuring' /\ asked' = sent /\ answers' = left
              /\ index' = index /\ rate' = rate
           \/ /\ counter # 0 /\ index = NRates - 1
              /\ configuring' = FALSE /\ ~configuring' /\ asked' = 0 /\ answers' = 0
              /\ index' = FirstWithoutError(errs) - 1
              /\ rate' = FirstWithoutError(errs)
           \/ /\ counter # 0 /\ index # NRates - 1
              /\ index' = index + 1 /\ rate' = index + 1
              /\ asked' = 0 /\ answers' = 0 /\ configuring' = configuring
    BY <2>1 DEF JudgeRate, SetBaudRate, counter
  <2>8. /\ verdict' \in [Rate -> {"untested", "clean", "dirty"}]
        /\ verdict'[index] = Judged(s, errors)
        /\ \A r \in Rate : r # index => verdict'[r] = verdict[r]
    BY <2>4, <2>5, <2>7
  <2> HIDE DEF errs
  <2>13. /\ errorOf' \in [Rate -> Int] /\ msgs' \in Nat /\ errors' \in 0..MaxErrors
         /\ silences' \in Nat /\ verdict' \in [Rate -> {"untested", "clean", "dirty"}]
         /\ count' \in 0..Total /\ starts' \in 0..MaxStarts
    <3>1. errorOf' = errs /\ msgs' = 0 /\ errors' = 0 /\ silences' = 0
      BY <2>7, Zenon
    <3>2. errorOf' \in [Rate -> Int]
      BY <2>6, <3>1, Zenon
    <3>3. starts' \in 0..MaxStarts
      BY <1>2, Zenon
    <3>4. QED
      BY <1>2, <1>9, <2>8, <3>1, <3>2, <3>3
  <2>9. CASE counter = 0
    <3>1. /\ configuring' = FALSE /\ ~configuring' /\ asked' = sent /\ answers' = left
          /\ index' = index /\ rate' = rate
      BY <2>7, <2>9
    <3>2. TypeOK'
      BY <1>0, <1>1, <1>9, <2>13, <3>1, Zenon DEF TypeOK
    <3>3. TestedInOrder' /\ Counted'
      BY <1>2, <3>1, BaudAssumption DEF TestedInOrder, Counted
    <3>4. BestRate'
      BY <2>2, <2>4, <2>5, <2>8, <2>9, <3>1 DEF BestRate, Rate
    <3>5. QED
      BY <3>2, <3>3, <3>4 DEF IInv, Inv
  <2>10. CASE counter # 0 /\ index = NRates - 1
    <3>1. /\ configuring' = FALSE /\ ~configuring' /\ asked' = 0 /\ answers' = 0
          /\ index' = FirstWithoutError(errs) - 1
          /\ rate' = FirstWithoutError(errs)
      BY <2>7, <2>10
    <3>2. FirstWithoutError(errs) = NRates
      <4>1. errs[NRates] = 0
        BY <2>2, <2>5, <2>6, <2>10, BaudAssumption DEF Rate
      <4>2. \A r \in Rate : r < NRates => errs[r] # 0
        BY <2>2, <2>5, <2>6, <2>10, BaudAssumption DEF Rate
      <4>3. QED
        BY <4>1, <4>2, Fallback
    <3>3. rate' = NRates /\ index' = NRates - 1 /\ index' \in 0..(NRates - 1) /\ rate' \in Rate
      BY <3>1, <3>2, BaudAssumption DEF Rate
    <3>4. TypeOK'
      BY <1>0, <1>9, <2>13, <3>1, <3>3, Zenon DEF TypeOK
    <3>5. TestedInOrder' /\ Counted'
      BY <1>2, <3>1, BaudAssumption DEF TestedInOrder, Counted
    <3>6. \A r \in Rate : r < NRates => verdict'[r] = "dirty"
      BY <2>2, <2>4, <2>5, <2>8, <2>10, BaudAssumption DEF Rate
    <3>7. BestRate'
      BY <3>3, <3>6 DEF BestRate, Lowest
    <3>8. QED
      BY <3>4, <3>5, <3>7 DEF IInv, Inv
  <2>11. CASE counter # 0 /\ index # NRates - 1
    <3>1. /\ index' = index + 1 /\ rate' = index + 1
          /\ asked' = 0 /\ answers' = 0 /\ configuring' = configuring
      BY <2>7, <2>11
    <3>2. index' \in 0..(NRates - 1) /\ rate' \in Rate
      BY <2>5, <2>11, <3>1, BaudAssumption DEF Rate
    <3>3. TypeOK'
      BY <1>0, <1>9, <2>13, <3>1, <3>2, Zenon DEF TypeOK
    <3>4. TestedInOrder'
      BY <2>2, <2>4, <2>5, <2>8, <2>11, <3>1 DEF TestedInOrder, Rate
    <3>5. \A r \in Rate : errorOf'[r] = 0 <=> r >= index'
      BY <2>2, <2>5, <2>6, <2>7, <2>11, <3>1 DEF Rate
    <3>6. Counted'
      <4>1. 0 + 0 = IF Total - 1 = Total THEN Total ELSE Total - 1 - (Total - 1)
        BY BaudAssumption
      <4>2. starts > 0 /\ starts # 0
        BY <1>2
      <4>3. QED
        <5>1. msgs' = 0 /\ silences' = 0 /\ count' = Total - 1 /\ starts' = starts
          BY <1>2, <1>3, <2>7, Zenon
        <5>2. msgs' + silences' = IF count' = Total THEN Total ELSE Total - 1 - count'
          BY <4>1, <5>1, Zenon
        <5>3. QED
          BY <3>1, <3>5, <4>2, <5>1, <5>2, Zenon DEF Counted
    <3>7. BestRate'
      BY <1>3, <3>1 DEF BestRate
    <3>8. QED
      BY <3>3, <3>4, <3>6, <3>7 DEF IInv, Inv
  <2>12. QED
    BY <2>9, <2>10, <2>11
<1>4. CASE ~(configuring /\ count = Total)
  <2>1. /\ IF configuring THEN msgs' = m /\ silences' = s
                          ELSE msgs' = msgs /\ silences' = silences
        /\ asked' = sent /\ answers' = left
        /\ configuring' = configuring /\ index' = index /\ errorOf' = errorOf
        /\ errors' = errors /\ rate' = rate /\ verdict' = verdict
    BY <1>4 DEF CheckBaudrateProcess, sent
  <2>2. TypeOK'
    <3>1. msgs' \in Nat /\ silences' \in Nat
      BY <1>0, <2>1, Zenon DEF TypeOK
    <3>2. starts' \in 0..MaxStarts /\ count' \in 0..Total
      BY <1>2, Zenon
    <3>3. QED
      BY <1>0, <1>1, <2>1, <3>1, <3>2, Zenon DEF TypeOK
  <2>3. TestedInOrder' /\ BestRate'
    BY <1>0, <1>2, <2>1 DEF TestedInOrder, BestRate
  <2>4. Counted'
    <3>1. CASE configuring
      <4>1. /\ msgs + silences = IF count = Total THEN Total ELSE Total - 1 - count
            /\ m + s = msgs + silences + 1 /\ s >= 1
            /\ \A r \in Rate : errorOf[r] = 0 <=> r >= index
            /\ count \in 0..Total /\ count # Total
            /\ msgs \in Nat /\ silences \in Nat
        BY <1>0, <1>4, <3>1, Zenon DEF Counted, TypeOK
      <4>2. m + s = IF count' = Total THEN Total ELSE Total - 1 - count'
        <5>1. PICK c \in 0..Total : c = count /\ c # Total
          BY <4>1
        <5>2. PICK d : d = count' /\ d = IF c = 0 THEN Total ELSE c - 1
          BY <1>2, <5>1, Zenon
        <5>3. m + s = Total - 1 - c + 1
          BY <4>1, <5>1
        <5>4. m + s = IF d = Total THEN Total ELSE Total - 1 - d
          BY <5>1, <5>2, <5>3, BaudAssumption
        <5>5. QED
          BY <5>2, <5>4, Zenon
      <4>3. s # 0 /\ starts # 0
        BY <1>2, <4>1
      <4>4. QED
        BY <1>2, <2>1, <3>1, <4>1, <4>2, <4>3, Zenon DEF Counted
    <3>2. CASE ~configuring
      <4>1. starts # 0
        BY <1>2
      <4>2. QED
        BY <1>2, <2>1, <3>2, <4>1, Zenon DEF Counted
    <3>3. QED
      BY <3>1, <3>2
  <2>5. QED
    BY <2>2, <2>3, <2>4 DEF IInv, Inv
<1>5. QED
  BY <1>3, <1>4

LEMMA Step == IInv /\ [Next]_vars => IInv'
<1> SUFFICES ASSUME IInv, [Next]_vars PROVE IInv'
  OBVIOUS
<1>0. TypeOK /\ TestedInOrder /\ Counted /\ BestRate
  BY DEF IInv, Inv
<1>1. CASE StartConfiguration
  <2>1. /\ starts' = starts + 1 /\ starts' \in 0..MaxStarts /\ starts' > 0
        /\ configuring' /\ configuring' \in BOOLEAN /\ profiling' = FALSE /\ timer' = TRUE
        /\ count' = Total - 1 /\ index' = 1
        /\ errorOf' = [r \in Rate |-> 0] /\ verdict' = [r \in Rate |-> "untested"]
        /\ msgs' = 0 /\ errors' = 0 /\ silences' = 0
        /\ rate' = 1 /\ asked' = 0 /\ answers' = 0
    BY <1>0, <1>1, BaudAssumption DEF StartConfiguration, SetBaudRate, CountDown, TypeOK
  <2>2. TypeOK'
    <3>1. /\ Total - 1 \in 0..Total /\ 1 \in 0..(NRates - 1) /\ 1 \in Rate
          /\ 0 \in Nat /\ 0 \in Int /\ 0 \in 0..MaxErrors /\ 0 \in 0..Total
      BY BaudAssumption DEF Rate
    <3>2. /\ errorOf' \in [Rate -> Int]
          /\ verdict' \in [Rate -> {"untested", "clean", "dirty"}]
      BY <2>1, <3>1, Zenon
    <3>3. QED
      BY <2>1, <3>1, <3>2, Zenon DEF TypeOK
  <2>3. TestedInOrder' /\ BestRate'
    BY <2>1 DEF TestedInOrder, BestRate, Rate
  <2>4. Counted'
    BY <2>1, BaudAssumption DEF Counted, Rate
  <2>5. QED
    BY <2>2, <2>3, <2>4 DEF IInv, Inv
<1>2. CASE InfoTimeout
  <2>1. starts > 0
    BY <1>0, <1>2 DEF InfoTimeout, Counted, TypeOK
  <2>2. /\ msgs \in Nat /\ silences + 1 \in Nat /\ answers \in Nat
        /\ timer' \in BOOLEAN /\ profiling' \in BOOLEAN /\ UNCHANGED starts
        /\ CheckBaudrateProcess(msgs, silences + 1, answers)
        /\ msgs + (silences + 1) = msgs + silences + 1 /\ silences + 1 >= 1
    BY <1>0, <1>2 DEF InfoTimeout, TypeOK
  <2>3. QED
    BY <2>1, <2>2, Triggered, Zenon
<1>3. CASE DeviceInformation
  <2>1. starts > 0 /\ answers > 0 /\ (configuring => silences >= 1)
    BY <1>0, <1>3 DEF DeviceInformation, Counted, TypeOK
  <2>2. CASE configuring
    <3>1. /\ msgs + 1 \in Nat /\ silences \in Nat /\ answers - 1 \in Nat
          /\ timer' \in BOOLEAN /\ profiling' \in BOOLEAN /\ UNCHANGED starts
          /\ CheckBaudrateProcess(msgs + 1, silences, answers - 1)
          /\ msgs + 1 + silences = msgs + silences + 1 /\ silences >= 1
      BY <1>0, <1>3, <2>1, <2>2 DEF DeviceInformation, TypeOK
    <3>2. QED
      BY <2>1, <3>1, Triggered, Zenon
  <2>3. CASE ~configuring
    <3>1. /\ timer' = FALSE /\ profiling' = TRUE /\ answers' = answers - 1
          /\ UNCHANGED <<configuring, count, index, errorOf, msgs, errors, rate,
                         asked, silences, verdict, starts>>
      BY <1>3, <2>3 DEF DeviceInformation
    <3>2. TypeOK'
      <4>1. answers' \in Nat
        BY <1>0, <2>1, <3>1 DEF TypeOK
      <4>2. QED
        BY <1>0, <3>1, <4>1, Zenon DEF TypeOK
    <3>3. TestedInOrder' /\ Counted' /\ BestRate'
      BY <1>0, <2>1, <2>3, <3>1 DEF TestedInOrder, Counted, BestRate
    <3>4. QED
      BY <3>2, <3>3 DEF IInv, Inv
  <2>4. QED
    BY <2>2, <2>3
<1>4. CASE Reply \/ LoseRequest \/ LoseReply
  <2>1. /\ UNCHANGED <<configuring, count, index, errorOf, timer, profiling, rate,
                       msgs, silences, verdict, starts>>
        /\ asked > 0 \/ answers > 0
        /\ asked' \in 0..Total /\ answers' \in Nat /\ errors' \in 0..MaxErrors
    <3>1. CASE Reply
      <4>1. /\ asked \in 0..Total /\ asked > 0 /\ asked' = asked - 1
            /\ answers \in Nat /\ answers' = answers + 1 /\ errors \in 0..MaxErrors
            /\ UNCHANGED <<configuring, count, index, errorOf, timer, profiling, rate,
                           msgs, errors, silences, verdict, starts>>
        BY <1>0, <3>1, Zenon DEF Reply, code, TypeOK
      <4>2. QED
        BY <4>1, BaudAssumption
    <3>2. CASE LoseRequest
      <4>1. /\ asked \in 0..Total /\ asked > 0 /\ asked' = asked - 1
            /\ answers \in Nat /\ answers' = answers /\ errors \in 0..MaxErrors
            /\ UNCHANGED <<configuring, count, index, errorOf, timer, profiling, rate,
                           msgs, errors, silences, verdict, starts>>
        BY <1>0, <3>2, Zenon DEF LoseRequest, code, TypeOK
      <4>2. QED
        BY <4>1, BaudAssumption
    <3>3. CASE LoseReply
      BY <1>0, <3>3 DEF LoseReply, code, TypeOK
    <3>4. QED
      BY <1>4, <3>1, <3>2, <3>3
  <2>2. TypeOK'
    BY <1>0, <2>1 DEF TypeOK
  <2>3. TestedInOrder' /\ BestRate'
    BY <1>0, <2>1 DEF TestedInOrder, BestRate
  <2>4. Counted'
    BY <1>0, <2>1 DEF Counted, TypeOK
  <2>5. QED
    BY <2>2, <2>3, <2>4 DEF IInv, Inv
<1>5. CASE UNCHANGED vars
  <2>1. UNCHANGED <<configuring, count, index, errorOf, timer, profiling, rate, asked, answers,
                    msgs, errors, silences, verdict, starts>>
    BY <1>5 DEF vars, code, cable
  <2>2. QED
    BY <1>0, <2>1 DEF IInv, Inv, TypeOK, TestedInOrder, Counted, BestRate
<1>6. QED
  BY <1>1, <1>2, <1>3, <1>4, <1>5 DEF Next

\* checkBaudrateProcess() tests the rates one after the other, and its counters
\* count what came since the rate under test was set.
THEOREM DetectionInvariant == Spec => []Inv
<1>1. Spec => []IInv
  BY Start, Step, PTL DEF Spec
<1>2. IInv => Inv
  BY DEF IInv
<1>3. QED
  BY <1>1, <1>2, PTL

\* The detection ends with the fastest rate at which no message was lost or
\* garbled, and with the lowest if there was something at each of the others,
\* however requests, replies and timeouts come.
THEOREM BestRateIsKept == Spec => []BestRate
<1>1. Spec => []IInv
  BY Start, Step, PTL DEF Spec
<1>2. IInv => BestRate
  BY DEF IInv
<1>3. QED
  BY <1>1, <1>2, PTL

=============================================================================
