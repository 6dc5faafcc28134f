-------------------------- MODULE Ping360ViewProofs ---------------------------
(***************************************************************************)
(* Proofs about SectorScan and Ping360View, for any resolution, sectors,   *)
(* angular speeds, ranges, speeds of sound, pulses and recordings, and any *)
(* number of changes of the settings.                                      *)
(***************************************************************************)
EXTENDS Ping360View, TLAPS

-----------------------------------------------------------------------------
\* Remainders and quotients by any divisor.

LEMMA Product ==
  ASSUME NEW b \in Nat \ {0}, NEW q \in Int
  PROVE  /\ q >= 1 => b * q >= b
         /\ q <= -1 => b * q <= -b
OBVIOUS

LEMMA DivMod ==
  ASSUME NEW b \in Nat \ {0}, NEW x \in Int
  PROVE  /\ x \div b \in Int /\ x % b \in 0..(b - 1)
         /\ x = b * (x \div b) + (x % b)
OBVIOUS

LEMMA ModUnique ==
  ASSUME NEW b \in Nat \ {0}, NEW r \in 0..(b - 1), NEW k \in Int,
         NEW x \in Int, x = b * k + r
  PROVE  x % b = r
<1>1. PICK q \in Int : x % b \in 0..(b - 1) /\ x = b * q + (x % b)
  BY DivMod
<1>2. b * (k - q) = (x % b) - r
  BY <1>1
<1>3. k - q = 0
  BY <1>1, <1>2, Product
<1>4. QED
  BY <1>1, <1>3

\* An offset may be added to an angle before a step or after it.
LEMMA Offsets ==
  ASSUME NEW b \in Nat \ {0}, NEW a \in Int, NEW steps \in Int, NEW h \in Int
  PROVE  (steps + ((a + h) % b) + b) % b = (((a + steps) % b) + h) % b
<1>1. ASSUME NEW x \in Int
      PROVE  \E r \in 0..(b - 1) : \E k \in Int : r = x % b /\ x = b * k + r
  BY DivMod, Zenon
<1>2. PICK d \in 0..(b - 1) : \E k \in Int : d = (a + steps) % b /\ a + steps = b * k + d
  <2>1. a + steps \in Int
    OBVIOUS
  <2>2. QED
    BY <1>1, <2>1, Zenon
<1>3. PICK t \in 0..(b - 1) : \E k \in Int : t = (d + h) % b /\ d + h = b * k + t
  <2>1. d + h \in Int
    OBVIOUS
  <2>2. QED
    BY <1>1, <2>1, Zenon
<1>4. PICK s \in 0..(b - 1) : \E k \in Int : s = (a + h) % b /\ a + h = b * k + s
  <2>1. a + h \in Int
    OBVIOUS
  <2>2. QED
    BY <1>1, <2>1, Zenon
<1>5. PICK k1 \in Int, k2 \in Int, k3 \in Int :
        /\ a + steps = b * k1 + d
        /\ d + h = b * k2 + t
        /\ a + h = b * k3 + s
  BY <1>2, <1>3, <1>4, Zenon
<1>6. PICK x \in Int : x = steps + s + b
  OBVIOUS
<1>7. PICK k \in Int : k = 1 - k3 + k1 + k2
  OBVIOUS
<1>8. b * k = b - b * k3 + b * k1 + b * k2
  BY <1>7
<1>9. x = b * k + t
  BY <1>5, <1>6, <1>8
<1>10. x % b = t
  BY <1>9, ModUnique
<1>11. QED
  BY <1>2, <1>3, <1>4, <1>6, <1>10

-----------------------------------------------------------------------------
\* The head and its sector.

LEMMA HalfFacts == /\ Res \in Nat \ {0} /\ Half \in Nat \ {0} /\ Res = 2 * Half
                   /\ \A s \in Sectors : s \in 1..Res /\ s \div 2 \in 0..Half
BY ScanAssumption DEF Half

LEMMA SeenFacts == \A a \in Angle : Seen(a) \in Angle
<1> SUFFICES ASSUME NEW a \in Angle PROVE Seen(a) \in Angle
  OBVIOUS
<1>1. a + Half \in Int /\ Res \in Nat \ {0}
  BY HalfFacts DEF Angle
<1>2. QED
  BY <1>1, DivMod DEF Seen, Angle

\* A step as it is seen from the centre is where the head is then seen.
LEMMA StepFacts ==
  ASSUME NEW a \in Angle, NEW steps \in Int
  PROVE  /\ DeltaStep(a, steps) \in Angle
         /\ Relative(DeltaStep(a, steps), 0) = Relative(a, steps)
<1> DEFINE d == DeltaStep(a, steps)
<1>1. a \in Int /\ a + steps \in Int /\ Half \in Int /\ Res \in Nat \ {0}
  BY HalfFacts DEF Angle
<1>2. d \in Angle /\ d \in Int /\ d + Half \in Int
  BY <1>1, DivMod DEF DeltaStep, Angle
<1>3. (steps + Seen(a) + Res) % Res = Seen(d)
  BY <1>1, Offsets DEF Seen, DeltaStep
<1>4. Seen(d) \in 0..(Res - 1)
  BY <1>1, <1>2, DivMod DEF Seen
<1> HIDE DEF d
<1>5. (0 + Seen(d) + Res) % Res = Seen(d)
  <2>1. PICK x \in Int : x = 0 + Seen(d) + Res
    BY <1>1, <1>4
  <2>2. x = Res * 1 + Seen(d)
    BY <1>1, <1>4, <2>1
  <2>3. x % Res = Seen(d)
    BY <1>1, <1>4, <2>2, ModUnique
  <2>4. QED
    BY <2>1, <2>3
<1>6. Relative(d, 0) = Relative(a, steps)
  BY <1>3, <1>5 DEF Relative
<1>7. QED
  BY <1>2, <1>6 DEF d

\* The centre is in every sector, and every step in a full circle.
LEMMA InsideFacts ==
  ASSUME NEW a \in Angle, NEW steps \in Int, sector \in Sectors
  PROVE  /\ DeltaStep(a, steps) \in Angle
         /\ IsInside(a, steps) => InSector(DeltaStep(a, steps))
         /\ InSector(DeltaStep(a, -Seen(a)))
         /\ sector = Res => IsInside(a, steps)
<1> USE HalfFacts
<1>1. /\ DeltaStep(a, steps) \in Angle
      /\ IsInside(a, steps) => InSector(DeltaStep(a, steps))
  BY StepFacts DEF IsInside, InSector
<1>2. InSector(DeltaStep(a, -Seen(a)))
  <2>1. Seen(a) \in Int /\ -Seen(a) \in Int
    BY SeenFacts DEF Angle
  <2>2. (-Seen(a) + Seen(a) + Res) % Res = 0
    <3>1. -Seen(a) + Seen(a) + Res = Res * 1 + 0
      BY <2>1
    <3>2. QED
      BY <3>1, ModUnique
  <2>3. Relative(a, -Seen(a)) = 0
    BY <2>2 DEF Relative
  <2>4. QED
    BY SMTT(30), <2>1, <2>3, StepFacts DEF InSector
<1>3. ASSUME sector = Res PROVE IsInside(a, steps)
  <2> DEFINE seen == (steps + Seen(a) + Res) % Res
  <2>1. seen \in 0..(Res - 1)
    <3>1. steps + Seen(a) + Res \in Int
      BY SeenFacts DEF Angle
    <3>2. QED
      BY <3>1, DivMod
  <2>2. Relative(a, steps) = IF seen >= Half THEN seen - Res ELSE seen
    BY DEF Relative
  <2> HIDE DEF seen
  <2>3. Relative(a, steps) \in -Half..Half
    BY <2>1, <2>2
  <2>4. sector \div 2 = Half
    BY <1>3 DEF Half
  <2>5. QED
    BY <2>3, <2>4 DEF IsInside
<1>4. QED
  BY <1>1, <1>2, <1>3

LEMMA ForthFacts ==
  ASSUME speed \in Speeds
  PROVE  Forth \in Int /\ -Forth \in Int /\ -(-Forth) = Forth
BY ScanAssumption DEF Forth

LEMMA TurnFacts ==
  ASSUME speed \in Speeds, reverse \in BOOLEAN, speed' = speed, reverse' = ~reverse
  PROVE  Forth' = -Forth
<1>1. speed \in Int
  BY ScanAssumption
<1>2. CASE reverse
  <2>1. ~reverse'
    BY <1>2, Zenon
  <2>2. QED
    BY <1>1, <1>2, <2>1 DEF Forth
<1>3. CASE ~reverse
  <2>1. reverse'
    BY <1>3, Zenon
  <2>2. QED
    BY <1>1, <1>3, <2>1 DEF Forth
<1>4. QED
  BY <1>2, <1>3

\* What each way of asking leaves.
LEMMA RequestFacts ==
  ASSUME NEW a \in Angle, sector \in Sectors, speed \in Speeds, reverse \in BOOLEAN,
         LegacyProfileRequest(a)
  PROVE  /\ target' \in Angle /\ reverse' \in BOOLEAN
         /\ InSector(target')
         /\ sector = Res /\ ~reverse => ~reverse'
<1>1. Forth \in Int /\ -Forth \in Int /\ -Seen(a) \in Int
  BY ForthFacts, SeenFacts DEF Angle
<1>2. CASE IsInside(a, Forth) /\ target' = DeltaStep(a, Forth) /\ UNCHANGED reverse
  BY <1>1, <1>2, InsideFacts
<1>3. CASE /\ ~IsInside(a, Forth) /\ IsInside(a, -Forth)
           /\ target' = DeltaStep(a, -Forth) /\ reverse' = ~reverse
  BY <1>1, <1>3, InsideFacts
<1>4. CASE /\ ~IsInside(a, Forth) /\ ~IsInside(a, -Forth)
           /\ target' = DeltaStep(a, -Seen(a)) /\ UNCHANGED reverse
  BY <1>1, <1>4, InsideFacts
<1>5. QED
  BY <1>2, <1>3, <1>4 DEF LegacyProfileRequest

\* After a request the same would be asked for again.
LEMMA RequestAgain ==
  ASSUME NEW a \in Angle, speed \in Speeds, reverse \in BOOLEAN,
         LegacyProfileRequest(a), head' = a, UNCHANGED <<sector, speed>>
  PROVE  RequestStands'
<1> USE DEF RequestStands, IsInside, Relative, Seen, DeltaStep
<1>1. CASE IsInside(a, Forth) /\ target' = DeltaStep(a, Forth) /\ UNCHANGED reverse
  BY <1>1 DEF Forth
<1>2. CASE IsInside(a, -Forth) /\ target' = DeltaStep(a, -Forth) /\ reverse' = ~reverse
  BY <1>2, TurnFacts
<1>3. CASE /\ ~IsInside(a, Forth) /\ ~IsInside(a, -Forth)
           /\ target' = DeltaStep(a, -Seen(a)) /\ UNCHANGED reverse
  BY <1>3 DEF Forth
<1>4. QED
  BY <1>1, <1>2, <1>3 DEF LegacyProfileRequest

\* And what stands is what is asked for, with the same direction.
LEMMA StandsRepeats ==
  ASSUME RequestStands, fresh, LegacyProfileRequest(head)
  PROVE  target' = target /\ reverse' = reverse
BY Zenon DEF RequestStands, LegacyProfileRequest

\* What is on the way.
Req == [angle: Angle, measured: MeasuredSet, current: BOOLEAN]

CurrentInside(q) == \A i \in DOMAIN q : q[i].current => InSector(q[i].angle)

LEMMA QueueFacts ==
  ASSUME NEW S, NEW q \in Seq(S)
  PROVE  /\ Len(q) \in Nat /\ DOMAIN q = 1..Len(q)
         /\ \A i \in DOMAIN q : q[i] \in S
OBVIOUS

LEMMA HeadAndTail ==
  ASSUME NEW S, NEW q \in Seq(S), q # <<>>
  PROVE  /\ 1 \in DOMAIN q /\ Head(q) = q[1] /\ Head(q) \in S
         /\ Tail(q) \in Seq(S) /\ Len(Tail(q)) = Len(q) - 1
         /\ \A i \in DOMAIN Tail(q) : i + 1 \in DOMAIN q /\ Tail(q)[i] = q[i + 1]
OBVIOUS

LEMMA Appended ==
  ASSUME NEW S, NEW q \in Seq(S), NEW r \in S
  PROVE  /\ Append(q, r) \in Seq(S) /\ Len(Append(q, r)) = Len(q) + 1
         /\ \A i \in DOMAIN Append(q, r) :
              \/ i \in DOMAIN q /\ Append(q, r)[i] = q[i]
              \/ Append(q, r)[i] = r
OBVIOUS

LEMMA TailInside ==
  ASSUME NEW q \in Seq(Req), q # <<>>, CurrentInside(q)
  PROVE  CurrentInside(Tail(q))
<1>1. \A i \in DOMAIN Tail(q) : i + 1 \in DOMAIN q /\ Tail(q)[i] = q[i + 1]
  BY HeadAndTail, Zenon
<1>2. QED
  BY <1>1, Zenon DEF CurrentInside

\* The scan, whatever is shown of it.
ScanInv == /\ TypeOK /\ StaysInSector /\ FullCircleForward /\ RequestStands
           /\ requests \in Seq(Req)

LEMMA ScanFacts ==
  ASSUME ScanInv
  PROVE  /\ sector \in Sectors /\ speed \in Speeds /\ reverse \in BOOLEAN
         /\ head \in Angle /\ requests \in Seq(Req) /\ CurrentInside(requests)
         /\ Len(requests) \in Nat /\ Len(requests) <= MaxOnWay
         /\ changes \in 0..MaxChanges /\ settled \in BOOLEAN
         /\ settled => InSector(head)
         /\ sector = Res => ~reverse
<1>1. Len(requests) \in Nat /\ Len(requests) <= MaxOnWay
  BY ScanAssumption DEF ScanInv, TypeOK
<1>2. QED
  BY <1>1, Zenon DEF ScanInv, TypeOK, StaysInSector, FullCircleForward, CurrentInside

LEMMA ScanInit == Init => ScanInv
<1> SUFFICES ASSUME Init PROVE ScanInv
  OBVIOUS
<1>1. Half \in Angle
  BY HalfFacts DEF Angle
<1>2. Res \in Sectors /\ 0 \in 0..MaxChanges /\ 0 \in 0..MaxOnWay
  BY ScanAssumption
<1>3. requests = <<>> /\ Len(requests) = 0 /\ DOMAIN requests = {} /\ requests \in Seq(Req)
  BY DEF Init
<1>4. TypeOK
  BY <1>1, <1>2, <1>3 DEF Init, TypeOK
<1>5. QED
  BY <1>3, <1>4 DEF Init, ScanInv, StaysInSector, FullCircleForward, RequestStands

\* The sector is the same in a step that leaves it alone.
LEMMA SameSector ==
  ASSUME sector' = sector
  PROVE  \A x : InSector(x) => InSector(x)'
BY DEF InSector, Relative, Seen

\* A request behind those that are left of the ones on the way.
LEMMA AskScan ==
  ASSUME ScanInv, NEW a \in Angle, NEW before \in Seq(Req), Len(before) < MaxOnWay,
         CurrentInside(before), NEW m \in MeasuredSet, Ask(a, before, m),
         head' = a, UNCHANGED <<sector, speed>>, changes' \in 0..MaxChanges,
         settled' \in BOOLEAN, settled' => InSector(a)
  PROVE  ScanInv'
<1> DEFINE r == [angle |-> target', measured |-> m, current |-> TRUE]
<1>1. /\ LegacyProfileRequest(a) /\ requests' = Append(before, r) /\ fresh' = TRUE
  BY Zenon DEF Ask
<1>2. /\ target' \in Angle /\ reverse' \in BOOLEAN
      /\ InSector(target') /\ (sector = Res /\ ~reverse => ~reverse')
  BY <1>1, ScanFacts, RequestFacts, Zenon
<1>3. r \in Req /\ r.angle = target'
  BY <1>2 DEF Req
<1> HIDE DEF r
<1>4. /\ requests' \in Seq(Req) /\ Len(requests') = Len(before) + 1
      /\ \A i \in DOMAIN requests' : \/ i \in DOMAIN before /\ requests'[i] = before[i]
                                     \/ requests'[i] = r
  BY <1>1, <1>3, Appended, Zenon
<1>5. Len(requests') \in 0..MaxOnWay
  BY <1>4, QueueFacts, ScanAssumption
<1>6. TypeOK'
  BY <1>1, <1>2, <1>5, ScanFacts, Zenon DEF TypeOK
<1>7. RequestStands'
  BY <1>1, ScanFacts, RequestAgain, Zenon
<1>8. StaysInSector'
  <2>1. \A x : InSector(x) => InSector(x)'
    BY SameSector, Zenon
  <2>2. \A i \in DOMAIN requests' : requests'[i].current => InSector(requests'[i].angle)
    BY <1>2, <1>3, <1>4, Zenon DEF CurrentInside
  <2>3. QED
    BY <1>2, <2>1, <2>2, Zenon DEF StaysInSector
<1>9. FullCircleForward'
  BY <1>2, ScanFacts, Zenon DEF FullCircleForward
<1>10. QED
  BY <1>4, <1>6, <1>7, <1>8, <1>9, Zenon DEF ScanInv

\* What a reply, or its loss, leaves on the way.
LEMMA Answered ==
  ASSUME ScanInv, requests # <<>>
  PROVE  /\ Head(requests) \in Req /\ Head(requests).angle \in Angle
         /\ Head(requests).current \in BOOLEAN
         /\ Head(requests).current => InSector(Head(requests).angle)
         /\ Tail(requests) \in Seq(Req) /\ Len(Tail(requests)) = Len(requests) - 1
         /\ Len(Tail(requests)) < MaxOnWay /\ CurrentInside(Tail(requests))
<1>1. requests \in Seq(Req) /\ CurrentInside(requests) /\ Len(requests) \in Nat
      /\ Len(requests) <= MaxOnWay
  BY ScanFacts, Zenon
<1>2. /\ 1 \in DOMAIN requests /\ Head(requests) = requests[1] /\ Head(requests) \in Req
      /\ Tail(requests) \in Seq(Req) /\ Len(Tail(requests)) = Len(requests) - 1
  BY <1>1, HeadAndTail, Zenon
<1>3. Head(requests).angle \in Angle /\ Head(requests).current \in BOOLEAN
  BY <1>2 DEF Req
<1>4. Head(requests).current => InSector(Head(requests).angle)
  BY <1>1, <1>2, Zenon DEF CurrentInside
<1>5. Len(Tail(requests)) < MaxOnWay
  BY <1>1, <1>2, ScanAssumption
<1>6. QED
  BY <1>1, <1>2, <1>3, <1>4, <1>5, TailInside, Zenon

LEMMA DeviceDataScan ==
  ASSUME ScanInv, NEW m \in MeasuredSet, DeviceData(m)
  PROVE  ScanInv' /\ head' \in Angle
<1>1. /\ requests # <<>> /\ head' = Head(requests).angle /\ settled' = Head(requests).current
      /\ Ask(head', Tail(requests), m)
      /\ UNCHANGED <<sector, speed>> /\ changes' = changes
  BY Zenon DEF DeviceData
<1>2. changes' \in 0..MaxChanges
  BY <1>1, ScanFacts, Zenon
<1>3. QED
  BY <1>1, <1>2, Answered, AskScan, Zenon

LEMMA RecordedScan ==
  ASSUME ScanInv, RecordedData
  PROVE  ScanInv' /\ head' \in Angle
<1>1. /\ head' \in Angle /\ settled' = FALSE
      /\ LegacyProfileRequest(head') /\ fresh' = TRUE
      /\ UNCHANGED <<sector, speed>> /\ requests' = requests /\ changes' = changes
  BY ScanAssumption DEF RecordedData, Angle
<1>2. /\ target' \in Angle /\ reverse' \in BOOLEAN
      /\ InSector(target') /\ (sector = Res /\ ~reverse => ~reverse')
  BY <1>1, ScanFacts, RequestFacts, Zenon
<1>3. TypeOK'
  BY <1>1, <1>2, Zenon DEF ScanInv, TypeOK
<1>4. RequestStands'
  BY <1>1, ScanFacts, RequestAgain, Zenon
<1>5. StaysInSector'
  <2>1. \A x : InSector(x) => InSector(x)'
    BY <1>1, SameSector, Zenon
  <2>2. QED
    BY <1>1, <1>2, <2>1, ScanFacts, Zenon DEF StaysInSector, CurrentInside
<1>6. FullCircleForward'
  BY <1>1, <1>2, ScanFacts, Zenon DEF FullCircleForward
<1>7. QED
  BY <1>1, <1>3, <1>4, <1>5, <1>6, Zenon DEF ScanInv

LEMMA TimeoutScan ==
  ASSUME ScanInv, NEW m \in MeasuredSet, ProfileTimeout(m)
  PROVE  ScanInv'
<1>1. /\ Len(requests) < MaxOnWay /\ Ask(head, requests, m)
      /\ UNCHANGED <<sector, speed>> /\ head' = head /\ settled' = settled /\ changes' = changes
  BY Zenon DEF ProfileTimeout
<1>2. /\ changes' \in 0..MaxChanges /\ settled' \in BOOLEAN
      /\ settled' => InSector(head)
  BY <1>1, ScanFacts, Zenon
<1>3. QED
  BY <1>1, <1>2, ScanFacts, AskScan, Zenon

\* A step that changes nothing of the scan but the count of the changes and,
\* perhaps, loses what is on the way.
LEMMA CountScan ==
  ASSUME ScanInv, changes' \in 0..MaxChanges,
         UNCHANGED <<head, sector, speed, reverse, target, fresh, settled>>,
         \/ requests' = requests
         \/ requests # <<>> /\ requests' = Tail(requests)
  PROVE  ScanInv'
<1>1. requests' \in Seq(Req) /\ CurrentInside(requests') /\ Len(requests') \in 0..MaxOnWay
  <2>1. CASE requests' = requests
    BY <2>1, ScanFacts, Zenon DEF ScanInv, TypeOK
  <2>2. CASE requests # <<>> /\ requests' = Tail(requests)
    <3>1. /\ requests' \in Seq(Req) /\ CurrentInside(requests')
          /\ Len(requests') < MaxOnWay
      BY <2>2, Answered, Zenon
    <3>2. QED
      BY <3>1, QueueFacts, ScanAssumption
  <2>3. QED
    BY <2>1, <2>2, Zenon
<1>2. TypeOK'
  BY <1>1, Zenon DEF ScanInv, TypeOK
<1>3. \A x : InSector(x) => InSector(x)'
  BY SameSector, Zenon
<1>4. StaysInSector'
  BY <1>1, <1>3, Zenon DEF StaysInSector, CurrentInside, ScanInv
<1>5. FullCircleForward' /\ RequestStands'
  BY DEF ScanInv, FullCircleForward, RequestStands, IsInside, Relative, Seen, DeltaStep, Forth
<1>6. QED
  BY <1>1, <1>2, <1>4, <1>5, Zenon DEF ScanInv

LEMMA ChangesCount ==
  ASSUME TypeOK, changes < MaxChanges, changes' = changes + 1
  PROVE  changes' \in 0..MaxChanges
BY ScanAssumption DEF TypeOK

\* Requests that are outdated stay what they are otherwise.
LEMMA OutdateFacts ==
  ASSUME ScanInv, Outdate
  PROVE  /\ ~fresh' /\ ~settled' /\ fresh' \in BOOLEAN /\ settled' \in BOOLEAN
         /\ requests' \in Seq(Req) /\ Len(requests') = Len(requests)
         /\ DOMAIN requests' = DOMAIN requests
         /\ \A i \in DOMAIN requests' : /\ ~requests'[i].current
                                        /\ requests'[i].measured = requests[i].measured
<1>1. requests \in Seq(Req) /\ Len(requests) \in Nat /\ DOMAIN requests = 1..Len(requests)
  BY ScanFacts, QueueFacts, Zenon
<1>2. /\ fresh' = FALSE /\ settled' = FALSE
      /\ requests' = [i \in DOMAIN requests |-> [requests[i] EXCEPT !.current = FALSE]]
  BY Zenon DEF Outdate
<1>3. ASSUME NEW i \in DOMAIN requests
      PROVE  /\ [requests[i] EXCEPT !.current = FALSE] \in Req
             /\ [requests[i] EXCEPT !.current = FALSE].current = FALSE
             /\ [requests[i] EXCEPT !.current = FALSE].measured = requests[i].measured
  <2>1. requests[i] \in Req
    BY <1>1
  <2>2. QED
    BY <2>1 DEF Req
<1>4. DOMAIN requests' = 1..Len(requests) /\ requests' \in [1..Len(requests) -> Req]
  BY <1>1, <1>2, <1>3, Zenon
<1>5. requests' \in Seq(Req) /\ Len(requests') = Len(requests)
  BY <1>1, <1>4
<1>6. QED
  BY <1>1, <1>2, <1>3, <1>4, <1>5, Zenon

LEMMA SectorScanned ==
  ASSUME ScanInv, NEW s \in Sectors, SetSectorSize(s)
  PROVE  ScanInv'
<1>1. changes' \in 0..MaxChanges
  BY ChangesCount DEF SetSectorSize, ScanInv
<1>2. /\ ~fresh' /\ ~settled' /\ fresh' \in BOOLEAN /\ settled' \in BOOLEAN
      /\ requests' \in Seq(Req) /\ Len(requests') = Len(requests)
      /\ \A i \in DOMAIN requests' : ~requests'[i].current
  BY OutdateFacts, Zenon DEF SetSectorSize
<1>3. TypeOK'
  BY <1>1, <1>2 DEF SetSectorSize, ScanInv, TypeOK
<1>4. FullCircleForward'
  BY DEF SetSectorSize, ScanInv, FullCircleForward
<1>5. QED
  BY <1>2, <1>3, <1>4, Zenon DEF ScanInv, StaysInSector, RequestStands

LEMMA SpeedScanned ==
  ASSUME ScanInv, NEW s \in Speeds, SetAngularSpeed(s)
  PROVE  ScanInv'
<1>1. changes' \in 0..MaxChanges
  BY ChangesCount DEF SetAngularSpeed, ScanInv
<1>2. /\ ~fresh' /\ ~settled' /\ fresh' \in BOOLEAN /\ settled' \in BOOLEAN
      /\ requests' \in Seq(Req) /\ Len(requests') = Len(requests)
      /\ \A i \in DOMAIN requests' : ~requests'[i].current
  BY OutdateFacts, Zenon DEF SetAngularSpeed
<1>3. TypeOK'
  BY <1>1, <1>2 DEF SetAngularSpeed, ScanInv, TypeOK
<1>4. FullCircleForward'
  BY DEF SetAngularSpeed, ScanInv, FullCircleForward
<1>5. QED
  BY <1>2, <1>3, <1>4, Zenon DEF ScanInv, StaysInSector, RequestStands

-----------------------------------------------------------------------------
\* The range that the settings make up.

LEMMA MinOfTwo ==
  ASSUME NEW a \in Int, NEW b \in Int
  PROVE  /\ Min({a, b}) \in {a, b} /\ Min({a, b}) <= a /\ Min({a, b}) <= b
         /\ Max({a, b}) \in {a, b} /\ Max({a, b}) >= a /\ Max({a, b}) >= b
<1>1. \E x \in {a, b} : \A y \in {a, b} : x =< y
  <2>1. CASE a <= b
    BY <2>1
  <2>2. CASE b <= a
    BY <2>2
  <2>3. QED
    BY <2>1, <2>2
<1>2. \E x \in {a, b} : \A y \in {a, b} : x >= y
  <2>1. CASE a <= b
    BY <2>1
  <2>2. CASE b <= a
    BY <2>2
  <2>3. QED
    BY <2>1, <2>2
<1>3. Min({a, b}) \in {a, b} /\ \A y \in {a, b} : Min({a, b}) =< y
  BY <1>1, Zenon DEF Min
<1>4. Max({a, b}) \in {a, b} /\ \A y \in {a, b} : Max({a, b}) >= y
  BY <1>2, Zenon DEF Max
<1>5. QED
  BY <1>3, <1>4

LEMMA Monotone ==
  ASSUME NEW a \in Nat, NEW b \in Nat, NEW c \in Nat, a <= b
  PROVE  c * a \in Nat /\ c * a <= c * b
<1>1. PICK d \in Nat : b = a + d
  <2>1. b - a \in Nat /\ b = a + (b - a)
    OBVIOUS
  <2>2. QED
    BY <2>1
<1>2. c * b = c * a + c * d /\ c * d >= 0 /\ c * a \in Nat
  BY <1>1
<1>3. QED
  BY <1>2

LEMMA Quotient ==
  ASSUME NEW m \in Nat \ {0}, NEW x \in Nat
  PROVE  /\ x \div m \in Nat /\ m * (x \div m) \in Nat
         /\ m * (x \div m) <= x /\ x < m * (x \div m) + m
<1>1. PICK q \in Int : q = x \div m
  BY DivMod
<1>2. m * q \in Int /\ m * q <= x /\ x < m * q + m
  BY <1>1, DivMod
<1>3. q >= 0
  BY <1>2, Product
<1>4. m * q >= 0
  BY <1>3
<1>5. QED
  BY <1>1, <1>2, <1>3, <1>4

LEMMA QuotientBounds ==
  ASSUME NEW m \in Nat \ {0}, NEW x \in Nat, NEW k \in Nat
  PROVE  /\ m * k <= x => k <= x \div m
         /\ x < m * k + m => x \div m <= k
<1>1. PICK q \in Nat : /\ q = x \div m /\ m * q \in Nat
                       /\ m * q <= x /\ x < m * q + m
  BY Quotient
<1>2. ASSUME m * k <= x, q < k PROVE FALSE
  <2>1. m * (q + 1) <= m * k
    BY <1>2, Monotone
  <2>2. m * (q + 1) = m * q + m
    OBVIOUS
  <2>3. QED
    BY <1>1, <1>2, <2>1, <2>2
<1>3. ASSUME x < m * k + m, k < q PROVE FALSE
  <2>1. m * (k + 1) <= m * q
    BY <1>3, Monotone
  <2>2. m * (k + 1) = m * k + m
    OBVIOUS
  <2>3. QED
    BY <1>1, <1>3, <2>1, <2>2
<1>4. QED
  BY <1>1, <1>2, <1>3

LEMMA QuotientIs ==
  ASSUME NEW m \in Nat \ {0}, NEW x \in Nat, NEW k \in Nat, m * k <= x, x < m * k + m
  PROVE  x \div m = k
BY Quotient, QuotientBounds

\* A quotient between two bounds, and what is lost by it.
LEMMA Rounded ==
  ASSUME NEW m \in Nat \ {0}, NEW x \in Nat, NEW lo \in Nat, NEW hi \in Nat,
         m * lo <= x, x < m * hi + m
  PROVE  /\ x \div m \in lo..hi
         /\ (x \div m) * m \in Nat
         /\ (x \div m) * m <= x /\ x < (x \div m) * m + m
<1>1. PICK p \in Nat : /\ p = x \div m /\ m * p \in Nat
                       /\ m * p <= x /\ x < m * p + m
  BY Quotient
<1>2. lo <= p /\ p <= hi
  BY <1>1, QuotientBounds
<1>3. p * m = m * p
  BY <1>1
<1>4. QED
  BY <1>1, <1>2, <1>3

\* The fewer of n and a quotient, times the divisor.
LEMMA FewerFacts ==
  ASSUME NEW e \in Nat \ {0}, NEW x \in Nat, NEW lo \in Nat, NEW hi \in Nat,
         NEW n \in lo..hi, e * lo <= x
  PROVE  LET k == Min({n, x \div e})
         IN /\ k \in lo..hi
            /\ k * e \in Nat /\ k * e <= x
            /\ lo * e <= k * e /\ k * e <= hi * e
<1>1. PICK q \in Nat : q = x \div e /\ e * q <= x /\ lo <= q
  BY Quotient, QuotientBounds
<1>2. PICK k \in Int : k = Min({n, q}) /\ k \in {n, q} /\ k <= n /\ k <= q
  <2>1. n \in Int /\ q \in Int
    BY <1>1
  <2>2. Min({n, q}) \in {n, q} /\ Min({n, q}) <= n /\ Min({n, q}) <= q
    BY <2>1, MinOfTwo, Zenon
  <2>3. Min({n, q}) \in Int
    BY <2>1, <2>2
  <2>4. QED
    BY <2>2, <2>3, Zenon
<1>3. k \in lo..hi /\ k \in Nat
  BY <1>1, <1>2
<1>4. /\ e * k \in Nat /\ e * k <= e * q
      /\ e * lo <= e * k /\ e * k <= e * hi
  BY <1>1, <1>2, <1>3, Monotone
<1>5. e * k = k * e /\ e * lo = lo * e /\ e * hi = hi * e
  BY <1>3
<1>6. QED
  BY <1>1, <1>2, <1>3, <1>4, <1>5

\* A product by parts is the product.
LEMMA TimesOverFacts ==
  ASSUME NEW a \in Nat, NEW b \in Nat, NEW m \in Nat \ {0}
  PROVE  /\ a * b \in Nat
         /\ TimesOver(a, b, m) = (a * b) \div m /\ TimesOver(a, b, m) \in Nat
<1>1. PICK q \in Nat, r \in 0..(m - 1) : q = a \div m /\ r = a % m /\ a = m * q + r
  <2>1. a \in Int
    OBVIOUS
  <2>2. QED
    BY <2>1, DivMod, Quotient, Zenon
<1>2. b * r \in Nat /\ b * q \in Nat
  BY <1>1
<1>3. PICK k \in Nat : /\ k = (b * r) \div m /\ m * k \in Nat
                       /\ m * k <= b * r /\ b * r < m * k + m
  BY <1>2, Quotient
<1>4. a * b \in Nat /\ a * b = m * (b * q) + b * r
  BY <1>1
<1>5. m * (b * q + k) = m * (b * q) + m * k
  BY <1>2, <1>3
<1>6. /\ b * q + k \in Nat
      /\ m * (b * q + k) <= a * b /\ a * b < m * (b * q + k) + m
  <2>1. m * (b * q) \in Nat
    BY <1>2
  <2>2. QED
    BY <1>2, <1>3, <1>4, <1>5, <2>1
<1>7. (a * b) \div m = b * q + k
  BY <1>4, <1>6, QuotientIs
<1>8. TimesOver(a, b, m) = b * q + k
  BY <1>1, <1>3, Zenon DEF TimesOver
<1>9. QED
  BY <1>4, <1>6, <1>7, <1>8, Zenon

\* What the points times the speed of sound can be for d metres, the sample
\* period that follows, and the range in whole metres of a product.
IsScale(m, d)   == m \in Int /\ 935250 <= m /\ m <= 1860000 /\ m <= 1000000 * d
PeriodOf(d, m)  == (80000000 * d) \div m
MetresOf(z) == (z \div 80000 + 500) \div 1000

LEMMA ExactPeriod ==
  ASSUME NEW d \in Nat, NEW m \in Nat \ {0}
  PROVE  TimesOver(80000000, d, m) = PeriodOf(d, m)
<1>1. \A x \in Nat : TimesOver(x, d, m) = (x * d) \div m
  BY TimesOverFacts, Zenon
<1>2. QED
  BY SMT, <1>1 DEF PeriodOf

LEMMA ExactMillimetres ==
  ASSUME NEW m \in Nat, NEW p \in Nat
  PROVE  /\ TimesOver(m, p, 80000) = (m * p) \div 80000
         /\ TimesOver(m, p, 80000) \in Nat
<1>1. \A z \in Nat \ {0} : TimesOver(m, p, z) = (m * p) \div z /\ TimesOver(m, p, z) \in Nat
  BY TimesOverFacts, Zenon
<1>2. QED
  BY SMT, <1>1

\* The speeds of sound as bounds.
LEMMA SoundFacts ==
  ASSUME NEW c \in SoundSpeeds
  PROVE  c \in Int /\ 1450 <= c /\ c <= 1550
BY SMT DEF SoundSpeeds

\* The points that a range and a speed of sound leave.
LEMMA PointFacts ==
  ASSUME NEW d \in Int, 1 <= d, d <= 60, NEW e \in SoundSpeeds,
         NEW n \in MinPoints..FirmwareMaxNumberOfPoints
  PROVE  LET points == Min({n, (1000000 * d) \div e})
         IN /\ points \in MinPoints..FirmwareMaxNumberOfPoints
            /\ IsScale(points * e, d)
<1> DEFINE x == 1000000 * d
           k == Min({n, x \div e})
<1>1. /\ x \in Nat /\ e \in Nat \ {0} /\ e * MinPoints <= x
      /\ MinPoints \in Nat /\ FirmwareMaxNumberOfPoints \in Nat
  BY SMT, SoundFacts DEF MinPoints, FirmwareMaxNumberOfPoints
<1> HIDE DEF x
<1>2. /\ k \in MinPoints..FirmwareMaxNumberOfPoints
      /\ k * e \in Nat /\ k * e <= x
      /\ MinPoints * e <= k * e /\ k * e <= FirmwareMaxNumberOfPoints * e
  <2>1. \A lo, hi \in Nat : n \in lo..hi /\ e * lo <= x =>
          /\ k \in lo..hi /\ k * e \in Nat /\ k * e <= x
          /\ lo * e <= k * e /\ k * e <= hi * e
    BY <1>1, FewerFacts, Zenon
  <2>2. QED
    BY <1>1, <2>1, Zenon
<1>3. 935250 <= MinPoints * e /\ FirmwareMaxNumberOfPoints * e <= 1860000
  BY SMT, SoundFacts DEF MinPoints, FirmwareMaxNumberOfPoints
<1> HIDE DEF k
<1>4. k * e \in Int /\ 935250 <= k * e /\ k * e <= 1860000
  BY SMT, <1>1, <1>2, <1>3
<1>5. QED
  BY SMT, <1>2, <1>4 DEF k, x, IsScale

LEMMA NearestMetre ==
  ASSUME NEW d \in Nat, NEW z \in Nat, z <= 80000000 * d, 80000000 * d < z + 1860000
  PROVE  (z \div 80000 + 500) \div 1000 = d
<1>1. PICK q \in Int : q = z \div 80000 /\ 80000 * q <= z /\ z < 80000 * q + 80000
  BY SMT
<1>2. (q + 500) \div 1000 = d
  BY SMT, <1>1
<1>3. QED
  BY <1>1, <1>2

\* The sample period for d metres with m = points * speed, rounded down to
\* whole ticks: 16 bits are enough, the firmware can do it, and what is lost is
\* less than half a metre.
LEMMA PeriodFacts ==
  ASSUME NEW d \in Int, 1 <= d, d <= 60,
         NEW m, IsScale(m, d)
  PROVE  /\ PeriodOf(d, m) \in FirmwareMinSamplePeriod..MaxSamplePeriod
         /\ MetresOf(PeriodOf(d, m) * m) = d
<1> DEFINE x == 80000000 * d
           p == x \div m
<1>0. m \in Int /\ 935250 <= m /\ m <= 1860000 /\ m <= 1000000 * d
  BY SMT DEF IsScale
<1>1. /\ x \in Nat /\ m \in Nat \ {0} /\ d \in Nat
      /\ FirmwareMinSamplePeriod \in Nat /\ MaxSamplePeriod \in Nat
      /\ m * FirmwareMinSamplePeriod <= x /\ x < m * MaxSamplePeriod + m
  BY SMT, <1>0 DEF FirmwareMinSamplePeriod, MaxSamplePeriod
<1> HIDE DEF x
<1>2. /\ p \in FirmwareMinSamplePeriod..MaxSamplePeriod
      /\ p * m \in Nat /\ p * m <= x /\ x < p * m + m
  BY SMT, <1>1, Rounded
<1> HIDE DEF p
<1>3. ASSUME NEW z \in Nat, z <= x, x < z + m PROVE (z \div 80000 + 500) \div 1000 = d
  BY SMT, <1>0, <1>1, <1>3, NearestMetre DEF x
<1>4. ((p * m) \div 80000 + 500) \div 1000 = d
  BY SMT, <1>2, <1>3
<1>5. QED
  BY SMT, <1>2, <1>4 DEF p, x, PeriodOf, MetresOf

\* The bounds of the settings are in order.
LEMMA BoundFacts ==
  /\ MinPoints \in Nat /\ FirmwareMaxNumberOfPoints \in Nat
  /\ FirmwareMinSamplePeriod \in Nat /\ MaxSamplePeriod \in Nat
  /\ FirmwareMinTransmitDuration \in Nat /\ FirmwareMaxTransmitDuration \in Nat
  /\ FirmwareMinTransmitDuration <= FirmwareMaxTransmitDuration
BY SMT DEF MinPoints, FirmwareMaxNumberOfPoints, FirmwareMinSamplePeriod, MaxSamplePeriod,
           FirmwareMinTransmitDuration, FirmwareMaxTransmitDuration

LEMMA SettingsFacts ==
  ASSUME NEW s \in SettingsSet
  PROVE  /\ s.points \in Nat /\ s.period \in Nat /\ s.duration \in Nat
         /\ s.points \in MinPoints..FirmwareMaxNumberOfPoints
         /\ s.period \in FirmwareMinSamplePeriod..MaxSamplePeriod
         /\ s.duration \in FirmwareMinTransmitDuration..FirmwareMaxTransmitDuration
         /\ s.sound \in SoundSpeeds
         /\ s = [points |-> s.points, period |-> s.period, sound |-> s.sound,
                 duration |-> s.duration]
BY SMT, BoundFacts DEF SettingsSet

\* The longest pulse for a sample period the firmware can do.
LEMMA LongestFacts ==
  ASSUME NEW p \in Int, FirmwareMinSamplePeriod <= p
  PROVE  LET longest == Min({FirmwareMaxTransmitDuration, (p * 8) \div 5})
         IN /\ longest \in Int /\ FirmwareMinTransmitDuration <= longest
            /\ longest <= FirmwareMaxTransmitDuration
<1> DEFINE q == (p * 8) \div 5
<1>1. q \in Int /\ FirmwareMinTransmitDuration <= q
  BY SMT DEF FirmwareMinSamplePeriod, FirmwareMinTransmitDuration
<1> HIDE DEF q
<1>2. FirmwareMaxTransmitDuration \in Int
  BY SMT, BoundFacts
<1>3. /\ Min({FirmwareMaxTransmitDuration, q}) \in {FirmwareMaxTransmitDuration, q}
      /\ Min({FirmwareMaxTransmitDuration, q}) <= FirmwareMaxTransmitDuration
  BY <1>1, <1>2, MinOfTwo, Zenon
<1>4. QED
  BY SMT, <1>1, <1>2, <1>3, BoundFacts DEF q

\* adjustTransmitDuration() changes the pulse alone, to one that can be.
LEMMA AdjustFacts ==
  ASSUME NEW s, NEW p \in FirmwareMinSamplePeriod..MaxSamplePeriod,
         NEW n \in MinPoints..FirmwareMaxNumberOfPoints, NEW c \in SoundSpeeds, NEW t,
         s = [points |-> n, period |-> p, sound |-> c, duration |-> t]
  PROVE  LET a == AdjustTransmitDuration(s)
         IN /\ a \in SettingsSet
            /\ a.points = n /\ a.period = p /\ a.sound = c
            /\ a.duration \in FirmwareMinTransmitDuration..TransmitDurationMax(a)
<1> DEFINE longest == Min({FirmwareMaxTransmitDuration, (p * 8) \div 5})
           auto    == (p * n + 5000) \div 10000
           lesser  == Min({longest, auto})
           long    == Max({FirmwareMinTransmitDuration, lesser})
<1>1. p \in Int /\ n \in Int /\ FirmwareMinSamplePeriod <= p
  BY SMT, BoundFacts
<1>2. /\ longest \in Int /\ FirmwareMinTransmitDuration <= longest
      /\ longest <= FirmwareMaxTransmitDuration
  BY <1>1, LongestFacts, Zenon
<1>3. auto \in Int
  BY SMT, <1>1
<1> HIDE DEF longest, auto
<1>4. lesser \in {longest, auto} /\ lesser <= longest
  BY <1>2, <1>3, MinOfTwo, Zenon
<1>5. lesser \in Int
  BY <1>2, <1>3, <1>4
<1> HIDE DEF lesser
<1>6. /\ long \in {FirmwareMinTransmitDuration, lesser}
      /\ long >= FirmwareMinTransmitDuration
  <2>1. FirmwareMinTransmitDuration \in Int
    BY SMT, BoundFacts
  <2>2. QED
    BY <1>5, <2>1, MinOfTwo, Zenon
<1>7. /\ long \in FirmwareMinTransmitDuration..longest
      /\ long \in FirmwareMinTransmitDuration..FirmwareMaxTransmitDuration
  BY SMT, <1>2, <1>4, <1>5, <1>6, BoundFacts
<1>8. AdjustTransmitDuration(s) =
        [points |-> n, period |-> p, sound |-> c, duration |-> long]
  BY SMT DEF AdjustTransmitDuration, TransmitDurationMax, longest, auto, lesser, long
<1> HIDE DEF long
<1>9. AdjustTransmitDuration(s) \in SettingsSet
  BY SMT, <1>7, <1>8 DEF SettingsSet
<1>10. TransmitDurationMax(AdjustTransmitDuration(s)) = longest
  <2>1. AdjustTransmitDuration(s).period = p
    BY SMT, <1>8
  <2>2. QED
    BY Zenon, <2>1 DEF TransmitDurationMax, longest
<1>11. QED
  BY SMT, <1>7, <1>8, <1>9, <1>10

\* set_range() and set_speed_of_sound(): the range they are asked for.
LEMMA WithRangeFacts ==
  ASSUME NEW d \in Int, 1 <= d, d <= 60, NEW s \in SettingsSet,
         NEW n \in MinPoints..FirmwareMaxNumberOfPoints, NEW c \in SoundSpeeds
  PROVE  LET w == WithRange(d, n, c, s)
         IN /\ w \in SettingsSet /\ Metres(w) = d
            /\ w.duration \in FirmwareMinTransmitDuration..TransmitDurationMax(w)
<1> DEFINE k == Min({n, MostPoints(d, c)})
           m == k * c
           p == PeriodOf(d, m)
           u == [points |-> k, period |-> p, sound |-> c, duration |-> s.duration]
           w == AdjustTransmitDuration(u)
<1>1. c \in Int /\ 1450 <= c /\ c <= 1550
  BY SMT, SoundFacts
<1>2. k \in MinPoints..FirmwareMaxNumberOfPoints /\ IsScale(m, d)
  BY SMT, PointFacts DEF MostPoints
<1> HIDE DEF k
<1>3. k \in Nat
  BY SMT, <1>2, BoundFacts
<1>4. m \in Nat \ {0} /\ 935250 <= m
  BY SMT, <1>2 DEF IsScale
<1> HIDE DEF m
<1>5. /\ p \in FirmwareMinSamplePeriod..MaxSamplePeriod
      /\ MetresOf(p * m) = d
  BY Zenon, <1>2, PeriodFacts
<1>6. p \in Nat /\ p <= MaxSamplePeriod
  BY SMT, <1>5, BoundFacts
<1>7. WithRange(d, n, c, s) = w
  <2>1. TimesOver(80000000, d, k * c) = p
    <3>1. d \in Nat
      OBVIOUS
    <3>2. QED
      BY SMT, <1>4, <3>1, ExactPeriod DEF m
  <2> HIDE DEF p
  <2>2. SamplePeriod(d, k, c) = p
    BY SMT, <1>6, <2>1, BoundFacts DEF SamplePeriod
  <2>3. QED
    BY Zenon, <2>2 DEF WithRange, k
<1> HIDE DEF p
<1>8. /\ w \in SettingsSet /\ w.points = k /\ w.period = p /\ w.sound = c
      /\ w.duration \in FirmwareMinTransmitDuration..TransmitDurationMax(w)
  BY SMT, <1>2, <1>5, AdjustFacts
<1> HIDE DEF w
<1>9. Metres(w) = d
  <2>1. Millimetres(w) = TimesOver(m, p, 80000)
    BY SMT, <1>8 DEF Millimetres, m
  <2>2. TimesOver(m, p, 80000) = (m * p) \div 80000
    BY SMT, <1>4, <1>6, ExactMillimetres
  <2>3. m * p = p * m
    BY SMT, <1>4, <1>6
  <2>4. QED
    BY SMT, <1>5, <2>1, <2>2, <2>3 DEF Metres, MetresOf
<1>10. QED
  BY SMT, <1>7, <1>8, <1>9

\* The settings of the viewer, at any speed of sound and with a short pulse.
LEMMA DefaultFacts ==
  ASSUME NEW c \in SoundSpeeds, NEW t \in Int, 11 <= t, t <= 32,
         NEW s, s = [points |-> 1200, period |-> 88, sound |-> c, duration |-> t]
  PROVE  /\ s \in SettingsSet /\ Metres(s) = ViewerDefaultRange
         /\ s.duration \in FirmwareMinTransmitDuration..TransmitDurationMax(s)
<1>1. c \in Int /\ 1450 <= c /\ c <= 1550
  BY SMT DEF SoundSpeeds
<1>2. /\ 1200 \in MinPoints..FirmwareMaxNumberOfPoints
      /\ 88 \in FirmwareMinSamplePeriod..MaxSamplePeriod
      /\ t \in FirmwareMinTransmitDuration..FirmwareMaxTransmitDuration
  <2>1. /\ MinPoints <= 1200 /\ 1200 <= FirmwareMaxNumberOfPoints
        /\ FirmwareMinSamplePeriod <= 88 /\ 88 <= MaxSamplePeriod
        /\ FirmwareMinTransmitDuration <= t /\ t <= FirmwareMaxTransmitDuration
    BY SMT DEF MinPoints, FirmwareMaxNumberOfPoints, FirmwareMinSamplePeriod,
               MaxSamplePeriod, FirmwareMinTransmitDuration, FirmwareMaxTransmitDuration
  <2>2. QED
    BY SMT, <2>1, BoundFacts
<1>3. s \in SettingsSet
  BY SMT, <1>2 DEF SettingsSet
<1>4. Metres(s) = ViewerDefaultRange
  <2>1. PICK a \in Nat : a = 1200 * c
    BY SMT, <1>1
  <2>2. Millimetres(s) = TimesOver(a, 88, 80000)
    BY SMT, <2>1 DEF Millimetres
  <2>3. (TimesOver(a, 88, 80000) + 500) \div 1000 = 2
    BY SMT, <1>1, <2>1 DEF TimesOver
  <2>4. QED
    BY SMT, <2>2, <2>3 DEF Metres, ViewerDefaultRange
<1>5. t <= TransmitDurationMax(s)
  <2>1. TransmitDurationMax(s) = Min({FirmwareMaxTransmitDuration, 140})
    BY SMT DEF TransmitDurationMax
  <2>2. /\ FirmwareMaxTransmitDuration \in Int /\ 140 \in Int
        /\ 32 <= FirmwareMaxTransmitDuration
    BY SMT DEF FirmwareMaxTransmitDuration
  <2>3. Min({FirmwareMaxTransmitDuration, 140}) \in {FirmwareMaxTransmitDuration, 140}
    BY <2>2, MinOfTwo, Zenon
  <2>4. QED
    BY SMT, <2>1, <2>2, <2>3
<1>6. TransmitDurationMax(s) \in Int
  <2>1. s.period \in Int /\ FirmwareMinSamplePeriod <= s.period
    BY SMT, <1>3, SettingsFacts, BoundFacts
  <2>2. QED
    BY SMT, <2>1, LongestFacts DEF TransmitDurationMax
<1>7. QED
  BY SMT, <1>2, <1>3, <1>4, <1>5, <1>6, BoundFacts

\* The settings together with the range that was chosen.
RangeInv == SettingsType /\ RangeIsTheChosen

LEMMA RangeInvFacts ==
  ASSUME NEW s, s = settings', s \in SettingsSet,
         chosen' \in Ranges \cup {ViewerDefaultRange}, Metres(s) = chosen',
         s.duration \in FirmwareMinTransmitDuration..TransmitDurationMax(s)
  PROVE  RangeInv'
<1>1. s.period >= FirmwareMinSamplePeriod
  BY SMT, SettingsFacts, BoundFacts
<1>2. QED
  BY <1>1, Zenon DEF RangeInv, SettingsType, RangeIsTheChosen

LEMMA ChosenFacts ==
  ASSUME RangeInv
  PROVE  /\ settings \in SettingsSet /\ settings.sound \in SoundSpeeds
         /\ settings.points \in MinPoints..FirmwareMaxNumberOfPoints
         /\ chosen \in Int /\ 1 <= chosen /\ chosen <= 60 /\ Metres(settings) = chosen
<1>1. settings \in SettingsSet /\ Metres(settings) = chosen
  BY Zenon DEF RangeInv, SettingsType, RangeIsTheChosen
<1>2. settings.sound \in SoundSpeeds /\ settings.points \in MinPoints..FirmwareMaxNumberOfPoints
  BY Zenon, <1>1, SettingsFacts
<1>3. chosen \in Int /\ 1 <= chosen /\ chosen <= 60
  BY SMT, ViewAssumption DEF RangeInv, SettingsType, ViewerDefaultRange
<1>4. QED
  BY <1>1, <1>2, <1>3

LEMMA RangeFacts ==
  ASSUME NEW d \in Ranges
  PROVE  d \in Int /\ 1 <= d /\ d <= 60 /\ FirmwareMaxNumberOfPoints \in MinPoints..FirmwareMaxNumberOfPoints
<1>1. d \in Int /\ 1 <= d /\ d <= 60
  BY SMT, ViewAssumption
<1>2. FirmwareMaxNumberOfPoints \in MinPoints..FirmwareMaxNumberOfPoints
  BY SMT DEF MinPoints, FirmwareMaxNumberOfPoints
<1>3. QED
  BY <1>1, <1>2

LEMMA SetRangeRange ==
  ASSUME RangeInv, NEW d \in Ranges, SetRange(d) PROVE RangeInv'
<1> DEFINE w == WithRange(d, FirmwareMaxNumberOfPoints, settings.sound, settings)
<1>1. settings' = w /\ chosen' = d
  BY SMT DEF SetRange, Change
<1>2. /\ w \in SettingsSet /\ Metres(w) = d
      /\ w.duration \in FirmwareMinTransmitDuration..TransmitDurationMax(w)
  BY Zenon, ChosenFacts, RangeFacts, WithRangeFacts
<1> HIDE DEF w
<1>3. QED
  BY Zenon, <1>1, <1>2, RangeInvFacts

LEMMA SetSpeedOfSoundRange ==
  ASSUME RangeInv, NEW c \in Sounds, SetSpeedOfSound(c) PROVE RangeInv'
<1> DEFINE w == WithRange(chosen, settings.points, c, settings)
<1>1. settings' = w /\ chosen' = chosen
  <2>1. Metres(settings) = chosen
    BY ChosenFacts, Zenon
  <2>2. /\ settings' = WithRange(Metres(settings), settings.points, c, settings)
        /\ chosen' = chosen
    BY Zenon DEF SetSpeedOfSound, Change
  <2>3. QED
    BY Zenon, <2>1, <2>2
<1>2. c \in SoundSpeeds
  BY SMT, ViewAssumption DEF SoundSpeeds
<1>3. /\ w \in SettingsSet /\ Metres(w) = chosen
      /\ w.duration \in FirmwareMinTransmitDuration..TransmitDurationMax(w)
  BY Zenon, <1>2, ChosenFacts, WithRangeFacts
<1> HIDE DEF w
<1>4. chosen' \in Ranges \cup {ViewerDefaultRange}
  BY Zenon, <1>1 DEF RangeInv, SettingsType
<1>5. QED
  BY Zenon, <1>1, <1>3, <1>4, RangeInvFacts

LEMMA SetTransmitDurationRange ==
  ASSUME RangeInv, NEW t \in Durations, SetTransmitDuration(t)
  PROVE  RangeInv' /\ Millimetres(settings') = Millimetres(settings)
                  /\ Measured(settings') = Measured(settings)
<1>1. /\ settings \in SettingsSet /\ settings' = [settings EXCEPT !.duration = t]
      /\ chosen' = chosen /\ t <= TransmitDurationMax(settings)
  BY Zenon, ChosenFacts DEF SetTransmitDuration, Change
<1>2. /\ settings'.points = settings.points /\ settings'.period = settings.period
      /\ settings'.sound = settings.sound /\ settings'.duration = t
  BY SMT, <1>1 DEF SettingsSet
<1>3. /\ Metres(settings') = Metres(settings)
      /\ Millimetres(settings') = Millimetres(settings)
      /\ Measured(settings') = Measured(settings)
  <2>1. Millimetres(settings') = Millimetres(settings)
    BY SMT, <1>2 DEF Millimetres
  <2>2. QED
    BY ZenonT(30), <1>2, <2>1 DEF Metres, Measured
<1>4. TransmitDurationMax(settings') = TransmitDurationMax(settings)
  BY SMT, <1>2 DEF TransmitDurationMax
<1>5. /\ TransmitDurationMax(settings) \in Int
      /\ TransmitDurationMax(settings) <= FirmwareMaxTransmitDuration
  <2>1. settings.period \in Int /\ FirmwareMinSamplePeriod <= settings.period
    BY SMT, <1>1, SettingsFacts, BoundFacts
  <2>2. QED
    BY SMT, <2>1, LongestFacts DEF TransmitDurationMax
<1>6. t \in Int /\ FirmwareMinTransmitDuration <= t
  BY SMT, ViewAssumption DEF FirmwareMinTransmitDuration
<1>7. settings' \in SettingsSet
  <2>1. t \in FirmwareMinTransmitDuration..FirmwareMaxTransmitDuration
    BY SMT, <1>1, <1>5, <1>6, BoundFacts
  <2>2. QED
    BY SMT, <1>1, <2>1 DEF SettingsSet
<1>8. settings'.duration \in FirmwareMinTransmitDuration..TransmitDurationMax(settings')
  BY SMT, <1>1, <1>2, <1>4, <1>5, <1>6, BoundFacts
<1>9. chosen' \in Ranges \cup {ViewerDefaultRange} /\ Metres(settings') = chosen'
  BY Zenon, <1>1, <1>3, ChosenFacts DEF RangeInv, SettingsType
<1>10. QED
  BY Zenon, <1>3, <1>7, <1>8, <1>9, RangeInvFacts

LEMMA ResetSettingsRange == ASSUME RangeInv, ResetSettings PROVE RangeInv'
<1> DEFINE w == AdjustTransmitDuration(ViewerDefault)
<1>1. settings' = w /\ chosen' = ViewerDefaultRange
  BY Zenon DEF ResetSettings, Change
<1>2. /\ 1500 \in SoundSpeeds
      /\ 1200 \in MinPoints..FirmwareMaxNumberOfPoints
      /\ 88 \in FirmwareMinSamplePeriod..MaxSamplePeriod
  <2>1. 1500 \in SoundSpeeds
    BY SMT DEF SoundSpeeds
  <2>2. /\ MinPoints <= 1200 /\ 1200 <= FirmwareMaxNumberOfPoints
        /\ FirmwareMinSamplePeriod <= 88 /\ 88 <= MaxSamplePeriod
    BY SMT DEF MinPoints, FirmwareMaxNumberOfPoints, FirmwareMinSamplePeriod, MaxSamplePeriod
  <2>3. QED
    BY SMT, <2>1, <2>2, BoundFacts
<1>3. /\ w \in SettingsSet /\ w.points = 1200 /\ w.period = 88 /\ w.sound = 1500
      /\ w.duration \in FirmwareMinTransmitDuration..TransmitDurationMax(w)
  BY SMT, <1>2, AdjustFacts DEF ViewerDefault
<1> HIDE DEF w
<1>4. Metres(w) = ViewerDefaultRange
  BY SMT, <1>3 DEF Metres, Millimetres, TimesOver, ViewerDefaultRange
<1>5. /\ w \in SettingsSet
      /\ w.duration \in FirmwareMinTransmitDuration..TransmitDurationMax(w)
  BY <1>3
<1>6. QED
  BY Zenon, <1>1, <1>4, <1>5, RangeInvFacts

LEMMA NackRange == ASSUME RangeInv, Nack PROVE RangeInv'
<1>1. /\ settings' = [ViewerDefault EXCEPT !.sound = settings.sound]
      /\ chosen' = ViewerDefaultRange
  BY Zenon DEF Nack
<1>2. settings' = [points |-> 1200, period |-> 88, sound |-> settings.sound, duration |-> 11]
  BY SMT, <1>1 DEF ViewerDefault
<1>3. /\ settings' \in SettingsSet /\ Metres(settings') = ViewerDefaultRange
      /\ settings'.duration \in FirmwareMinTransmitDuration..TransmitDurationMax(settings')
  BY SMT, <1>2, ChosenFacts, DefaultFacts
<1>4. QED
  BY Zenon, <1>1, <1>3, RangeInvFacts

LEMMA ViewInitRange == ViewInit => RangeInv
<1> SUFFICES ASSUME ViewInit PROVE RangeInv
  OBVIOUS
<1>1. settings = [points |-> 1200, period |-> 88, sound |-> 1500, duration |-> 32]
  BY SMT DEF ViewInit, ViewerDefault
<1>2. 1500 \in SoundSpeeds
  BY SMT DEF SoundSpeeds
<1>3. /\ settings \in SettingsSet /\ Metres(settings) = ViewerDefaultRange
      /\ settings.duration \in FirmwareMinTransmitDuration..TransmitDurationMax(settings)
  BY SMT, <1>1, <1>2, DefaultFacts
<1>4. settings.period >= FirmwareMinSamplePeriod /\ chosen = ViewerDefaultRange
  BY SMT, <1>3, SettingsFacts, BoundFacts DEF ViewInit
<1>5. QED
  BY Zenon, <1>3, <1>4 DEF RangeInv, SettingsType, RangeIsTheChosen

-----------------------------------------------------------------------------
\* What the plot shows.

\* Only the first k of the requests may be measured with other settings.
OnlyFirst(q, k, m) == \A i \in DOMAIN q : i > k => q[i].measured = m

PlotInv == /\ DistancesInv /\ OldInv /\ ScaleIsTheRange
           /\ recorded \in Recordings \cup {None}
           /\ recorded # None => requests = <<>>

LEMMA MaxOfScale ==
  ASSUME NEW m \in Int, NEW S, S # {}, S \subseteq {0, m}
  PROVE  Max(S) \in {0, m}
<1>1. \E x \in S : \A y \in S : x >= y
  <2>0. 0 >= 0 /\ m >= m /\ (m >= 0 \/ 0 >= m)
    OBVIOUS
  <2>1. CASE m \in S /\ m >= 0
    BY <2>0, <2>1, Zenon
  <2>2. CASE m \in S /\ 0 \in S /\ 0 >= m
    BY <2>0, <2>2, Zenon
  <2>3. CASE m \in S /\ 0 \notin S
    BY <2>0, <2>3, Zenon
  <2>4. CASE m \notin S
    BY <2>0, <2>4, Zenon
  <2>5. QED
    BY <2>0, <2>1, <2>2, <2>3, <2>4, Zenon
<1>2. Max(S) \in S
  BY <1>1, Zenon DEF Max
<1>3. QED
  BY <1>2

LEMMA MillimetresFacts ==
  ASSUME NEW s \in SettingsSet PROVE Millimetres(s) \in Int
<1>1. s.points \in Nat /\ s.period \in Nat /\ s.sound \in Nat /\ 80000 \in Nat \ {0}
  BY SMT, SettingsFacts, SoundFacts
<1>2. PICK a \in Nat : a = s.points * s.sound
  BY <1>1
<1>3. PICK p \in Nat : p = s.period
  BY <1>1
<1>4. TimesOver(a, p, 80000) \in Nat
  BY ExactMillimetres
<1>5. QED
  BY SMT, <1>2, <1>3, <1>4 DEF Millimetres

LEMMA MeasuredFacts ==
  ASSUME NEW s \in SettingsSet PROVE Measured(s) \in MeasuredSet
BY SettingsFacts DEF Measured, MeasuredSet

LEMMA FirstOfTail ==
  ASSUME NEW q \in Seq(Req), q # <<>>, NEW k \in Int, NEW m, OnlyFirst(q, k, m)
  PROVE  /\ OnlyFirst(Tail(q), k, m) /\ OnlyFirst(Tail(q), k - 1, m)
         /\ k < 1 => Head(q).measured = m
<1>1. /\ 1 \in DOMAIN q /\ Head(q) = q[1]
      /\ \A i \in DOMAIN Tail(q) : i + 1 \in DOMAIN q /\ Tail(q)[i] = q[i + 1]
      /\ DOMAIN Tail(q) \subseteq Nat
  BY HeadAndTail, QueueFacts
<1>2. k < 1 => Head(q).measured = m
  BY <1>1 DEF OnlyFirst
<1>3. ASSUME NEW i \in DOMAIN Tail(q), i > k - 1
      PROVE  Tail(q)[i].measured = m
  <2>1. i + 1 > k /\ i + 1 \in DOMAIN q /\ Tail(q)[i] = q[i + 1]
    BY <1>1, <1>3
  <2>2. QED
    BY <2>1, Zenon DEF OnlyFirst
<1>4. ASSUME NEW i \in DOMAIN Tail(q), i > k PROVE i > k - 1
  BY <1>1, <1>4
<1>5. QED
  BY <1>2, <1>3, <1>4, Zenon DEF OnlyFirst

LEMMA FirstAndNew ==
  ASSUME NEW q \in Seq(Req), NEW k \in Int, NEW m, OnlyFirst(q, k, m),
         NEW r \in Req, r.measured = m
  PROVE  OnlyFirst(Append(q, r), k, m)
<1>1. \A i \in DOMAIN Append(q, r) : \/ i \in DOMAIN q /\ Append(q, r)[i] = q[i]
                                     \/ Append(q, r)[i] = r
  BY Appended, Zenon
<1>2. QED
  BY <1>1, Zenon DEF OnlyFirst

LEMMA AllFirst ==
  ASSUME NEW q \in Seq(Req), NEW k \in Int, k >= Len(q), NEW m
  PROVE  OnlyFirst(q, k, m)
<1>1. ASSUME NEW i \in DOMAIN q PROVE ~(i > k)
  BY QueueFacts
<1>2. QED
  BY <1>1, Zenon DEF OnlyFirst

\* What a new request carries.
LEMMA Carried ==
  ASSUME ScanInv', NEW a, NEW before, NEW m \in MeasuredSet, Ask(a, before, m)
  PROVE  \E r \in Req : r.measured = m /\ requests' = Append(before, r)
<1>1. target' \in Angle
  BY Zenon DEF ScanInv, TypeOK
<1>2. [angle |-> target', measured |-> m, current |-> TRUE] \in Req
  BY <1>1 DEF Req
<1>3. QED
  BY <1>2, Zenon DEF Ask

\* The plot with the counts of old profiles and of those on the way.
LEMMA PlotFacts ==
  ASSUME PlotInv
  PROVE  /\ old \in Nat /\ late \in Nat /\ old <= MaxOnWay + 1 /\ late <= MaxOnWay
         /\ late - old \in Int
         /\ recorded = None =>
              old <= late /\ OnlyFirst(requests, late - old, Measured(settings))
<1>1. MaxOnWay \in Nat
  BY ScanAssumption
<1>2. old \in Nat /\ late \in Nat /\ old <= MaxOnWay + 1 /\ late <= MaxOnWay
  BY <1>1 DEF PlotInv, OldInv
<1>3. recorded = None =>
        old <= late /\ OnlyFirst(requests, late - old, Measured(settings))
  BY Zenon DEF PlotInv, OldInv, OnlyFirst
<1>4. QED
  BY <1>2, <1>3

\* And back.
LEMMA PlotFrom ==
  ASSUME DistancesInv', ScaleIsTheRange', recorded' = recorded, PlotInv,
         old' \in 0..(MaxOnWay + 1), late' \in 0..MaxOnWay,
         recorded = None =>
           old' <= late' /\ OnlyFirst(requests', late' - old', Measured(settings')),
         recorded # None => requests' = <<>>
  PROVE  PlotInv'
<1>1. OldInv'
  BY Zenon DEF OldInv, OnlyFirst
<1>2. QED
  BY <1>1, Zenon DEF PlotInv

\* A plot that is cleared fits any settings.
LEMMA ClearPlot ==
  ASSUME PlotInv, ScanInv, NEW n, Clear(n), recorded' = recorded,
         \/ n = Len(requests) /\ requests' \in Seq(Req) /\ Len(requests') = Len(requests)
            /\ (requests = <<>> => requests' = <<>>)
         \/ /\ recorded = None /\ requests # <<>> /\ n = Len(requests) - 1
            /\ \E r \in Req : r.measured = Measured(settings') /\ requests' = Append(Tail(requests), r)
  PROVE  PlotInv'
<1>1. /\ old' = 0 /\ maxDistance' = 0 /\ late' = n
      /\ distances' = [a \in Angle |-> 0]
  BY DEF Clear
<1>2. [a \in Angle |-> 0] \in [Angle -> {0, Millimetres(settings')}]
  OBVIOUS
<1>3. DistancesInv' /\ ScaleIsTheRange'
  BY <1>1, <1>2, Zenon DEF DistancesInv, ScaleIsTheRange
<1>4. Len(requests) \in Nat /\ Len(requests) <= MaxOnWay /\ requests \in Seq(Req) /\ MaxOnWay \in Nat
  BY ScanFacts, ScanAssumption, Zenon
<1>5. 0 \in 0..(MaxOnWay + 1)
  BY <1>4
<1>6. CASE n = Len(requests) /\ requests' \in Seq(Req) /\ Len(requests') = Len(requests)
           /\ (requests = <<>> => requests' = <<>>)
  <2>1. late' \in 0..MaxOnWay /\ late' - old' \in Int /\ late' - old' >= Len(requests')
    BY <1>1, <1>4, <1>6
  <2>2. OnlyFirst(requests', late' - old', Measured(settings'))
    BY <1>6, <2>1, AllFirst, Zenon
  <2>3. old' <= late'
    BY <1>1, <1>4, <1>6
  <2>4. QED
    BY <1>1, <1>3, <1>5, <1>6, <2>1, <2>2, <2>3, PlotFrom, Zenon DEF PlotInv
<1>7. CASE /\ recorded = None /\ requests # <<>> /\ n = Len(requests) - 1
           /\ \E r \in Req : r.measured = Measured(settings') /\ requests' = Append(Tail(requests), r)
  <2>1. Tail(requests) \in Seq(Req) /\ Len(Tail(requests)) = Len(requests) - 1
    BY <1>4, <1>7, HeadAndTail, Zenon
  <2>2. Len(Tail(requests)) \in Nat
    BY <2>1, QueueFacts, Zenon
  <2>3. late' \in 0..MaxOnWay /\ late' - old' \in Int /\ late' - old' >= Len(Tail(requests))
    BY <1>1, <1>4, <1>7, <2>1, <2>2
  <2>4. OnlyFirst(Tail(requests), late' - old', Measured(settings'))
    BY <2>1, <2>3, AllFirst, Zenon
  <2>5. OnlyFirst(requests', late' - old', Measured(settings'))
    BY <1>7, <2>1, <2>3, <2>4, FirstAndNew, Zenon
  <2>6. old' <= late'
    BY <1>1, <1>4, <1>7, <2>1, <2>2
  <2>7. QED
    BY <1>1, <1>3, <1>5, <1>7, <2>3, <2>5, <2>6, PlotFrom, Zenon
<1>8. QED
  BY <1>6, <1>7, Zenon

\* A plot that is left alone needs the same settings, and what is asked for in
\* the meantime is asked for with them.
LEMMA SamePlot ==
  ASSUME PlotInv, UNCHANGED <<plot, recorded>>,
         Millimetres(settings') = Millimetres(settings),
         recorded = None => OnlyFirst(requests', late - old, Measured(settings')),
         recorded # None => requests' = <<>>
  PROVE  PlotInv'
<1>1. /\ old' = old /\ late' = late /\ maxDistance' = maxDistance
      /\ distances' = distances /\ recorded' = recorded
  BY DEF plot
<1>2. DistancesInv' /\ ScaleIsTheRange'
  BY <1>1, Zenon DEF PlotInv, DistancesInv, ScaleIsTheRange
<1>3. old' \in 0..(MaxOnWay + 1) /\ late' \in 0..MaxOnWay
  BY <1>1, Zenon DEF PlotInv, OldInv
<1>4. QED
  BY <1>1, <1>2, <1>3, PlotFacts, PlotFrom, Zenon

\* What is drawn: the distance of one angle, and the scale that goes with the
\* distances.
LEMMA DrawFacts ==
  ASSUME NEW a \in Angle, NEW m, settings \in SettingsSet, PlotInv, Draw(a, m)
  PROVE  /\ distances' \in [Angle -> {0, Millimetres(settings)}]
         /\ maxDistance' \in {0, Millimetres(settings)}
         /\ old' = IF m = Measured(settings) THEN old ELSE Min({MaxOnWay + 1, old + 1})
         /\ late' = late
<1> DEFINE mm == Millimetres(settings)
<1>1. mm \in Int
  BY MillimetresFacts, Zenon
<1>2. /\ distances' = [distances EXCEPT ![a] = mm]
      /\ maxDistance' = Max({distances'[x] : x \in Angle})
      /\ old' = IF m = Measured(settings) THEN old ELSE Min({MaxOnWay + 1, old + 1})
      /\ late' = late
  BY Zenon DEF Draw
<1>3. distances \in [Angle -> {0, mm}]
  BY Zenon DEF PlotInv, DistancesInv
<1> HIDE DEF mm
<1>4. distances' \in [Angle -> {0, mm}]
  BY <1>2, <1>3
<1>5. PICK S : S = {distances'[x] : x \in Angle}
  OBVIOUS
<1>6. S # {} /\ S \subseteq {0, mm}
  BY <1>4, <1>5
<1>7. Max(S) \in {0, mm}
  BY <1>1, <1>6, MaxOfScale, Zenon
<1>8. QED
  BY <1>2, <1>4, <1>5, <1>7, Zenon DEF mm

\* A profile that arrives uses up one request; an old one, of those that may
\* be old.
LEMMA ArrivedPlot ==
  ASSUME settings \in SettingsSet, PlotInv, ScanInv', NEW m, Arrived(m), head' \in Angle,
         recorded # None => requests' = <<>>,
         recorded = None =>
           /\ \/ m = Measured(settings)
              \/ old < late
           /\ OnlyFirst(requests', late - old - 1, Measured(settings))
  PROVE  PlotInv'
<1>1. /\ settings' = settings /\ recorded' = recorded
      /\ IF InSector(head') THEN Draw(Seen(head'), m) ELSE UNCHANGED plot
  BY Zenon DEF Arrived, range
<1>2. Seen(head') \in Angle
  BY SeenFacts, Zenon
<1>3. /\ old \in Nat /\ late \in Nat /\ old <= MaxOnWay + 1 /\ late <= MaxOnWay
      /\ MaxOnWay \in Nat
  BY PlotFacts, ScanAssumption, Zenon
<1>4. recorded = None => OnlyFirst(requests', late - old, Measured(settings))
  <2>1. ASSUME NEW i \in DOMAIN requests', i > late - old PROVE i > late - old - 1
    <3>1. requests' \in Seq(Req)
      BY Zenon DEF ScanInv
    <3>2. i \in Nat
      BY <2>1, <3>1
    <3>3. QED
      BY <1>3, <2>1, <3>2
  <2>2. QED
    BY <2>1, Zenon DEF OnlyFirst
<1>5. CASE ~InSector(head')
  BY <1>1, <1>4, <1>5, SamePlot, Zenon
<1>6. CASE InSector(head')
  <2>1. /\ distances' \in [Angle -> {0, Millimetres(settings)}]
        /\ maxDistance' \in {0, Millimetres(settings)}
        /\ old' = IF m = Measured(settings) THEN old ELSE Min({MaxOnWay + 1, old + 1})
        /\ late' = late
    BY <1>1, <1>2, <1>6, DrawFacts, Zenon
  <2>2. DistancesInv' /\ ScaleIsTheRange'
    BY <1>1, <2>1, Zenon DEF DistancesInv, ScaleIsTheRange
  <2>3. /\ Min({MaxOnWay + 1, old + 1}) \in 0..(MaxOnWay + 1)
        /\ old < late => Min({MaxOnWay + 1, old + 1}) = old + 1
    <3>1. MaxOnWay + 1 \in Int /\ old + 1 \in Int
      BY <1>3
    <3>2. /\ Min({MaxOnWay + 1, old + 1}) \in {MaxOnWay + 1, old + 1}
          /\ Min({MaxOnWay + 1, old + 1}) <= MaxOnWay + 1
          /\ Min({MaxOnWay + 1, old + 1}) <= old + 1
      BY <3>1, MinOfTwo, Zenon
    <3>3. QED
      BY <1>3, <3>2
  <2>4. old' \in 0..(MaxOnWay + 1) /\ late' \in 0..MaxOnWay
    BY <1>3, <2>1, <2>3
  <2>5. recorded = None =>
          old' <= late' /\ OnlyFirst(requests', late' - old', Measured(settings'))
    <3>1. CASE m = Measured(settings)
      BY <1>1, <1>4, <2>1, <3>1, PlotFacts, Zenon
    <3>2. CASE m # Measured(settings)
      <4>1. SUFFICES ASSUME recorded = None
                     PROVE  old' <= late' /\ OnlyFirst(requests', late' - old', Measured(settings'))
        OBVIOUS
      <4>2. old < late /\ OnlyFirst(requests', late - old - 1, Measured(settings))
        BY <3>2, <4>1, Zenon
      <4>3. old' = old + 1 /\ late' = late
        BY <2>1, <2>3, <3>2, <4>2, Zenon
      <4>4. late' - old' = late - old - 1 /\ old' <= late'
        BY <1>3, <4>2, <4>3
      <4>5. QED
        BY <1>1, <4>2, <4>4, Zenon
    <3>3. QED
      BY <3>1, <3>2, Zenon
  <2>6. QED
    BY <1>1, <2>2, <2>4, <2>5, PlotFrom, Zenon
<1>7. QED
  BY <1>5, <1>6, Zenon

LEMMA ShowPlot ==
  ASSUME settings \in SettingsSet, PlotInv, ScanInv, ScanInv', Show
  PROVE  PlotInv'
<1> DEFINE m == Measured(settings)
<1>1. /\ recorded = None /\ requests # <<>> /\ head' \in Angle
      /\ Ask(head', Tail(requests), m) /\ Arrived(Head(requests).measured)
  BY Zenon DEF Show, DeviceData, ScanInv, TypeOK
<1>2. m \in MeasuredSet
  BY MeasuredFacts, Zenon
<1> HIDE DEF m
<1>3. PICK r \in Req : r.measured = m /\ requests' = Append(Tail(requests), r)
  BY <1>1, <1>2, Carried, Zenon
<1>4. /\ old \in Nat /\ late \in Nat /\ late - old \in Int
      /\ OnlyFirst(requests, late - old, m)
      /\ requests \in Seq(Req) /\ Tail(requests) \in Seq(Req)
  BY <1>1, PlotFacts, ScanFacts, Answered, Zenon DEF m
<1>5. /\ OnlyFirst(Tail(requests), late - old - 1, m)
      /\ late - old < 1 => Head(requests).measured = m
  <2>1. PICK k \in Int : k = late - old
    BY <1>4
  <2>2. OnlyFirst(requests, k, m)
    BY <1>4, <2>1, Zenon
  <2>3. requests \in Seq(Req) /\ requests # <<>>
    BY <1>1, <1>4, Zenon
  <2>4. OnlyFirst(Tail(requests), k - 1, m) /\ (k < 1 => Head(requests).measured = m)
    BY <2>2, <2>3, FirstOfTail
  <2>5. QED
    BY <2>1, <2>4, Zenon
<1>6. late - old - 1 \in Int /\ (~(late - old < 1) => old < late)
  BY <1>4
<1>7. OnlyFirst(requests', late - old - 1, m)
  BY <1>3, <1>4, <1>5, <1>6, FirstAndNew, Zenon
<1>8. Head(requests).measured = m \/ old < late
  BY <1>5, <1>6, Zenon
<1>9. QED
  BY <1>1, <1>7, <1>8, ArrivedPlot, Zenon DEF m

LEMMA ShowRecordPlot ==
  ASSUME settings \in SettingsSet, PlotInv, ScanInv', ShowRecord
  PROVE  PlotInv'
<1>1. /\ recorded # None /\ requests' = requests /\ head' \in Angle /\ Arrived(Record)
  BY Zenon DEF ShowRecord, RecordedData, ScanInv, TypeOK
<1>2. requests' = <<>>
  BY <1>1, Zenon DEF PlotInv
<1>3. QED
  BY <1>1, <1>2, ArrivedPlot, Zenon

LEMMA ChangeScan ==
  ASSUME ScanInv, NEW s, Change(s)
  PROVE  ScanInv' /\ recorded' = recorded /\ requests' = requests
<1>1. changes' \in 0..MaxChanges
  BY ChangesCount, Zenon DEF ScanInv, Change
<1>2. QED
  BY <1>1, CountScan, Zenon DEF Change

-----------------------------------------------------------------------------
\* The whole.

ViewInv == ScanInv /\ RangeInv /\ PlotInv

LEMMA SameRange ==
  ASSUME RangeInv, UNCHANGED range
  PROVE  RangeInv' /\ settings' = settings
BY DEF range, RangeInv, SettingsType, RangeIsTheChosen, Metres, Millimetres, TransmitDurationMax

LEMMA ViewStart == ViewInit => ViewInv
<1> SUFFICES ASSUME ViewInit PROVE ViewInv
  OBVIOUS
<1>1. ScanInv
  BY ScanInit, Zenon DEF ViewInit
<1>2. /\ recorded \in Recordings \cup {None} /\ requests = <<>>
      /\ distances = [a \in Angle |-> 0] /\ maxDistance = 0 /\ old = 0 /\ late = 0
  BY Zenon DEF ViewInit, Init
<1>3. DistancesInv
  BY <1>2 DEF DistancesInv
<1>4. 0 \in 0..(MaxOnWay + 1) /\ 0 \in 0..MaxOnWay /\ DOMAIN requests = {}
      /\ 0 <= 0
  BY <1>2, ScanAssumption
<1>5. OldInv /\ ScaleIsTheRange
  BY <1>2, <1>4, Zenon DEF OldInv, ScaleIsTheRange
<1>6. QED
  BY <1>1, <1>2, <1>3, <1>5, ViewInitRange, Zenon DEF ViewInv, PlotInv

\* A change of the settings that clears the plot.
LEMMA ChangeClears ==
  ASSUME ScanInv, PlotInv, NEW s, Change(s), Clear(Len(requests))
  PROVE  ScanInv' /\ PlotInv'
<1>1. ScanInv' /\ recorded' = recorded /\ requests' = requests
  BY ChangeScan, Zenon
<1>2. requests' \in Seq(Req) /\ Len(requests') = Len(requests)
  BY <1>1, Zenon DEF ScanInv
<1>3. QED
  BY <1>1, <1>2, ClearPlot, Zenon

LEMMA NackStep ==
  ASSUME ScanInv, PlotInv, settings' \in SettingsSet, Nack
  PROVE  ScanInv' /\ PlotInv'
<1> DEFINE m == Measured(settings')
<1>1. /\ recorded = None /\ recorded' = recorded /\ requests # <<>>
      /\ changes < MaxChanges /\ changes' = changes + 1
      /\ Ask(head, Tail(requests), m) /\ Clear(Len(requests) - 1)
      /\ head' = head /\ UNCHANGED <<sector, speed>> /\ settled' = settled
  BY Zenon DEF Nack
<1>2. m \in MeasuredSet
  BY MeasuredFacts, Zenon
<1> HIDE DEF m
<1>3. changes' \in 0..MaxChanges
  BY <1>1, ChangesCount, Zenon DEF ScanInv
<1>4. ScanInv'
  BY <1>1, <1>2, <1>3, ScanFacts, Answered, AskScan, Zenon
<1>5. \E r \in Req : r.measured = m /\ requests' = Append(Tail(requests), r)
  BY <1>1, <1>2, <1>4, Carried, Zenon
<1>6. QED
  BY <1>1, <1>4, <1>5, ClearPlot, Zenon DEF m

LEMMA AskAgainStep ==
  ASSUME ScanInv, PlotInv, settings \in SettingsSet, settings' = settings, AskAgain
  PROVE  ScanInv' /\ PlotInv'
<1> DEFINE m == Measured(settings)
<1>1. /\ recorded = None /\ ProfileTimeout(m) /\ UNCHANGED <<plot, recorded>>
      /\ Ask(head, requests, m)
  BY Zenon DEF AskAgain, ProfileTimeout
<1>2. m \in MeasuredSet
  BY MeasuredFacts, Zenon
<1> HIDE DEF m
<1>3. ScanInv'
  BY <1>1, <1>2, TimeoutScan, Zenon
<1>4. PICK r \in Req : r.measured = m /\ requests' = Append(requests, r)
  BY <1>1, <1>2, <1>3, Carried, Zenon
<1>5. /\ late - old \in Int /\ OnlyFirst(requests, late - old, m)
      /\ requests \in Seq(Req)
  BY <1>1, PlotFacts, ScanFacts, Zenon DEF m
<1>6. OnlyFirst(requests', late - old, m)
  BY <1>4, <1>5, FirstAndNew, Zenon
<1>7. QED
  BY <1>1, <1>3, <1>6, SamePlot, Zenon DEF m

LEMMA LoseStep ==
  ASSUME ScanInv, PlotInv, settings' = settings, LoseOne
  PROVE  ScanInv' /\ PlotInv'
<1>1. /\ requests # <<>> /\ requests' = Tail(requests) /\ changes' = changes
      /\ UNCHANGED <<head, sector, speed, reverse, target, fresh, settled>>
      /\ UNCHANGED <<plot, recorded>>
  BY Zenon DEF LoseOne, Lose
<1>2. changes' \in 0..MaxChanges
  BY <1>1, ScanFacts, Zenon
<1>3. recorded = None
  BY <1>1, Zenon DEF PlotInv
<1>4. OnlyFirst(requests', late - old, Measured(settings'))
  BY <1>1, <1>3, PlotFacts, ScanFacts, FirstOfTail, Zenon
<1>5. QED
  BY <1>1, <1>2, <1>3, <1>4, CountScan, SamePlot, Zenon

LEMMA ChooseSectorStep ==
  ASSUME ScanInv, PlotInv, NEW s \in Sectors, ChooseSector(s)
  PROVE  ScanInv' /\ PlotInv'
<1>1. /\ SetSectorSize(s) /\ Clear(Len(requests)) /\ recorded' = recorded /\ Outdate
  BY Zenon DEF ChooseSector, SetSectorSize
<1>2. ScanInv'
  BY <1>1, SectorScanned, Zenon
<1>3. requests' \in Seq(Req) /\ Len(requests') = Len(requests)
  BY <1>1, OutdateFacts, Zenon
<1>4. requests = <<>> => requests' = <<>>
  BY <1>3
<1>5. QED
  BY <1>1, <1>2, <1>3, <1>4, ClearPlot, Zenon

LEMMA ChooseSpeedStep ==
  ASSUME ScanInv, PlotInv, NEW s \in Speeds, ChooseSpeed(s)
  PROVE  ScanInv' /\ PlotInv'
<1>1. /\ SetAngularSpeed(s) /\ UNCHANGED <<plot, recorded>> /\ settings' = settings /\ Outdate
  BY Zenon DEF ChooseSpeed, SetAngularSpeed, range
<1>2. ScanInv'
  BY <1>1, SpeedScanned, Zenon
<1>3. /\ requests' \in Seq(Req) /\ Len(requests') = Len(requests)
      /\ DOMAIN requests' = DOMAIN requests
      /\ \A i \in DOMAIN requests' : requests'[i].measured = requests[i].measured
  BY <1>1, OutdateFacts, Zenon
<1>4. recorded = None => OnlyFirst(requests', late - old, Measured(settings'))
  BY <1>1, <1>3, PlotFacts, Zenon DEF OnlyFirst
<1>5. recorded # None => requests' = <<>>
  <2>1. requests = <<>> => requests' = <<>>
    BY <1>3
  <2>2. QED
    BY <2>1, Zenon DEF PlotInv
<1>6. QED
  BY <1>1, <1>2, <1>4, <1>5, SamePlot, Zenon

LEMMA ViewStep == ViewInv /\ [ViewNext]_view => ViewInv'
<1> SUFFICES ASSUME ViewInv, [ViewNext]_view PROVE ViewInv'
  OBVIOUS
<1>0. /\ ScanInv /\ RangeInv /\ PlotInv /\ settings \in SettingsSet
  BY Zenon DEF ViewInv, RangeInv, SettingsType
<1>1. CASE Show
  <2>1. DeviceData(Measured(settings)) /\ UNCHANGED range /\ Measured(settings) \in MeasuredSet
    BY <1>0, <1>1, MeasuredFacts, Zenon DEF Show, Arrived
  <2>2. ScanInv'
    BY <1>0, <2>1, DeviceDataScan, Zenon
  <2>3. QED
    BY <1>0, <1>1, <2>1, <2>2, SameRange, ShowPlot, Zenon DEF ViewInv
<1>2. CASE ShowRecord
  <2>1. RecordedData /\ UNCHANGED range
    BY <1>2, Zenon DEF ShowRecord, Arrived
  <2>2. QED
    BY <1>0, <1>2, <2>1, RecordedScan, SameRange, ShowRecordPlot, Zenon DEF ViewInv
<1>3. CASE AskAgain
  <2>1. UNCHANGED range
    BY <1>3, Zenon DEF AskAgain
  <2>2. QED
    BY <1>0, <1>3, <2>1, SameRange, AskAgainStep, Zenon DEF ViewInv
<1>4. CASE LoseOne
  <2>1. UNCHANGED range
    BY <1>4, Zenon DEF LoseOne
  <2>2. QED
    BY <1>0, <1>4, <2>1, SameRange, LoseStep, Zenon DEF ViewInv
<1>5. CASE Nack
  <2>1. RangeInv' /\ settings' \in SettingsSet
    BY <1>0, <1>5, NackRange, Zenon DEF RangeInv, SettingsType
  <2>2. QED
    BY <1>0, <1>5, <2>1, NackStep, Zenon DEF ViewInv
<1>6. CASE ResetSettings
  <2>1. Change(AdjustTransmitDuration(ViewerDefault)) /\ Clear(Len(requests))
    BY <1>6, Zenon DEF ResetSettings
  <2>2. QED
    BY <1>0, <1>6, <2>1, ChangeClears, ResetSettingsRange, Zenon DEF ViewInv
<1>7. ASSUME NEW d \in Ranges, SetRange(d) PROVE ViewInv'
  <2>1. /\ Change(WithRange(d, FirmwareMaxNumberOfPoints, settings.sound, settings))
        /\ Clear(Len(requests))
    BY <1>7, Zenon DEF SetRange
  <2>2. QED
    BY <1>0, <1>7, <2>1, ChangeClears, SetRangeRange, Zenon DEF ViewInv
<1>8. ASSUME NEW c \in Sounds, SetSpeedOfSound(c) PROVE ViewInv'
  <2>1. /\ Change(WithRange(Metres(settings), settings.points, c, settings))
        /\ Clear(Len(requests))
    BY <1>8, Zenon DEF SetSpeedOfSound
  <2>2. QED
    BY <1>0, <1>8, <2>1, ChangeClears, SetSpeedOfSoundRange, Zenon DEF ViewInv
<1>9. ASSUME NEW t \in Durations, SetTransmitDuration(t) PROVE ViewInv'
  <2>1. Change([settings EXCEPT !.duration = t]) /\ UNCHANGED plot
    BY <1>9, Zenon DEF SetTransmitDuration
  <2>2. ScanInv' /\ recorded' = recorded /\ requests' = requests
    BY <1>0, <2>1, ChangeScan, Zenon
  <2>3. /\ RangeInv' /\ Millimetres(settings') = Millimetres(settings)
        /\ Measured(settings') = Measured(settings)
    BY <1>0, <1>9, SetTransmitDurationRange, Zenon
  <2>4. /\ recorded = None => OnlyFirst(requests', late - old, Measured(settings'))
        /\ recorded # None => requests' = <<>>
    BY <1>0, <2>2, <2>3, PlotFacts, Zenon DEF PlotInv
  <2>5. PlotInv'
    BY <1>0, <2>1, <2>2, <2>3, <2>4, SamePlot, Zenon
  <2>6. QED
    BY <2>2, <2>3, <2>5, Zenon DEF ViewInv
<1>10. ASSUME NEW s \in Sectors, ChooseSector(s) PROVE ViewInv'
  <2>1. UNCHANGED range
    BY <1>10, Zenon DEF ChooseSector
  <2>2. QED
    BY <1>0, <1>10, <2>1, ChooseSectorStep, SameRange, Zenon DEF ViewInv
<1>11. ASSUME NEW s \in Speeds, ChooseSpeed(s) PROVE ViewInv'
  <2>1. UNCHANGED range
    BY <1>11, Zenon DEF ChooseSpeed
  <2>2. QED
    BY <1>0, <1>11, <2>1, ChooseSpeedStep, SameRange, Zenon DEF ViewInv
<1>12. CASE UNCHANGED view
  <2>1. /\ UNCHANGED <<head, sector, speed, reverse, target, fresh, settled>>
        /\ requests' = requests /\ changes' = changes
        /\ UNCHANGED range /\ UNCHANGED <<plot, recorded>>
    BY <1>12, Zenon DEF view, vars
  <2>2. changes' \in 0..MaxChanges
    BY <1>0, <2>1, Zenon DEF ScanInv, TypeOK
  <2>3. ScanInv' /\ RangeInv' /\ settings' = settings
    BY <1>0, <2>1, <2>2, CountScan, SameRange, Zenon
  <2>4. /\ recorded = None => OnlyFirst(requests', late - old, Measured(settings'))
        /\ recorded # None => requests' = <<>>
    BY <1>0, <2>1, <2>3, PlotFacts, Zenon DEF PlotInv
  <2>5. PlotInv'
    BY <1>0, <2>1, <2>3, <2>4, SamePlot, Zenon
  <2>6. QED
    BY <2>3, <2>5, Zenon DEF ViewInv
<1>13. QED
  BY <1>1, <1>2, <1>3, <1>4, <1>5, <1>6, <1>7, <1>8, <1>9, <1>10, <1>11, <1>12,
     Zenon DEF ViewNext

LEMMA ViewAlways == ViewSpec => []ViewInv
BY ViewStart, ViewStep, PTL DEF ViewSpec

\* The invariants of the scan, the settings and the plot together: what is
\* asked for and, once a reply to it has come, the head lie in the sector
\* (legacyProfileRequest), however many requests are repeated and replies late
\* or lost; a full circle is scanned forwards; every setting is one the firmware
\* can do (set_range, set_speed_of_sound, resetSettings and the NACK); every
\* distance of the plot is the range of the settings; and a request made since
\* the plot was cleared carries the settings of now.
THEOREM ViewInvariant == ViewSpec => []Inv
<1>1. ViewInv => Inv
  BY Zenon DEF ViewInv, ScanInv, RangeInv, PlotInv, Inv, RequestsType, Req
<1>2. QED
  BY <1>1, ViewAlways, PTL

\* Changes of the range, the speed of sound and the pulse, resets and NACKs, in
\* any order and number, leave the range, in whole metres, at the one chosen
\* last, with a sample period and a pulse that the firmware can do.
THEOREM RangeKept == ViewSpec => []RangeIsTheChosen
<1>1. ViewInv => RangeIsTheChosen
  BY Zenon DEF ViewInv, RangeInv
<1>2. QED
  BY <1>1, ViewAlways, PTL

\* The scale that PolarPlot::draw() computes from its distances is the range
\* of the settings or, on an empty plot, nothing.
THEOREM ScaleFollows == ViewSpec => []ScaleIsTheRange
<1>1. ViewInv => ScaleIsTheRange
  BY Zenon DEF ViewInv, PlotInv
<1>2. QED
  BY <1>1, ViewAlways, PTL

\* With a device, no more profiles after PolarPlot::clear() are drawn at a
\* range they were not measured with than were on the way when it was called.
THEOREM FewOld == ViewSpec => []OnlyLateOnesAreOld
<1>1. ViewInv => OnlyLateOnesAreOld
  <2> SUFFICES ASSUME ViewInv PROVE OnlyLateOnesAreOld
    OBVIOUS
  <2>1. recorded = None => old <= late
    BY Zenon DEF ViewInv, PlotInv, OldInv
  <2>2. QED
    BY <2>1, Zenon DEF OnlyLateOnesAreOld
<1>2. QED
  BY <1>1, ViewAlways, PTL

\* A request that legacyProfileRequest() repeats, with no setting changed in
\* between, asks for the angle of the first one.
THEOREM AskedAgain == ViewSpec => AskedAgainAlike
<1>1. ASSUME ViewInv, [ViewNext]_view
      PROVE  [fresh /\ fresh' /\ head' = head /\ changes' = changes
                => target' = target]_vars
  <2>1. SUFFICES ASSUME fresh, head' = head, changes' = changes PROVE target' = target
    BY Zenon
  <2>2. RequestStands /\ changes \in Int
    BY <1>1 DEF ViewInv, ScanInv, TypeOK
  <2>3. CASE Show
    <3>1. LegacyProfileRequest(head')
      BY <2>3, Zenon DEF Show, DeviceData, Ask
    <3>2. LegacyProfileRequest(head)
      BY <2>1, <3>1, Zenon
    <3>3. QED
      BY <2>1, <2>2, <3>2, StandsRepeats, Zenon
  <2>4. CASE AskAgain
    <3>1. LegacyProfileRequest(head)
      BY <2>4, Zenon DEF AskAgain, ProfileTimeout, Ask
    <3>2. QED
      BY <2>1, <2>2, <3>1, StandsRepeats, Zenon
  <2>12. CASE ShowRecord
    <3>1. LegacyProfileRequest(head')
      BY <2>12, Zenon DEF ShowRecord, RecordedData
    <3>2. LegacyProfileRequest(head)
      BY <2>1, <3>1, Zenon
    <3>3. QED
      BY <2>1, <2>2, <3>2, StandsRepeats, Zenon
  <2>13. CASE LoseOne
    BY <2>13, Zenon DEF LoseOne, Lose
  <2>5. changes' # changes + 1
    BY <2>1, <2>2
  <2>6. ~Nack /\ ~ResetSettings
    BY <2>5, Zenon DEF Nack, ResetSettings, Change
  <2>7. ~(\E c \in Sounds : SetSpeedOfSound(c)) /\ ~(\E t \in Durations : SetTransmitDuration(t))
    BY <2>5, Zenon DEF SetSpeedOfSound, SetTransmitDuration, Change
  <2>8. ASSUME NEW d \in Ranges PROVE ~SetRange(d)
    <3>1. ASSUME NEW w PROVE ~Change(w)
      BY <2>5, Zenon DEF Change
    <3>2. QED
      BY SMT, <3>1 DEF SetRange
  <2>9. CASE \/ \E s \in Sectors : ChooseSector(s)
             \/ \E s \in Speeds : ChooseSpeed(s)
    BY <2>5, <2>9, Zenon DEF ChooseSector, ChooseSpeed, SetSectorSize, SetAngularSpeed
  <2>10. CASE UNCHANGED view
    BY <2>10, Zenon DEF view, vars
  <2>11. QED
    BY <1>1, <2>3, <2>4, <2>6, <2>7, <2>8, <2>9, <2>10, <2>12, <2>13, Zenon DEF ViewNext
<1>2. QED
  BY <1>1, ViewAlways, PTL DEF ViewSpec, AskedAgainAlike

=============================================================================
