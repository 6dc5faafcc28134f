--------------------------- MODULE DiscoveryProofs ---------------------------
(***************************************************************************)
(* Proofs about Discovery, for any links, however many devices, reports    *)
(* and calls there are.  A report is a list, and its links are appended    *)
(* one after the other: that each append() keeps the list in order and     *)
(* what it holds is carried over the whole report by an induction, stated  *)
(* with sets of numbers (SetInduction).                                    *)
(***************************************************************************)
EXTENDS Discovery, SequenceTheorems, WellFoundedInduction, TLAPS

LEMMA SmallestNat ==
  ASSUME NEW T \in SUBSET Nat, T # {}
  PROVE  \E m \in T : \A k \in T : m <= k
<1> DEFINE R == {ss \in Nat \X Nat : ss[1] < ss[2]}
<1>1. IsWellFoundedOn(R, Nat)
  BY NatLessThanWellFounded DEF OpToRel
<1>2. PICK m \in T : \A k \in T : ~(<<k, m>> \in R)
  BY <1>1, WFMin
<1>3. ASSUME NEW k \in T PROVE m <= k
  <2>1. <<k, m>> \in Nat \X Nat /\ ~(<<k, m>> \in R)
    BY <1>2
  <2>2. ~(k < m)
    BY <2>1
  <2>3. QED
    BY <2>2
<1>4. QED
  BY <1>3

\* Induction: what holds of 0 and of the successor of each number it holds of.
LEMMA SetInduction ==
  ASSUME NEW S \in SUBSET Nat, 0 \in S, \A n \in S : n + 1 \in S
  PROVE  S = Nat
<1> DEFINE T == Nat \ S
<1>1. ASSUME T # {} PROVE FALSE
  <2>1. PICK m \in T : \A k \in T : m <= k
    BY <1>1, SmallestNat
  <2>2. m # 0 /\ m - 1 \in Nat
    BY <2>1
  <2>3. m - 1 \in S
    BY <2>1, <2>2
  <2>4. (m - 1) + 1 \in S
    BY <2>3
  <2>5. QED
    BY <2>1, <2>4
<1>2. QED
  BY <1>1

-----------------------------------------------------------------------------
\* One link after the other: the recursion of AppendRows has a solution.
Unfolds(after, rs, links, who) ==
  after = [k \in 0..Len(links) |->
             IF k = 0 THEN rs ELSE AppendRow(after[k - 1], links[k], who)]

LEMMA UnfoldsTo ==
  ASSUME NEW rs, NEW links, Len(links) \in Nat, NEW who
  PROVE  \E after : Unfolds(after, rs, links, who)
<1> DEFINE To(f, n) == /\ DOMAIN f = 0..n /\ f[0] = rs
                       /\ \A k \in 1..n : f[k] = AppendRow(f[k - 1], links[k], who)
           S == {n \in Nat : \E f : To(f, n)}
<1>1. 0 \in S
  <2>1. To([k \in 0..0 |-> rs], 0)
    OBVIOUS
  <2>2. QED
    BY <2>1
<1>2. ASSUME NEW n \in S PROVE n + 1 \in S
  <2>1. PICK f : To(f, n)
    OBVIOUS
  <2> DEFINE g == [k \in 0..(n + 1) |->
                     IF k \in 0..n THEN f[k] ELSE AppendRow(f[n], links[n + 1], who)]
  <2>2. DOMAIN g = 0..(n + 1) /\ g[0] = rs
    BY <2>1
  <2>3. ASSUME NEW k \in 1..(n + 1)
        PROVE  g[k] = AppendRow(g[k - 1], links[k], who)
    <3>1. CASE k \in 1..n
      <4>1. g[k] = f[k] /\ g[k - 1] = f[k - 1]
        BY <3>1
      <4>2. QED
        BY <2>1, <3>1, <4>1
    <3>2. CASE k = n + 1
      <4>1. g[k] = AppendRow(f[n], links[n + 1], who) /\ g[n] = f[n] /\ k - 1 = n
        BY <3>2
      <4>2. QED
        BY <3>2, <4>1
    <3>3. QED
      BY <3>1, <3>2
  <2> HIDE DEF g
  <2>4. To(g, n + 1)
    BY <2>2, <2>3
  <2>5. QED
    BY <2>4
<1>3. S = Nat
  <2> HIDE DEF S
  <2>1. S \in SUBSET Nat
    BY DEF S
  <2>2. QED
    BY <1>1, <1>2, <2>1, SetInduction
<1>4. PICK f : To(f, Len(links))
  BY <1>3
<1> DEFINE h == [k \in 0..Len(links) |-> f[k]]
<1>5. Unfolds(h, rs, links, who)
  <2>1. ASSUME NEW k \in 0..Len(links)
        PROVE  h[k] = IF k = 0 THEN rs ELSE AppendRow(h[k - 1], links[k], who)
    <3>1. CASE k = 0
      BY <1>4, <3>1
    <3>2. CASE k # 0
      <4>1. k \in 1..Len(links) /\ k - 1 \in 0..Len(links)
        BY <3>2
      <4>2. QED
        BY <1>4, <3>2, <4>1
    <3>3. QED
      BY <3>1, <3>2
  <2>2. QED
    BY <2>1 DEF Unfolds
<1>6. QED
  BY <1>5

\* The lists after none, one, two ... of the links have been appended.
OneByOne(after, rs, links, who) ==
  /\ after[0] = rs /\ AppendRows(rs, links, who) = after[Len(links)]
  /\ \A k \in 1..Len(links) : after[k] = AppendRow(after[k - 1], links[k], who)

LEMMA AppendRowsUnfolds ==
  ASSUME NEW rs, NEW links, Len(links) \in Nat, NEW who
  PROVE  \E after : OneByOne(after, rs, links, who)
<1> DEFINE after == CHOOSE f : Unfolds(f, rs, links, who)
<1>1. Unfolds(after, rs, links, who)
  BY UnfoldsTo
<1>2. AppendRows(rs, links, who) = after[Len(links)]
  BY DEF AppendRows, Unfolds
<1> HIDE DEF after
<1>3. OneByOne(after, rs, links, who)
  BY <1>1, <1>2 DEF Unfolds, OneByOne
<1>4. QED
  BY <1>3

-----------------------------------------------------------------------------
\* A list of devices: each link has one row.
RowType == [link: AllLinks, available: BOOLEAN, detector: Detectors]
List(rs) == /\ rs \in Seq(RowType)
            /\ \A i, j \in DOMAIN rs : rs[i].link = rs[j].link => i = j

\* ts has the rows of rs, and none of them less available.
Keeps(rs, ts) ==
  /\ DOMAIN rs \subseteq DOMAIN ts
  /\ \A i \in DOMAIN rs : /\ ts[i].link = rs[i].link
                          /\ ts[i].detector = rs[i].detector
                          /\ rs[i].available => ts[i].available

Shows(rs, link) == \E i \in DOMAIN rs : rs[i].link = link /\ rs[i].available

LEMMA ListFacts ==
  ASSUME NEW rs, List(rs)
  PROVE  /\ Len(rs) \in Nat /\ DOMAIN rs = 1..Len(rs)
         /\ \A i \in DOMAIN rs : rs[i] \in RowType
BY LenProperties, ElementOfSeq DEF List

\* The first row of a link is its only one.
LEMMA RowNumberFacts ==
  ASSUME NEW rs, List(rs), NEW i \in DOMAIN rs
  PROVE  RowNumber(rs, rs[i].link) = i
<1>1. \A j \in 1..(i - 1) : rs[j].link # rs[i].link
  BY ListFacts DEF List
<1>2. \A k \in DOMAIN rs : rs[k].link = rs[i].link => k = i
  BY DEF List
<1>3. QED
  BY <1>1, <1>2 DEF RowNumber

\* append() keeps the rows and offers the link.
LEMMA AppendRowFacts ==
  ASSUME NEW rs, List(rs), NEW link \in AllLinks, NEW who \in Detectors
  PROVE  /\ List(AppendRow(rs, link, who))
         /\ Keeps(rs, AppendRow(rs, link, who))
         /\ Shows(AppendRow(rs, link, who), link)
<1> DEFINE t == AppendRow(rs, link, who)
<1>1. CASE HasRow(rs, link)
  <2>1. PICK i \in DOMAIN rs : rs[i].link = link
    BY <1>1 DEF HasRow
  <2>2. t = [rs EXCEPT ![i].available = TRUE]
    BY <1>1, <2>1, RowNumberFacts DEF AppendRow
  <2>3. DOMAIN t = DOMAIN rs
    BY <2>2
  <2>4. ASSUME NEW j \in DOMAIN rs
        PROVE  /\ t[j] \in RowType /\ t[j].link = rs[j].link /\ t[j].detector = rs[j].detector
               /\ j # i => t[j] = rs[j]
               /\ j = i => t[j].available
    <3> DEFINE r == [rs[i] EXCEPT !.available = TRUE]
    <3>1. rs[i] \in RowType /\ rs[j] \in RowType
      BY ListFacts
    <3>2. /\ r \in RowType /\ r.link = rs[i].link /\ r.detector = rs[i].detector
          /\ r.available
      BY <3>1 DEF RowType
    <3>3. t = [rs EXCEPT ![i] = r]
      BY <2>2
    <3> HIDE DEF r, t
    <3>4. t[j] = IF j = i THEN r ELSE rs[j]
      BY <3>3
    <3>5. QED
      BY <3>1, <3>2, <3>4
  <2> HIDE DEF t
  <2>5. t \in Seq(RowType)
    <3>1. t \in [1..Len(rs) -> RowType]
      <4>1. t = [j \in DOMAIN rs |-> t[j]]
        BY <2>2
      <4>2. QED
        BY <2>4, <4>1, ListFacts
    <3>2. QED
      BY <3>1, ListFacts
  <2>6. List(t)
    BY <2>3, <2>4, <2>5 DEF List
  <2>7. Keeps(rs, t) /\ Shows(t, link)
    BY <2>1, <2>3, <2>4 DEF Keeps, Shows
  <2>8. QED
    BY <2>6, <2>7 DEF t
<1>2. CASE ~HasRow(rs, link)
  <2>1. t = Append(rs, Row(link, who))
    BY <1>2 DEF AppendRow
  <2>2. Row(link, who) \in RowType /\ Row(link, who).link = link /\ Row(link, who).available
    BY DEF Row, RowType
  <2>3. \A j \in DOMAIN rs : rs[j].link # link
    BY <1>2 DEF HasRow
  <2> HIDE DEF t
  <2>4. /\ t \in Seq(RowType) /\ Len(t) = Len(rs) + 1 /\ DOMAIN t = 1..Len(t)
        /\ \A j \in DOMAIN rs : t[j] = rs[j]
        /\ t[Len(rs) + 1] = Row(link, who)
    <3>1. rs \in Seq(RowType)
      BY DEF List
    <3>2. QED
      BY <2>1, <2>2, <3>1, AppendProperties, LenProperties
  <2>5. DOMAIN t = DOMAIN rs \cup {Len(rs) + 1}
    BY <2>4, ListFacts
  <2>6. List(t)
    BY <2>2, <2>3, <2>4, <2>5 DEF List
  <2>7. Keeps(rs, t)
    BY <2>4, <2>5 DEF Keeps
  <2>8. Shows(t, link)
    BY <2>2, <2>4, <2>5 DEF Shows
  <2>9. QED
    BY <2>6, <2>7, <2>8 DEF t
<1>3. QED
  BY <1>1, <1>2

LEMMA KeepsFacts ==
  ASSUME NEW rs, NEW ts, NEW us, Keeps(rs, ts), Keeps(ts, us)
  PROVE  Keeps(rs, us) /\ \A link : Shows(ts, link) => Shows(us, link)
BY DEF Keeps, Shows

\* A report keeps the rows and offers each link it holds.
LEMMA AppendRowsFacts ==
  ASSUME NEW rs, List(rs), NEW links \in Seq(AllLinks), NEW who \in Detectors
  PROVE  /\ List(AppendRows(rs, links, who))
         /\ Keeps(rs, AppendRows(rs, links, who))
         /\ \A k \in 1..Len(links) : Shows(AppendRows(rs, links, who), links[k])
<1>1. Len(links) \in Nat /\ \A k \in 1..Len(links) : links[k] \in AllLinks
  BY LenProperties, ElementOfSeq
<1>2. PICK after : OneByOne(after, rs, links, who)
  BY <1>1, AppendRowsUnfolds
<1> DEFINE Good(k) == /\ List(after[k]) /\ Keeps(rs, after[k])
                      /\ \A j \in 1..k : Shows(after[k], links[j])
           S == {k \in Nat : k <= Len(links) => Good(k)}
<1>3. 0 \in S
  <2>1. Good(0)
    BY <1>2 DEF Keeps, OneByOne
  <2>2. QED
    BY <2>1
<1>4. ASSUME NEW k \in S PROVE k + 1 \in S
  <2>1. SUFFICES ASSUME k + 1 <= Len(links) PROVE Good(k + 1)
    OBVIOUS
  <2>2. Good(k) /\ k + 1 \in 1..Len(links)
    BY <1>1, <2>1
  <2>3. after[k + 1] = AppendRow(after[k], links[k + 1], who) /\ links[k + 1] \in AllLinks
    BY <1>1, <1>2, <2>2 DEF OneByOne
  <2>4. /\ List(after[k + 1]) /\ Keeps(after[k], after[k + 1])
        /\ Shows(after[k + 1], links[k + 1])
    BY <2>2, <2>3, AppendRowFacts
  <2>5. Keeps(rs, after[k + 1])
    BY <2>2, <2>4, KeepsFacts
  <2>6. ASSUME NEW j \in 1..(k + 1) PROVE Shows(after[k + 1], links[j])
    <3>1. CASE j = k + 1
      BY <2>4, <3>1
    <3>2. CASE j \in 1..k
      <4>1. Shows(after[k], links[j])
        BY <2>2, <3>2
      <4>2. QED
        BY <2>4, <4>1 DEF Keeps, Shows
    <3>3. QED
      BY <3>1, <3>2
  <2>7. QED
    BY <2>4, <2>5, <2>6
<1>5. S = Nat
  <2> HIDE DEF S
  <2>1. S \in SUBSET Nat
    BY DEF S
  <2>2. QED
    BY <1>3, <1>4, <2>1, SetInduction
<1>6. Good(Len(links))
  BY <1>1, <1>5
<1>7. QED
  BY <1>2, <1>6 DEF OneByOne

-----------------------------------------------------------------------------
\* updateAvailableConnections() keeps the rows, hides no row of another
\* detector, and offers the links of the report.
LEMMA UpdateFacts ==
  ASSUME NEW rs, List(rs), NEW links \in Seq(AllLinks), NEW who \in Detectors,
         NEW t, t = UpdateAvailableConnections(rs, links, who)
  PROVE  /\ List(t) /\ DOMAIN rs \subseteq DOMAIN t
         /\ \A i \in DOMAIN rs :
              /\ t[i].link = rs[i].link /\ t[i].detector = rs[i].detector
              /\ rs[i].available /\ rs[i].detector # who => t[i].available
         /\ \A k \in 1..Len(links) : Shows(t, links[k])
<1> DEFINE hide(i) == [rs[i] EXCEPT !.available = @ /\ rs[i].detector # who]
           hidden  == [i \in DOMAIN rs |-> hide(i)]
<1>1. ASSUME NEW i \in DOMAIN rs
      PROVE  /\ hide(i) \in RowType /\ hide(i).link = rs[i].link
             /\ hide(i).detector = rs[i].detector
             /\ rs[i].available /\ rs[i].detector # who => hide(i).available
  <2>1. rs[i] \in RowType
    BY ListFacts
  <2>2. QED
    BY <2>1 DEF RowType
<1>2. t = AppendRows(hidden, links, who)
  BY DEF UpdateAvailableConnections
<1> HIDE DEF hide
<1>3. hidden \in Seq(RowType) /\ DOMAIN hidden = DOMAIN rs
  BY <1>1, ListFacts
<1>4. List(hidden)
  <2>1. \A i \in DOMAIN hidden : hidden[i].link = rs[i].link
    BY <1>1
  <2>2. QED
    BY <1>3, <2>1 DEF List
<1>5. List(t) /\ Keeps(hidden, t) /\ \A k \in 1..Len(links) : Shows(t, links[k])
  BY <1>2, <1>4, AppendRowsFacts
<1>6. ASSUME NEW i \in DOMAIN rs
      PROVE  /\ i \in DOMAIN t /\ t[i].link = rs[i].link /\ t[i].detector = rs[i].detector
             /\ rs[i].available /\ rs[i].detector # who => t[i].available
  <2>1. hidden[i] = hide(i) /\ i \in DOMAIN hidden
    OBVIOUS
  <2>2. /\ i \in DOMAIN t /\ t[i].link = hidden[i].link /\ t[i].detector = hidden[i].detector
        /\ hidden[i].available => t[i].available
    BY <1>5, <2>1 DEF Keeps
  <2>3. QED
    BY <1>1, <2>1, <2>2
<1>7. QED
  BY <1>5, <1>6

-----------------------------------------------------------------------------
\* The invariant.

LEMMA RowsFacts == Inv <=> TypeOK /\ List(rows)
BY DEF Inv, TypeOK, OneRowPerLink, List, RowType

LEMMA ReportType ==
  ASSUME TypeOK, reports # <<>>
  PROVE  /\ Head(reports) \in Seq(Links) /\ Head(reports) \in Seq(AllLinks)
         /\ Tail(reports) \in Seq(Seq(Links)) /\ Len(Tail(reports)) <= MaxReports
         /\ \A i \in DOMAIN Tail(reports) : Once(Tail(reports)[i])
<1>1. reports \in Seq(Seq(Links)) /\ Len(reports) <= MaxReports /\ Len(reports) \in Nat
  BY LenProperties DEF TypeOK
<1>2. /\ Head(reports) \in Seq(Links) /\ Tail(reports) \in Seq(Seq(Links))
      /\ Len(Tail(reports)) = Len(reports) - 1
      /\ \A i \in 1..Len(Tail(reports)) : Tail(reports)[i] = reports[i + 1]
  BY <1>1, HeadTailProperties
<1>3. Head(reports) \in Seq(AllLinks)
  BY <1>2 DEF AllLinks
<1>4. Len(Tail(reports)) <= MaxReports
  BY <1>1, <1>2, DiscoveryAssumption
<1>5. ASSUME NEW i \in DOMAIN Tail(reports) PROVE Once(Tail(reports)[i])
  <2>1. DOMAIN Tail(reports) = 1..Len(Tail(reports)) /\ DOMAIN reports = 1..Len(reports)
    BY <1>1, <1>2, LenProperties
  <2>2. i + 1 \in DOMAIN reports /\ Tail(reports)[i] = reports[i + 1]
    BY <1>1, <1>2, <2>1
  <2>3. QED
    BY <2>2 DEF TypeOK
<1>6. QED
  BY <1>2, <1>3, <1>4, <1>5

LEMMA InitInvariant == Init => Inv
<1> SUFFICES ASSUME Init PROVE Inv
  OBVIOUS
<1>1. found \in Seq(Links) /\ Once(found) /\ reports \in Seq(Seq(Links)) /\ Len(reports) = 0
  BY DEF Init, Once
<1>2. rows \in Seq(RowType) /\ OneRowPerLink
  BY DEF Init, OneRowPerLink
<1>3. sensor \in [link: AllLinks \cup {NoLink}, open: BOOLEAN]
  BY DEF Init
<1>4. calls \in 0..MaxCalls /\ plugs \in 0..MaxPlugs /\ 0 <= MaxReports
  BY DiscoveryAssumption DEF Init
<1>5. \A i \in DOMAIN reports : Once(reports[i])
  BY DEF Init
<1>6. QED
  BY <1>1, <1>2, <1>3, <1>4, <1>5 DEF Init, Inv, TypeOK, RowType

\* The thread that searches.
LEMMA DetectorInvariant == Inv /\ Detector => Inv'
<1> SUFFICES ASSUME Inv, Detector PROVE Inv'
  OBVIOUS
<1>0. UNCHANGED <<reports, manager, wanted, present, bounds>> /\ TypeOK /\ OneRowPerLink
  BY DEF Detector, Inv
<1>1. OneRowPerLink'
  BY <1>0 DEF OneRowPerLink, manager
<1> SUFFICES TypeOK'
  BY <1>1 DEF Inv
<1> USE DEF manager, bounds
<1>2. CASE BeginScan
  BY <1>0, <1>2 DEF BeginScan, TypeOK
<1>3. CASE \E link \in Links : BeginProbe(link)
  BY <1>0, <1>3 DEF BeginProbe, TypeOK
<1>4. CASE Detect
  <2>1. found' \in Seq(Links) /\ Once(found')
    <3>1. CASE found' = found
      BY <1>0, <3>1 DEF TypeOK
    <3>2. CASE probing \notin Range(found) /\ found' = Append(found, probing)
      <4>1. found \in Seq(Links) /\ probing \in Links
        BY <1>0, <1>4, DiscoveryAssumption DEF Detect, TypeOK
      <4>2. /\ found' \in Seq(Links) /\ Len(found') = Len(found) + 1
            /\ DOMAIN found' = 1..Len(found') /\ DOMAIN found = 1..Len(found)
            /\ Len(found) \in Nat
            /\ \A i \in 1..Len(found) : found'[i] = found[i]
            /\ found'[Len(found) + 1] = probing
        BY <3>2, <4>1, AppendProperties, LenProperties
      <4>3. \A i \in DOMAIN found : found[i] # probing
        BY <3>2 DEF Range
      <4>4. Once(found)
        BY <1>0 DEF TypeOK
      <4>5. QED
        BY <4>2, <4>3, <4>4 DEF Once
    <3>3. QED
      BY <1>4, <3>1, <3>2 DEF Detect
  <2>2. QED
    BY <1>0, <1>4, <2>1 DEF Detect, TypeOK
<1>5. CASE GiveUp
  BY <1>0, <1>5 DEF GiveUp, TypeOK
<1>6. CASE NextRound
  BY <1>0, <1>6 DEF NextRound, TypeOK
<1>7. CASE EndThread
  BY <1>0, <1>7 DEF EndThread, TypeOK, detector
<1>8. QED
  BY <1>2, <1>3, <1>4, <1>5, <1>6, <1>7 DEF Detector

LEMMA ReportInvariant == Inv /\ Report => Inv'
<1> SUFFICES ASSUME Inv, Report PROVE Inv'
  OBVIOUS
<1>1. /\ UNCHANGED <<rows, sensor, wanted, present, calls, plugs, active, todo, probing>>
      /\ found' = <<>> /\ thread' = "resting" /\ Len(reports) < MaxReports
      /\ reports' = Append(reports, found)
  BY DEF Report, EndRound, manager, bounds
<1>2. /\ reports \in Seq(Seq(Links)) /\ found \in Seq(Links) /\ Once(found)
      /\ \A i \in DOMAIN reports : Once(reports[i])
  BY DEF Inv, TypeOK
<1>3. /\ reports' \in Seq(Seq(Links)) /\ Len(reports') = Len(reports) + 1
      /\ DOMAIN reports' = 1..Len(reports') /\ DOMAIN reports = 1..Len(reports)
      /\ Len(reports) \in Nat
      /\ \A i \in 1..Len(reports) : reports'[i] = reports[i]
      /\ reports'[Len(reports) + 1] = found
  BY <1>1, <1>2, AppendProperties, LenProperties
<1>4. Len(reports') <= MaxReports /\ \A i \in DOMAIN reports' : Once(reports'[i])
  BY <1>1, <1>2, <1>3, DiscoveryAssumption
<1>5. found' \in Seq(Links) /\ Once(found')
  BY <1>1 DEF Once
<1>6. TypeOK'
  BY <1>1, <1>3, <1>4, <1>5 DEF TypeOK, Inv
<1>7. QED
  BY <1>1, <1>6 DEF Inv, OneRowPerLink

\* The reports of the detector and of the helper service.
LEMMA DeliverReportInvariant == Inv /\ DeliverReport => Inv'
<1> SUFFICES ASSUME Inv, DeliverReport PROVE Inv'
  OBVIOUS
<1>1. /\ reports # <<>> /\ reports' = Tail(reports)
      /\ rows' = UpdateAvailableConnections(rows, Head(reports), "protocol")
      /\ UNCHANGED <<thread, active, todo, probing, found, sensor, wanted, present, calls, plugs>>
  BY DEF DeliverReport, detector, bounds
<1>2. List(rows')
  BY <1>1, RowsFacts, ReportType, UpdateFacts DEF Detectors
<1>3. TypeOK'
  BY <1>1, <1>2, RowsFacts, ReportType DEF TypeOK, List, RowType
<1>4. QED
  BY <1>2, <1>3 DEF Inv, OneRowPerLink, List

LEMMA DeliverHelperInvariant ==
  Inv /\ (\E link \in Ethernet : DeliverHelper(link)) => Inv'
<1> SUFFICES ASSUME Inv, NEW link \in Ethernet, DeliverHelper(link) PROVE Inv'
  OBVIOUS
<1>1. /\ rows' = UpdateAvailableConnections(rows, <<link>>, "ethernet")
      /\ UNCHANGED <<thread, active, todo, probing, found, reports, sensor, wanted, present,
                     calls, plugs>>
  BY DEF DeliverHelper, detector, bounds
<1>2. <<link>> \in Seq(AllLinks)
  BY DEF AllLinks
<1>3. List(rows')
  BY <1>1, <1>2, RowsFacts, UpdateFacts DEF Detectors
<1>4. TypeOK'
  BY <1>1, <1>3, RowsFacts DEF TypeOK, List, RowType
<1>5. QED
  BY <1>3, <1>4 DEF Inv, OneRowPerLink, List

LEMMA CallType == TypeOK /\ Call => calls' \in 0..MaxCalls /\ plugs' \in 0..MaxPlugs
BY DiscoveryAssumption DEF TypeOK, Call

LEMMA ConnectInvariant ==
  ASSUME Inv, NEW rs, List(rs), NEW link \in AllLinks, ConnectLink(rs, link)
  PROVE  Inv'
<1>1. /\ rows' = rs /\ wanted' = FALSE /\ active' = FALSE
      /\ sensor' = [link |-> link,
                    open |-> link \in Serial => link \in present /\ probing # link]
      /\ UNCHANGED <<thread, todo, probing, found, reports, present>>
  BY DEF ConnectLink
<1>2. calls' \in 0..MaxCalls /\ plugs' \in 0..MaxPlugs
  BY CallType DEF ConnectLink, Inv
<1>3. sensor' \in [link: AllLinks \cup {NoLink}, open: BOOLEAN]
  BY <1>1
<1>4. TypeOK'
  BY <1>1, <1>2, <1>3 DEF TypeOK, Inv, List, RowType
<1>5. QED
  BY <1>1, <1>4 DEF Inv, OneRowPerLink, List

\* What the user does, with the list or without it.
LEMMA UserInvariant == Inv /\ User => Inv'
<1> SUFFICES ASSUME Inv, User PROVE Inv'
  OBVIOUS
<1>1. CASE StartDetecting \/ StopDetecting
  <2>1. calls' \in 0..MaxCalls /\ plugs' \in 0..MaxPlugs
    BY <1>1, CallType DEF StartDetecting, StopDetecting, Inv
  <2>2. /\ UNCHANGED <<todo, probing, found, reports, rows, sensor, present>>
        /\ thread' \in {"starting", thread} /\ active' \in {active, FALSE}
        /\ wanted' \in {TRUE, FALSE}
    BY <1>1 DEF StartDetecting, StopDetecting, detector, manager
  <2>3. TypeOK'
    BY <2>1, <2>2 DEF TypeOK, Inv
  <2>4. QED
    BY <2>2, <2>3 DEF Inv, OneRowPerLink
<1>2. CASE ClearList
  <2>1. calls' \in 0..MaxCalls /\ plugs' \in 0..MaxPlugs
    BY <1>2, CallType DEF ClearList, Inv
  <2>2. /\ rows' = <<>> /\ UNCHANGED <<thread, active, todo, probing, found, reports, sensor,
                                        wanted, present>>
    BY <1>2 DEF ClearList, detector
  <2>3. TypeOK'
    BY <2>1, <2>2 DEF TypeOK, Inv
  <2>4. QED
    BY <2>2, <2>3 DEF Inv, OneRowPerLink
<1>3. CASE \E link \in AllLinks : ConnectRow(link)
  BY <1>3, RowsFacts, ConnectInvariant DEF ConnectRow
<1>4. CASE \E link \in AllLinks : ConnectLinkDirectly(link)
  <2>1. PICK link \in AllLinks : ConnectLinkDirectly(link)
    BY <1>4
  <2>2. List(AppendRow(rows, link, "None"))
    BY RowsFacts, AppendRowFacts DEF Detectors
  <2>3. QED
    BY <2>1, <2>2, ConnectInvariant DEF ConnectLinkDirectly
<1>5. QED
  BY <1>1, <1>2, <1>3, <1>4 DEF User

LEMMA PlugInvariant == Inv /\ (\E link \in Links : Plug(link)) => Inv'
<1> SUFFICES ASSUME Inv, NEW link \in Links, Plug(link) PROVE Inv'
  OBVIOUS
<1>1. /\ UNCHANGED <<thread, active, todo, probing, found, reports, rows, wanted, calls>>
      /\ present' \subseteq Links
  BY DEF Plug, detector, Inv, TypeOK
<1>2. plugs' \in 0..MaxPlugs
  BY DiscoveryAssumption DEF Plug, Inv, TypeOK
<1>3. sensor' \in [link: AllLinks \cup {NoLink}, open: BOOLEAN]
  BY DEF Plug, Inv, TypeOK
<1>4. TypeOK'
  BY <1>1, <1>2, <1>3 DEF TypeOK, Inv
<1>5. QED
  BY <1>1, <1>4 DEF Inv, OneRowPerLink

LEMMA StepInvariant == Inv /\ [Next]_vars => Inv'
<1> SUFFICES ASSUME Inv, [Next]_vars PROVE Inv'
  OBVIOUS
<1>1. CASE UNCHANGED vars
  BY <1>1 DEF vars, detector, manager, bounds, Inv, TypeOK, OneRowPerLink
<1>2. CASE Next
  BY <1>2, DetectorInvariant, ReportInvariant, DeliverReportInvariant,
     DeliverHelperInvariant, UserInvariant, PlugInvariant DEF Next
<1>3. QED
  BY <1>1, <1>2

\* The list of devices never shows a link twice, whichever detector reports
\* it, however often, and however the user connected to it.
THEOREM DiscoveryInvariant == Spec => []Inv
BY InitInvariant, StepInvariant, PTL DEF Spec

-----------------------------------------------------------------------------
\* What a report hides.

\* A row that the sequence shows is the first with its link.
LEMMA ShownRow ==
  ASSUME NEW rs, List(rs), NEW link, Shows(rs, link)
  PROVE  HasRow(rs, link) /\ rs[RowNumber(rs, link)].available
<1>1. PICK i \in DOMAIN rs : rs[i].link = link /\ rs[i].available
  BY DEF Shows
<1>2. RowNumber(rs, link) = i
  BY <1>1, RowNumberFacts
<1>3. QED
  BY <1>1, <1>2 DEF HasRow

\* Where every row stays available nothing is hidden.
LEMMA KeepsHides == Keeps(rows, rows') => HidesItsOwn
BY DEF Keeps, HidesItsOwn

LEMMA DeliverReportHides == Inv /\ DeliverReport => HidesItsOwn
<1> SUFFICES ASSUME Inv, DeliverReport,
                    NEW i \in DOMAIN rows \cap DOMAIN rows',
                    rows[i].available, ~rows'[i].available
             PROVE  ReportHides(rows[i])
  BY DEF HidesItsOwn
<1>1. /\ reports # <<>> /\ reports' = Tail(reports)
      /\ rows' = UpdateAvailableConnections(rows, Head(reports), "protocol")
  BY DEF DeliverReport
<1>2. List(rows) /\ Head(reports) \in Seq(Links) /\ Head(reports) \in Seq(AllLinks)
  BY <1>1, RowsFacts, ReportType
<1>3. /\ List(rows')
      /\ rows'[i].link = rows[i].link /\ rows'[i].detector = rows[i].detector
      /\ rows[i].detector = "protocol"
      /\ \A k \in 1..Len(Head(reports)) : Shows(rows', Head(reports)[k])
  <2>1. "protocol" \in Detectors
    BY DEF Detectors
  <2>2. /\ List(rows')
        /\ \A n \in DOMAIN rows :
             /\ rows'[n].link = rows[n].link
             /\ rows'[n].detector = rows[n].detector
             /\ rows[n].available /\ rows[n].detector # "protocol" => rows'[n].available
        /\ \A k \in 1..Len(Head(reports)) : Shows(rows', Head(reports)[k])
    BY <1>1, <1>2, <2>1, UpdateFacts
  <2>3. QED
    BY <2>2
<1>4. ASSUME rows[i].link \in Range(Head(reports)) PROVE FALSE
  <2>1. PICK k \in 1..Len(Head(reports)) : Head(reports)[k] = rows[i].link
    BY <1>2, <1>4, LenProperties DEF Range
  <2>2. PICK j \in DOMAIN rows' : rows'[j].link = rows[i].link /\ rows'[j].available
    BY <1>3, <2>1 DEF Shows
  <2>3. j = i
    BY <1>3, <2>2 DEF List
  <2>4. QED
    BY <2>2, <2>3
<1>5. QED
  BY <1>1, <1>3, <1>4 DEF ReportHides

\* The same for the report of a single link.
LEMMA UpdateWithOne ==
  ASSUME NEW rs, List(rs), NEW link \in AllLinks, NEW who \in Detectors
  PROVE  LET t == UpdateAvailableConnections(rs, <<link>>, who)
         IN  /\ List(t) /\ Shows(t, link)
             /\ \A i \in DOMAIN rs :
                  /\ t[i].link = rs[i].link /\ t[i].detector = rs[i].detector
                  /\ rs[i].available /\ rs[i].detector # who => t[i].available
<1>1. \E one : one \in Seq(AllLinks) /\ Len(one) = 1 /\ one[1] = link /\ one = <<link>>
  <2>1. <<link>> \in Seq(AllLinks) /\ Len(<<link>>) = 1 /\ <<link>>[1] = link
    OBVIOUS
  <2>2. QED
    BY <2>1, Zenon
<1>2. ASSUME NEW one, one \in Seq(AllLinks), Len(one) = 1, one[1] = link
      PROVE  LET t == UpdateAvailableConnections(rs, one, who)
             IN  /\ List(t) /\ Shows(t, link)
                 /\ \A i \in DOMAIN rs :
                      /\ t[i].link = rs[i].link /\ t[i].detector = rs[i].detector
                      /\ rs[i].available /\ rs[i].detector # who => t[i].available
  <2> DEFINE t == UpdateAvailableConnections(rs, one, who)
  <2>1. /\ List(rs) /\ one \in Seq(AllLinks) /\ who \in Detectors
        /\ t = UpdateAvailableConnections(rs, one, who)
    BY <1>2
  <2> HIDE DEF t
  <2>2. List(t)
    BY <2>1, UpdateFacts, Zenon
  <2>3. 1 \in 1..Len(one)
    BY <1>2
  <2>4. \A k \in 1..Len(one) : Shows(t, one[k])
    BY <2>1, UpdateFacts
  <2>5. Shows(t, link)
    BY <1>2, <2>3, <2>4, Zenon
  <2>6. ASSUME NEW i \in DOMAIN rs
        PROVE  /\ t[i].link = rs[i].link /\ t[i].detector = rs[i].detector
               /\ rs[i].available /\ rs[i].detector # who => t[i].available
    BY <2>1, <2>6, UpdateFacts
  <2>7. QED
    BY <2>2, <2>5, <2>6, Zenon DEF t
<1>3. QED
  BY <1>1, <1>2, Zenon

LEMMA DeliverHelperHides ==
  Inv /\ (\E link \in Ethernet : DeliverHelper(link)) => HidesItsOwn
<1> SUFFICES ASSUME Inv, NEW link \in Ethernet, DeliverHelper(link),
                    NEW i \in DOMAIN rows \cap DOMAIN rows',
                    rows[i].available, ~rows'[i].available
             PROVE  HelperHides(rows[i])
  BY DEF HidesItsOwn
<1>1. /\ List(rows) /\ link \in AllLinks /\ "ethernet" \in Detectors
      /\ rows' = UpdateAvailableConnections(rows, <<link>>, "ethernet")
  BY RowsFacts DEF DeliverHelper, AllLinks, Detectors
<1>2. /\ List(rows') /\ Shows(rows', link)
      /\ \A n \in DOMAIN rows :
           /\ rows'[n].link = rows[n].link
           /\ rows'[n].detector = rows[n].detector
           /\ rows[n].available /\ rows[n].detector # "ethernet" => rows'[n].available
  BY <1>1, UpdateWithOne
<1>3. /\ List(rows') /\ rows'[i].link = rows[i].link
      /\ rows[i].detector = "ethernet"
  BY <1>2
<1>4. Shows(rows', link)
  BY <1>2
<1>5. rows[i].link # link
  <2>1. SUFFICES ASSUME rows[i].link = link PROVE FALSE
    OBVIOUS
  <2>2. PICK j \in DOMAIN rows' : rows'[j].link = link /\ rows'[j].available
    BY <1>4 DEF Shows
  <2>3. j = i
    BY <1>3, <2>1, <2>2 DEF List
  <2>4. QED
    BY <2>2, <2>3
<1>6. HasRow(rows', link) /\ rows'[RowNumber(rows', link)].available
  BY <1>3, <1>4, ShownRow
<1>7. QED
  BY <1>3, <1>5, <1>6 DEF HelperHides

LEMMA UserHides == Inv /\ User => HidesItsOwn
<1> SUFFICES ASSUME Inv, User PROVE HidesItsOwn
  OBVIOUS
<1>1. CASE rows' = rows
  BY <1>1 DEF HidesItsOwn
<1>2. CASE ClearList
  <2>1. DOMAIN rows' = {}
    BY <1>2 DEF ClearList
  <2>2. QED
    BY <2>1 DEF HidesItsOwn
<1>3. CASE \E link \in AllLinks : ConnectLinkDirectly(link)
  <2>1. PICK link \in AllLinks : rows' = AppendRow(rows, link, "None")
    BY <1>3 DEF ConnectLinkDirectly, ConnectLink
  <2>2. Keeps(rows, rows')
    BY <2>1, RowsFacts, AppendRowFacts DEF Detectors
  <2>3. QED
    BY <2>2, KeepsHides
<1>4. QED
  BY <1>1, <1>2, <1>3 DEF User, StartDetecting, StopDetecting, ConnectRow, ConnectLink, manager

\* A device on offer is hidden only by a report without it of the detector
\* that found it: neither the other detector nor the user's own connections
\* hide it.
THEOREM HidingIsOwn == Spec => HiddenOnlyByItsDetector
<1>1. Inv /\ [Next]_vars => [HidesItsOwn]_vars
  <2> SUFFICES ASSUME Inv, Next PROVE HidesItsOwn
    OBVIOUS
  <2>1. CASE rows' = rows
    BY <2>1 DEF HidesItsOwn
  <2>2. CASE DeliverReport
    BY <2>2, DeliverReportHides
  <2>3. CASE \E link \in Ethernet : DeliverHelper(link)
    BY <2>3, DeliverHelperHides
  <2>4. CASE User
    BY <2>4, UserHides
  <2>5. QED
    BY <2>1, <2>2, <2>3, <2>4 DEF Next, Detector, Report, Plug, manager
<1>2. QED
  BY <1>1, DiscoveryInvariant, PTL DEF Spec, HiddenOnlyByItsDetector
=============================================================================
