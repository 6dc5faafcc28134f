------------------------- MODULE Ping360SessionProofs -------------------------
(***************************************************************************)
(* Proofs about Ping360Session, for every link and firmware, any settings  *)
(* and any number of losses, power cycles and restarted detections.        *)
(***************************************************************************)
EXTENDS Ping360Session, SequenceTheorems, FiniteSetTheorems, TLAPS

-----------------------------------------------------------------------------
\* The cable.

LEMMA MessageFacts ==
  /\ Info \in Messages /\ Break \in Messages /\ Message("NACK", 0) \in Messages
  /\ \A s \in Settings : Request(s) \in Messages /\ Profile(s) \in Messages
  /\ \A s \in Settings : Request(s).id = Request(0).id /\ Profile(s).id = Profile(0).id
  /\ \A s \in Settings : Request(s).setting = s /\ Profile(s).setting = s
  /\ Info.id = "DEVICE_INFORMATION" /\ Break.id = "break"
  /\ Request(0).id = IF Async THEN "AUTO_TRANSMIT" ELSE "TRANSDUCER"
  /\ Profile(0).id = IF Async THEN "AUTO_DEVICE_DATA" ELSE "DEVICE_DATA"
  /\ Message("NACK", 0).id = "NACK"
BY SessionAssumption DEF Info, Break, Message, Messages, MessageIds, Request, Profile

LEMMA JoinFacts ==
  ASSUME NEW q \in Seq(Messages), NEW n \in Seq(Messages), n # <<>>
  PROVE  /\ q \o n \in Seq(Messages) /\ q \o n # <<>>
         /\ Len(q \o n) = Len(q) + Len(n)
         /\ Ids(q \o n) \subseteq Ids(q) \cup Ids(n)
         /\ (q \o n)[Len(q \o n)] = n[Len(n)]
<1>1. /\ q \o n \in Seq(Messages) /\ Len(q \o n) = Len(q) + Len(n)
      /\ Len(q) \in Nat /\ Len(n) \in Nat /\ Len(n) > 0
      /\ \A i \in 1..(Len(q) + Len(n)) :
           (q \o n)[i] = IF i <= Len(q) THEN q[i] ELSE n[i - Len(q)]
  BY ConcatProperties
<1>2. (q \o n)[Len(q \o n)] = n[Len(n)] /\ q \o n # <<>>
  BY <1>1
<1>3. ASSUME NEW i \in DOMAIN (q \o n)
      PROVE  (q \o n)[i].id \in Ids(q) \cup Ids(n)
  <2>1. i \in 1..(Len(q) + Len(n)) /\ DOMAIN q = 1..Len(q) /\ DOMAIN n = 1..Len(n)
    BY <1>1
  <2>2. CASE i <= Len(q)
    BY <1>1, <2>1, <2>2 DEF Ids
  <2>3. CASE ~(i <= Len(q))
    <3>1. i - Len(q) \in DOMAIN n /\ (q \o n)[i] = n[i - Len(q)]
      BY <1>1, <2>1, <2>3
    <3>2. QED
      BY <3>1, Zenon DEF Ids
  <2>4. QED
    BY <2>2, <2>3
<1>4. Ids(q \o n) \subseteq Ids(q) \cup Ids(n)
  BY <1>3, Zenon DEF Ids
<1>5. QED
  BY <1>1, <1>2, <1>4

LEMMA PutFacts ==
  ASSUME NEW q \in Seq(Messages), NEW n \in Seq(Messages), n # <<>>
  PROVE  /\ Put(q, n) \in Seq(Messages)
         /\ Ids(Put(q, n)) \subseteq Ids(q) \cup Ids(n)
         /\ ~Serial => Put(q, n) = q \o n
<1>1. PICK all \in Seq(Messages) : all = q \o n /\ Ids(all) \subseteq Ids(q) \cup Ids(n)
  BY JoinFacts, Zenon
<1>2. Put(q, n) = IF ~Serial \/ Len(all) <= MaxCable THEN all ELSE SubSeq(all, 1, MaxCable)
  BY <1>1, Zenon DEF Put
<1>3. ASSUME MaxCable < Len(all)
      PROVE  SubSeq(all, 1, MaxCable) \in Seq(Messages) /\ Ids(SubSeq(all, 1, MaxCable)) \subseteq Ids(all)
  <2>1. MaxCable \in Nat /\ MaxCable >= 1 /\ Len(all) \in Nat /\ DOMAIN all = 1..Len(all)
    BY SessionAssumption
  <2>2. PICK sub : sub = SubSeq(all, 1, MaxCable)
    OBVIOUS
  <2>3. /\ sub \in Seq(Messages) /\ Len(sub) = MaxCable
        /\ \A i \in 1..MaxCable : sub[i] = all[i]
    BY <1>3, <2>1, <2>2, SubSeqProperties
  <2>4. DOMAIN sub = 1..MaxCable /\ \A i \in 1..MaxCable : i \in DOMAIN all
    BY <1>3, <2>1, <2>3
  <2>5. Ids(sub) \subseteq Ids(all)
    BY <2>3, <2>4, Zenon DEF Ids
  <2>6. QED
    BY <2>2, <2>3, <2>5
<1>4. Len(all) \in Nat /\ MaxCable \in Nat
  BY SessionAssumption
<1>5. QED
  BY <1>1, <1>2, <1>3, <1>4

LEMMA TailFacts ==
  ASSUME NEW q \in Seq(Messages), q # <<>>
  PROVE  /\ Tail(q) \in Seq(Messages) /\ Head(q) \in Messages
         /\ Len(q) \in Nat /\ Len(q) >= 1 /\ Len(Tail(q)) = Len(q) - 1
         /\ Head(q).id \in Ids(q) /\ Ids(Tail(q)) \subseteq Ids(q)
         /\ Ids(q) \subseteq Ids(Tail(q)) \cup {Head(q).id}
         /\ Tail(q) = <<>> => q[Len(q)] = Head(q)
         /\ Tail(q) # <<>> => Tail(q)[Len(Tail(q))] = q[Len(q)]
<1>1. /\ Tail(q) \in Seq(Messages) /\ Head(q) \in Messages /\ Head(q) = q[1]
      /\ Len(q) \in Nat /\ Len(q) >= 1 /\ Len(Tail(q)) = Len(q) - 1
      /\ \A i \in 1..(Len(q) - 1) : Tail(q)[i] = q[i + 1]
      /\ DOMAIN q = 1..Len(q) /\ DOMAIN Tail(q) = 1..(Len(q) - 1)
  BY HeadTailProperties
<1>2. Head(q).id \in Ids(q)
  BY <1>1 DEF Ids
<1>3. Ids(Tail(q)) \subseteq Ids(q)
  <2>1. ASSUME NEW i \in DOMAIN Tail(q) PROVE Tail(q)[i].id \in Ids(q)
    <3>1. i + 1 \in DOMAIN q /\ Tail(q)[i] = q[i + 1]
      BY <1>1
    <3>2. QED
      BY <3>1, Zenon DEF Ids
  <2>2. QED
    BY <2>1, Zenon DEF Ids
<1>4. ASSUME NEW i \in DOMAIN q PROVE q[i].id \in Ids(Tail(q)) \cup {Head(q).id}
  <2>1. CASE i = 1
    BY <1>1, <2>1
  <2>2. CASE i # 1
    <3>1. i - 1 \in DOMAIN Tail(q) /\ Tail(q)[i - 1] = q[i]
      BY <1>1, <2>2
    <3>2. QED
      BY <3>1, Zenon DEF Ids
  <2>3. QED
    BY <2>1, <2>2
<1>5. Ids(q) \subseteq Ids(Tail(q)) \cup {Head(q).id}
  BY <1>4, Zenon DEF Ids
<1>6. ASSUME Tail(q) = <<>> PROVE q[Len(q)] = Head(q)
  <2>1. Len(Tail(q)) = 0
    BY <1>6, EmptySeq, Zenon
  <2>2. Len(q) = 1
    <3>1. PICK k \in Nat : k = Len(q) /\ k - 1 = Len(Tail(q))
      BY <1>1, Zenon
    <3>2. k - 1 = 0
      BY <2>1, <3>1, Zenon
    <3>3. k = 1
      BY <3>2
    <3>4. QED
      BY <3>1, <3>3, Zenon
  <2>3. QED
    BY <1>1, <2>2, Zenon
<1>7. Tail(q) # <<>> => Tail(q)[Len(Tail(q))] = q[Len(q)]
  BY <1>1, EmptySeq
<1>8. QED
  BY <1>1, <1>2, <1>3, <1>5, <1>6, <1>7

LEMMA ShortFacts ==
  ASSUME NEW m \in Messages
  PROVE  /\ <<m>> \in Seq(Messages) /\ <<m>> # <<>> /\ Len(<<m>>) = 1
         /\ <<m>>[1] = m /\ Ids(<<m>>) = {m.id}
         /\ <<Break, m>> \in Seq(Messages) /\ <<Break, m>> # <<>> /\ Len(<<Break, m>>) = 2
         /\ <<Break, m>>[1] = Break /\ <<Break, m>>[2] = m
         /\ Ids(<<Break, m>>) = {Break.id, m.id}
         /\ Ids(<<>>) = {} /\ <<>> \in Seq(Messages) /\ Len(<<>>) = 0
<1>1. Break \in Messages
  BY MessageFacts
<1>2. QED
  BY <1>1 DEF Ids

-----------------------------------------------------------------------------
\* How many requests a queue holds.

RequestsAt(q) == {i \in DOMAIN q : q[i].id # Break.id}

LEMMA FewRequests ==
  ASSUME NEW q \in Seq(Messages)
  PROVE  IsFiniteSet(RequestsAt(q)) /\ Requests(q) = Cardinality(RequestsAt(q)) /\ Requests(q) \in Nat
<1>1. DOMAIN q = 1..Len(q) /\ Len(q) \in Int /\ 1 \in Int
  OBVIOUS
<1>2. IsFiniteSet(DOMAIN q)
  BY <1>1, FS_Interval, Zenon
<1>3. RequestsAt(q) \in SUBSET (DOMAIN q)
  BY DEF RequestsAt
<1>4. QED
  BY <1>2, <1>3, FS_Subset, FS_CardinalityType, Zenon DEF Requests, RequestsAt

LEMMA NoRequests == Requests(<<>>) = 0
<1>1. RequestsAt(<<>>) = {}
  BY DEF RequestsAt
<1>2. QED
  BY <1>1, FS_EmptySet, Zenon DEF Requests, RequestsAt

\* What is appended holds one at most.
LEMMA OneMore ==
  ASSUME NEW q \in Seq(Messages), NEW n \in Seq(Messages), n # <<>>,
         \A i \in 1..(Len(n) - 1) : n[i] = Break
  PROVE  Requests(q \o n) <= Requests(q) + 1
<1>1. PICK all \in Seq(Messages) : all = q \o n
  BY JoinFacts, Zenon
<1>2. PICK last \in Nat : last = Len(q) + Len(n)
  BY ConcatProperties
<1>3. /\ Len(q) \in Nat /\ Len(n) \in Nat /\ Len(all) = last /\ DOMAIN q = 1..Len(q)
      /\ DOMAIN all = 1..last
      /\ \A i \in 1..last : all[i] = IF i <= Len(q) THEN q[i] ELSE n[i - Len(q)]
  BY <1>1, <1>2, ConcatProperties
<1>4. ASSUME NEW i \in RequestsAt(all) PROVE i \in RequestsAt(q) \cup {last}
  <2>1. i \in 1..last /\ all[i].id # Break.id
    BY <1>3, <1>4, Zenon DEF RequestsAt
  <2>2. CASE i <= Len(q)
    <3>1. i \in DOMAIN q /\ all[i] = q[i]
      BY <1>3, <2>1, <2>2
    <3>2. QED
      BY <2>1, <3>1, Zenon DEF RequestsAt
  <2>3. CASE ~(i <= Len(q)) /\ i # last
    <3>1. i - Len(q) \in 1..(Len(n) - 1) /\ all[i] = n[i - Len(q)]
      BY <1>2, <1>3, <2>1, <2>3
    <3>2. QED
      BY <2>1, <3>1, Zenon
  <2>4. QED
    BY <2>2, <2>3, Zenon
<1>5. /\ IsFiniteSet(RequestsAt(q) \cup {last})
      /\ \/ Cardinality(RequestsAt(q) \cup {last}) = Requests(q)
         \/ Cardinality(RequestsAt(q) \cup {last}) = Requests(q) + 1
  <2>1. PICK S : S = RequestsAt(q) /\ IsFiniteSet(S) /\ Requests(q) = Cardinality(S)
    BY FewRequests, Zenon
  <2>2. /\ IsFiniteSet(S \cup {last})
        /\ Cardinality(S \cup {last}) = IF last \in S THEN Cardinality(S) ELSE Cardinality(S) + 1
    BY <2>1, FS_AddElement, Zenon
  <2>3. \/ Cardinality(S \cup {last}) = Cardinality(S)
        \/ Cardinality(S \cup {last}) = Cardinality(S) + 1
    BY <2>2, Zenon
  <2>4. QED
    BY <2>1, <2>2, <2>3, Zenon
<1>6. RequestsAt(all) \in SUBSET (RequestsAt(q) \cup {last})
  BY <1>4, Zenon
<1>7. Cardinality(RequestsAt(all)) <= Cardinality(RequestsAt(q) \cup {last})
  BY <1>5, <1>6, FS_Subset, Zenon
<1>8. Requests(q) \in Nat /\ Requests(all) \in Nat /\ Requests(all) = Cardinality(RequestsAt(all))
  BY FewRequests, Zenon
<1>9. Requests(all) <= Requests(q) + 1
  BY <1>5, <1>7, <1>8
<1>10. QED
  BY <1>1, <1>9, Zenon

\* What is taken away held one, or a break.
LEMMA OneLess ==
  ASSUME NEW q \in Seq(Messages), q # <<>>
  PROVE  /\ Requests(Tail(q)) <= Requests(q)
         /\ Head(q).id # Break.id => Requests(Tail(q)) <= Requests(q) - 1
<1>1. PICK t \in Seq(Messages) : t = Tail(q)
  BY TailFacts, Zenon
<1>2. /\ Head(q) = q[1] /\ Len(q) \in Nat /\ Len(q) >= 1
      /\ \A i \in 1..(Len(q) - 1) : t[i] = q[i + 1]
      /\ DOMAIN q = 1..Len(q) /\ DOMAIN t = 1..(Len(q) - 1)
  BY <1>1, HeadTailProperties
<1>3. PICK rest : rest = RequestsAt(q) \ {1}
  OBVIOUS
<1>4. /\ IsFiniteSet(rest)
      /\ Cardinality(rest) = IF 1 \in RequestsAt(q) THEN Requests(q) - 1 ELSE Requests(q)
  BY <1>3, FewRequests, FS_RemoveElement, Zenon
<1>5. PICK f : f = [i \in RequestsAt(t) |-> i + 1]
  OBVIOUS
<1>6. ASSUME NEW i \in RequestsAt(t) PROVE f[i] \in rest
  <2>1. i \in 1..(Len(q) - 1) /\ t[i].id # Break.id
    BY <1>2, <1>6, Zenon DEF RequestsAt
  <2>2. i + 1 \in DOMAIN q /\ i + 1 # 1 /\ q[i + 1] = t[i] /\ f[i] = i + 1
    BY <1>2, <1>5, <2>1
  <2>3. QED
    BY <1>3, <2>1, <2>2, Zenon DEF RequestsAt
<1>7. ASSUME NEW i \in RequestsAt(t), NEW j \in RequestsAt(t), f[i] = f[j] PROVE i = j
  <2>1. i \in 1..(Len(q) - 1) /\ j \in 1..(Len(q) - 1)
    BY <1>2, Zenon DEF RequestsAt
  <2>2. i + 1 = j + 1
    BY <1>5, <1>7
  <2>3. QED
    BY <1>2, <2>1, <2>2
<1>8. f \in Injection(RequestsAt(t), rest)
  BY <1>5, <1>6, <1>7, Zenon DEF Injection, IsInjective
<1>9. Cardinality(RequestsAt(t)) <= Cardinality(rest)
  BY <1>4, <1>8, FS_Injection, Zenon
<1>10. Requests(q) \in Nat /\ Requests(t) \in Nat /\ Requests(t) = Cardinality(RequestsAt(t))
  BY FewRequests, Zenon
<1>11. Head(q).id # Break.id => 1 \in RequestsAt(q)
  <2>1. 1 \in DOMAIN q
    BY <1>2
  <2>2. QED
    BY <1>2, <2>1, Zenon DEF RequestsAt
<1>12. /\ Requests(t) <= Requests(q)
       /\ Head(q).id # Break.id => Requests(t) <= Requests(q) - 1
  BY <1>4, <1>9, <1>10, <1>11
<1>13. QED
  BY <1>1, <1>12, Zenon

-----------------------------------------------------------------------------
\* What is written.

LEMMA WriteFacts ==
  ASSUME toDevice \in Seq(Messages), NEW m \in Messages, NEW left, Write(m, left)
  PROVE  /\ toDevice' \in Seq(Messages) /\ toHost' = left /\ mode' = mode
         /\ Ids(toDevice') \subseteq Ids(toDevice) \cup {m.id}
         /\ ~Serial => /\ toDevice' # <<>> /\ toDevice'[Len(toDevice')].id = m.id
                       /\ Requests(toDevice') <= Requests(toDevice) + 1
<1>1. toDevice' = Put(toDevice, <<m>>) /\ toHost' = left /\ mode' = mode
  BY DEF Write
<1>2. /\ <<m>> \in Seq(Messages) /\ <<m>> # <<>> /\ Ids(<<m>>) = {m.id}
      /\ Len(<<m>>) = 1 /\ <<m>>[1] = m
  BY ShortFacts, Zenon
<1>3. PICK n : n = <<m>>
  OBVIOUS
<1>4. /\ Put(toDevice, n) \in Seq(Messages)
      /\ Ids(Put(toDevice, n)) \subseteq Ids(toDevice) \cup Ids(n)
      /\ ~Serial => Put(toDevice, n) = toDevice \o n
  BY <1>2, <1>3, PutFacts, Zenon
<1>5. /\ toDevice \o n # <<>>
      /\ (toDevice \o n)[Len(toDevice \o n)] = n[Len(n)]
  BY <1>2, <1>3, JoinFacts, Zenon
<1>6. \A i \in 1..(Len(n) - 1) : n[i] = Break
  BY <1>2, <1>3
<1>7. Requests(toDevice \o n) <= Requests(toDevice) + 1
  BY <1>2, <1>3, <1>6, OneMore, Zenon
<1>8. QED
  BY <1>1, <1>2, <1>3, <1>4, <1>5, <1>7, Zenon

LEMMA ResetFacts ==
  ASSUME toDevice \in Seq(Messages), NEW m \in Messages, NEW left \in Seq(Messages),
         ResetAndWrite(m, left)
  PROVE  /\ toDevice' \in Seq(Messages) /\ toHost' \in Seq(Messages)
         /\ Serial => mode' = None /\ toHost' = <<>> /\ Ids(toDevice') = {m.id}
         /\ ~Serial => /\ mode' = mode /\ toHost' = left
                       /\ Ids(toDevice') \subseteq Ids(toDevice) \cup {Break.id, m.id}
                       /\ toDevice' # <<>> /\ toDevice'[Len(toDevice')].id = m.id
                       /\ Requests(toDevice') <= Requests(toDevice) + 1
<1>1. CASE Serial
  <2>1. toDevice' = <<m>> /\ toHost' = <<>> /\ mode' = None
    BY <1>1 DEF ResetAndWrite, ReopenAndWrite
  <2>2. QED
    BY <1>1, <2>1, ShortFacts, Zenon
<1>2. CASE ~Serial
  <2>1. toDevice' = Put(toDevice, <<Break, m>>) /\ toHost' = left /\ mode' = mode
    BY <1>2 DEF ResetAndWrite
  <2>2. PICK n : n = <<Break, m>>
    OBVIOUS
  <2>3. /\ n \in Seq(Messages) /\ n # <<>> /\ Len(n) = 2 /\ n[1] = Break /\ n[2] = m
        /\ Ids(n) = {Break.id, m.id}
    BY <2>2, ShortFacts, Zenon
  <2>4. /\ toDevice' = toDevice \o n /\ toDevice' \in Seq(Messages)
        /\ Ids(toDevice') \subseteq Ids(toDevice) \cup Ids(n)
    BY <1>2, <2>1, <2>2, <2>3, PutFacts, Zenon
  <2>5. /\ toDevice \o n # <<>>
        /\ (toDevice \o n)[Len(toDevice \o n)] = n[Len(n)]
    BY <2>3, JoinFacts, Zenon
  <2>6. Requests(toDevice \o n) <= Requests(toDevice) + 1
    <3>1. \A i \in 1..(Len(n) - 1) : n[i] = Break
      BY <2>3
    <3>2. QED
      BY <2>3, <3>1, OneMore, Zenon
  <2>7. QED
    BY <1>2, <2>1, <2>2, <2>3, <2>4, <2>5, <2>6, Zenon
<1>3. QED
  BY <1>1, <1>2, Zenon

LEMMA RequestFacts ==
  ASSUME toDevice \in Seq(Messages), NEW s \in Settings, NEW left \in Seq(Messages),
         RequestNextProfile(s, left)
  PROVE  /\ toDevice' \in Seq(Messages) /\ toHost' \in Seq(Messages)
         /\ Ids(toDevice') \subseteq Ids(toDevice) \cup {Break.id, Request(0).id}
         /\ Serial => Ids(toDevice') \subseteq Ids(toDevice) \cup {Request(0).id}
         /\ Serial /\ Async => mode' = None /\ toHost' = <<>>
         /\ ~(Serial /\ Async) => mode' = mode /\ toHost' = left
         /\ ~Serial => toDevice' # <<>> /\ toDevice'[Len(toDevice')].id = Request(0).id
         /\ ~Serial => Requests(toDevice') <= Requests(toDevice) + 1
<1>1. Request(s) \in Messages /\ Request(s).id = Request(0).id
  BY MessageFacts, Zenon
<1>2. CASE Async
  <2>1. ResetAndWrite(Request(s), left)
    BY <1>2 DEF RequestNextProfile
  <2>2. QED
    BY <1>1, <1>2, <2>1, ResetFacts, Zenon
<1>3. CASE ~Async
  <2>1. Write(Request(s), left)
    BY <1>3 DEF RequestNextProfile
  <2>2. QED
    BY <1>1, <1>3, <2>1, WriteFacts, Zenon
<1>4. QED
  BY <1>2, <1>3, Zenon

LEMMA CheckFacts ==
  ASSUME toDevice \in Seq(Messages), wanted \in Settings, triggers \in Nat,
         NEW left \in Seq(Messages), NEW isReply, CheckBaudrateProcess(left, isReply),
         configuring \in BOOLEAN
  PROVE  /\ toDevice' \in Seq(Messages) /\ toHost' \in Seq(Messages)
         /\ Ids(toDevice') \subseteq Ids(toDevice) \cup {Info.id}
         /\ \/ mode' = mode /\ toHost' = left
            \/ mode' = None /\ toHost' = <<>>
         /\ wanted' = 0 /\ configuring' \in BOOLEAN
         /\ triggers' \in Nat /\ triggers' >= triggers
<1>1. wanted' = 0
  BY DEF CheckBaudrateProcess
<1>2. configuring' \in BOOLEAN /\ (triggers' = triggers \/ triggers' = triggers + 1)
  BY Zenon DEF CheckBaudrateProcess
<1>3. Write(Info, left) \/ ReopenAndWrite(<<>>)
  BY Zenon DEF CheckBaudrateProcess
<1>4. CASE Write(Info, left)
  BY <1>1, <1>2, <1>4, MessageFacts, WriteFacts
<1>5. CASE ReopenAndWrite(<<>>)
  <2>1. toDevice' = <<>> /\ toHost' = <<>> /\ mode' = None
    BY <1>5 DEF ReopenAndWrite
  <2>2. Ids(<<>>) = {} /\ <<>> \in Seq(Messages)
    BY ShortFacts, MessageFacts, Zenon
  <2>3. QED
    BY <1>1, <1>2, <2>1, <2>2
<1>6. QED
  BY <1>3, <1>4, <1>5

-----------------------------------------------------------------------------
\* What is kept.

Core == FirmwareInv /\ SerialInv /\ UdpInv

\* The setup, the losses and the power cycles are what they were.
LEMMA SameFacts ==
  ASSUME UNCHANGED setup
  PROVE  /\ Serial' = Serial /\ Async' = Async
         /\ Request(0).id' = Request(0).id /\ Profile(0).id' = Profile(0).id
         /\ UNCHANGED <<losses, resets>> => Excused' = Excused
BY DEF Serial, Async, Excused, Request, Profile, Message

\* A profile is asked for and its timer runs.
LEMMA AskedFor ==
  ASSUME TypeOK, Core, NEW s \in Settings, NEW left \in Seq(Messages),
         Ids(left) \subseteq Ids(toHost), RequestNextProfile(s, left),
         profileTimer' = TRUE, ~Serial => ~infoTimer',
         UNCHANGED <<setup, losses, resets>>
  PROVE  Core'
<1>1. /\ toDevice' \in Seq(Messages) /\ toHost' \in Seq(Messages)
      /\ Ids(toDevice') \subseteq Ids(toDevice) \cup {Break.id, Request(0).id}
      /\ Serial => Ids(toDevice') \subseteq Ids(toDevice) \cup {Request(0).id}
      /\ Serial /\ Async => mode' = None /\ toHost' = <<>>
      /\ ~(Serial /\ Async) => mode' = mode /\ toHost' = left
      /\ ~Serial => toDevice' # <<>> /\ toDevice'[Len(toDevice')].id = Request(0).id
  BY RequestFacts, Zenon DEF TypeOK
<1>2. /\ Serial' = Serial /\ Async' = Async /\ Excused' = Excused
      /\ Request(0).id' = Request(0).id /\ Profile(0).id' = Profile(0).id
  BY SameFacts, Zenon
<1>3. Ids(<<>>) = {}
  BY ShortFacts, MessageFacts, Zenon
<1>4. Ids(toHost') \subseteq Ids(toHost)
  BY <1>1, <1>3, Zenon
<1>5. FirmwareInv'
  BY <1>1, <1>2, <1>4 DEF Core, FirmwareInv
<1>6. SerialInv'
  BY <1>1, <1>2, <1>3, <1>4, MessageFacts DEF Core, FirmwareInv, SerialInv
<1>7. UdpInv'
  BY <1>1, <1>2, <1>4, MessageFacts DEF Core, FirmwareInv, UdpInv, WillCome
<1>8. QED
  BY <1>5, <1>6, <1>7 DEF Core

\* The device information is asked for, or the port is reopened, while its
\* timer runs.
LEMMA InfoAskedFor ==
  ASSUME TypeOK, Core, Serial, NEW left \in Seq(Messages), NEW isReply,
         Ids(left) \subseteq Ids(toHost), CheckBaudrateProcess(left, isReply),
         infoTimer' = TRUE, UNCHANGED <<setup, losses, resets>>
  PROVE  Core' /\ LoopsOverUdp'
<1>1. /\ Ids(toDevice') \subseteq Ids(toDevice) \cup {Info.id}
      /\ \/ mode' = mode /\ toHost' = left
         \/ mode' = None /\ toHost' = <<>>
  BY CheckFacts, Zenon DEF TypeOK
<1>2. /\ Serial' = Serial /\ Async' = Async /\ Excused' = Excused
      /\ Request(0).id' = Request(0).id /\ Profile(0).id' = Profile(0).id
  BY SameFacts, Zenon
<1>3. Ids(<<>>) = {}
  BY ShortFacts, MessageFacts, Zenon
<1>4. Ids(toHost') \subseteq Ids(toHost)
  BY <1>1, <1>3, Zenon
<1>5. FirmwareInv'
  BY <1>1, <1>2, <1>4 DEF Core, FirmwareInv
<1>6. SerialInv'
  BY <1>1, <1>2, <1>3, <1>4, MessageFacts DEF Core, SerialInv
<1>7. UdpInv' /\ LoopsOverUdp'
  BY <1>2 DEF UdpInv, LoopsOverUdp
<1>8. QED
  BY <1>5, <1>6, <1>7 DEF Core

\* A request takes the place of what was received.
LEMMA ReplacedBy ==
  ASSUME TypeOK, LoopsOverUdp, toHost # <<>>, NEW s \in Settings,
         RequestNextProfile(s, Tail(toHost)), UNCHANGED <<setup, early>>
  PROVE  LoopsOverUdp'
<1>1. Serial' = Serial /\ Async' = Async
  BY SameFacts, Zenon
<1>2. ASSUME ~Serial, ~Async PROVE Requests(toDevice') + Len(toHost') <= early' + 1
  <2>1. /\ Tail(toHost) \in Seq(Messages) /\ Len(toHost) \in Nat
        /\ Len(Tail(toHost)) = Len(toHost) - 1
    BY TailFacts, Zenon DEF TypeOK
  <2>2. /\ toHost' = Tail(toHost) /\ Requests(toDevice') <= Requests(toDevice) + 1
        /\ toDevice' \in Seq(Messages)
    BY <1>2, <2>1, RequestFacts, Zenon DEF TypeOK
  <2>3. /\ Requests(toDevice) \in Nat /\ Requests(toDevice') \in Nat
        /\ early' = early /\ early \in Nat
        /\ Requests(toDevice) + Len(toHost) <= early + 1
    <3>1. Requests(toDevice) \in Nat /\ Requests(toDevice') \in Nat
      BY <2>2, FewRequests, Zenon DEF TypeOK
    <3>2. early' = early /\ early \in Nat
      BY DEF TypeOK
    <3>3. QED
      BY <1>2, <3>1, <3>2, Zenon DEF LoopsOverUdp
  <2>4. Len(toHost') = Len(toHost) - 1
    BY <2>1, <2>2, Zenon
  <2>5. QED
    BY <2>1, <2>2, <2>3, <2>4
<1>3. QED
  BY <1>1, <1>2, Zenon DEF LoopsOverUdp

IInv == TypeOK /\ Unconnected /\ Core /\ LoopsOverUdp

LEMMA Start == Init => IInv
<1> SUFFICES ASSUME Init PROVE IInv
  OBVIOUS
<1>1. /\ setup \in Setups /\ configuring = TRUE /\ ~infoTimer /\ ~profileTimer
      /\ infoTimer = FALSE /\ profileTimer = FALSE
      /\ wanted = 0 /\ waitRetry = 1 /\ triggers = 0
      /\ toDevice = <<>> /\ toHost = <<>> /\ mode = None /\ shown = None
      /\ changes = 0 /\ losses = 0 /\ resets = 0 /\ early = 0
  BY DEF Init
<1>2. /\ 0 \in Settings /\ 1 \in 1..MaxRetry /\ 0 \in 0..MaxChanges
      /\ 0 \in 0..MaxLosses /\ 0 \in 0..MaxResets /\ 0 \in 0..MaxEarly /\ 0 \in Nat
      /\ <<>> \in Seq(Messages) /\ Ids(<<>>) = {} /\ 0 + Len(<<>>) <= 0 + 1 /\ ~(0 > 0)
  <2>1. Ids(<<>>) = {} /\ <<>> \in Seq(Messages)
    BY ShortFacts, MessageFacts, Zenon
  <2>2. Len(<<>>) = 0
    BY EmptySeq
  <2>3. QED
    BY <2>1, <2>2, SessionAssumption
<1>3. TypeOK
  BY <1>1, <1>2, Zenon DEF TypeOK
<1>4. Unconnected /\ LoopsOverUdp
  BY <1>1, <1>2, NoRequests, Zenon DEF Unconnected, LoopsOverUdp
<1>5. Core
  BY <1>1, <1>2 DEF Core, FirmwareInv, SerialInv, UdpInv
<1>6. QED
  BY <1>3, <1>4, <1>5 DEF IInv

\* What arrived is taken off the cable.
LEMMA ReceivedFacts ==
  ASSUME IInv, NEW id, Received(id)
  PROVE  /\ TypeOK /\ Core /\ LoopsOverUdp /\ triggers > 0 /\ triggers \in Nat
         /\ toHost # <<>> /\ toHost \in Seq(Messages)
         /\ Tail(toHost) \in Seq(Messages) /\ Ids(Tail(toHost)) \subseteq Ids(toHost)
         /\ Ids(toHost) \subseteq Ids(Tail(toHost)) \cup {id} /\ id \in Ids(toHost)
         /\ Head(toHost).setting \in Settings
         /\ 0 \in Settings
<1>1. /\ TypeOK /\ Core /\ LoopsOverUdp /\ Unconnected /\ toHost # <<>> /\ Head(toHost).id = id
      /\ toHost \in Seq(Messages) /\ triggers \in Nat
  BY Zenon DEF IInv, TypeOK, Received
<1>2. triggers # 0
  BY <1>1, Zenon DEF Unconnected
<1>3. /\ Tail(toHost) \in Seq(Messages) /\ Ids(Tail(toHost)) \subseteq Ids(toHost)
      /\ Ids(toHost) \subseteq Ids(Tail(toHost)) \cup {id} /\ id \in Ids(toHost)
      /\ Head(toHost) \in Messages
  BY <1>1, TailFacts, Zenon
<1>4. Head(toHost).setting \in Settings
  BY <1>3 DEF Messages
<1>5. triggers > 0
  BY <1>1, <1>2
<1>6. 0 \in Settings
  BY SessionAssumption
<1>7. QED
  BY <1>1, <1>3, <1>4, <1>5, <1>6, Zenon

\* Every answer to a message that asks for a profile.
LEMMA HandleAsks ==
  ASSUME IInv, NEW id, Received(id), NEW s \in Settings,
         RequestNextProfile(s, Tail(toHost)), profileTimer' = TRUE,
         infoTimer' \in BOOLEAN, ~Serial => ~infoTimer',
         wanted' \in Settings, waitRetry' \in 1..MaxRetry,
         shown' \in Settings \cup {None},
         UNCHANGED <<setup, configuring, triggers, bounds>>
  PROVE  IInv'
<1>1. /\ TypeOK /\ Core /\ LoopsOverUdp /\ triggers > 0 /\ triggers \in Nat
      /\ toHost # <<>> /\ Tail(toHost) \in Seq(Messages) /\ Ids(Tail(toHost)) \subseteq Ids(toHost)
  BY ReceivedFacts, Zenon
<1>2. UNCHANGED <<changes, losses, resets, early>> /\ setup' = setup /\ triggers' = triggers
      /\ configuring' = configuring
  BY DEF bounds
<1>3. Core'
  BY <1>1, <1>2, AskedFor
<1>4. LoopsOverUdp'
  BY <1>1, <1>2, ReplacedBy
<1>5. /\ toDevice' \in Seq(Messages) /\ toHost' \in Seq(Messages)
      /\ mode' = mode \/ mode' = None
  BY <1>1, RequestFacts, Zenon DEF TypeOK
<1>6. TypeOK'
  BY <1>1, <1>2, <1>5, Zenon DEF TypeOK
<1>7. Unconnected'
  BY <1>1, <1>2 DEF Unconnected
<1>8. QED
  BY <1>3, <1>4, <1>6, <1>7 DEF IInv

-----------------------------------------------------------------------------
\* The steps of the viewer.

LEMMA HandleStep == ASSUME IInv, Handle PROVE IInv'
<1>0. /\ TypeOK /\ Core
      /\ ~Serial => ~infoTimer
  BY DEF IInv, Core, UdpInv
<1>1. CASE HandleDeviceInformation
  <2>1. Received("DEVICE_INFORMATION") /\ UNCHANGED <<setup, waitRetry, shown, bounds>>
    BY <1>1 DEF HandleDeviceInformation
  <2>2. /\ triggers > 0 /\ triggers \in Nat /\ Tail(toHost) \in Seq(Messages)
        /\ Ids(Tail(toHost)) \subseteq Ids(toHost) /\ 0 \in Settings
    BY <2>1, ReceivedFacts, Zenon
  <2>3. CASE configuring /\ Serial
    <3>1. /\ infoTimer' = TRUE /\ CheckBaudrateProcess(Tail(toHost), TRUE)
          /\ profileTimer' = profileTimer
      BY <1>1, <2>3, Zenon DEF HandleDeviceInformation
    <3>2. UNCHANGED <<setup, waitRetry, shown, changes, losses, resets, early>>
      BY <2>1 DEF bounds
    <3>3. Core' /\ LoopsOverUdp'
      BY <1>0, <2>2, <2>3, <3>1, <3>2, InfoAskedFor
    <3>4. /\ toDevice' \in Seq(Messages) /\ toHost' \in Seq(Messages)
          /\ mode' = mode \/ mode' = None
          /\ wanted' = 0 /\ configuring' \in BOOLEAN
          /\ triggers' \in Nat /\ triggers' >= triggers
      BY <1>0, <2>2, <3>1, CheckFacts, Zenon DEF TypeOK
    <3>5. TRUE \in BOOLEAN
      OBVIOUS
    <3>6. TypeOK'
      BY <1>0, <2>2, <3>1, <3>2, <3>4, <3>5, Zenon DEF TypeOK
    <3>7. triggers' # 0
      BY <2>2, <3>4
    <3>8. QED
      BY <3>3, <3>6, <3>7, Zenon DEF IInv, Unconnected
  <2>4. CASE ~(configuring /\ Serial)
    <3>1. /\ infoTimer' = FALSE /\ profileTimer' = TRUE
          /\ RequestNextProfile(wanted, Tail(toHost))
          /\ UNCHANGED <<configuring, wanted, triggers>>
      BY <1>1, <2>4, Zenon DEF HandleDeviceInformation
    <3>2. /\ infoTimer' \in BOOLEAN /\ ~infoTimer' /\ wanted \in Settings /\ wanted' \in Settings
          /\ waitRetry' \in 1..MaxRetry /\ shown' \in Settings \cup {None}
          /\ UNCHANGED <<setup, configuring, triggers, bounds>>
      BY <1>0, <2>1, <3>1 DEF TypeOK
    <3>3. QED
      BY <2>1, <3>1, <3>2, HandleAsks, Zenon
  <2>5. QED
    BY <2>3, <2>4
<1>2. CASE HandleDeviceData
  <2>1. /\ Received("DEVICE_DATA") /\ shown' = Head(toHost).setting
        /\ RequestNextProfile(wanted, Tail(toHost)) /\ profileTimer' = TRUE
        /\ UNCHANGED <<setup, configuring, infoTimer, wanted, waitRetry, triggers, bounds>>
    BY <1>2 DEF HandleDeviceData
  <2>2. Head(toHost).setting \in Settings
    BY <2>1, ReceivedFacts, Zenon
  <2>3. /\ infoTimer' \in BOOLEAN /\ (~Serial => ~infoTimer') /\ wanted \in Settings
        /\ wanted' \in Settings /\ waitRetry' \in 1..MaxRetry
        /\ shown' \in Settings \cup {None}
        /\ UNCHANGED <<setup, configuring, triggers, bounds>>
    BY <1>0, <2>1, <2>2 DEF TypeOK
  <2>4. QED
    BY <2>1, <2>3, HandleAsks, Zenon
<1>3. CASE HandleNack
  <2>1. /\ Received("NACK") /\ wanted' = 0
        /\ RequestNextProfile(0, Tail(toHost)) /\ profileTimer' = TRUE
        /\ UNCHANGED <<setup, configuring, infoTimer, waitRetry, triggers, shown, bounds>>
    BY <1>3 DEF HandleNack
  <2>2. 0 \in Settings
    BY SessionAssumption
  <2>3. /\ infoTimer' \in BOOLEAN /\ (~Serial => ~infoTimer')
        /\ wanted' \in Settings /\ waitRetry' \in 1..MaxRetry
        /\ shown' \in Settings \cup {None}
        /\ UNCHANGED <<setup, configuring, triggers, bounds>>
    BY <1>0, <2>1, <2>2 DEF TypeOK
  <2>4. QED
    BY <2>1, <2>2, <2>3, HandleAsks, Zenon
<1>4. CASE HandleAutoDeviceData
  <2>1. /\ Received("AUTO_DEVICE_DATA") /\ shown' = Head(toHost).setting
        /\ UNCHANGED <<setup, configuring, infoTimer, wanted, triggers, bounds>>
    BY <1>4 DEF HandleAutoDeviceData
  <2>2. /\ triggers > 0 /\ triggers \in Nat /\ Tail(toHost) \in Seq(Messages)
        /\ Ids(Tail(toHost)) \subseteq Ids(toHost)
        /\ Ids(toHost) \subseteq Ids(Tail(toHost)) \cup {"AUTO_DEVICE_DATA"}
        /\ "AUTO_DEVICE_DATA" \in Ids(toHost)
        /\ Head(toHost).setting \in Settings
    BY <2>1, ReceivedFacts, Zenon
  <2>3. waitRetry \in 1..MaxRetry /\ 1 \in 1..MaxRetry /\ MaxRetry \in 1..MaxRetry
    BY <1>0, SessionAssumption DEF TypeOK
  <2>4. CASE /\ waitRetry' \in 1..MaxRetry /\ profileTimer' = FALSE
             /\ toHost' = Tail(toHost) /\ UNCHANGED <<toDevice, mode>>
    <3>1. UNCHANGED <<setup, configuring, infoTimer, wanted, triggers, changes, losses, resets, early>>
      BY <2>1 DEF bounds
    <3>2. /\ Serial' = Serial /\ Async' = Async /\ Excused' = Excused
          /\ Request(0).id' = Request(0).id /\ Profile(0).id' = Profile(0).id
      BY <3>1, SameFacts, Zenon
    <3>3. FALSE \in BOOLEAN /\ shown' \in Settings \cup {None}
      BY <2>1, <2>2
    <3>4. TypeOK'
      BY <1>0, <2>2, <2>4, <3>1, <3>3, Zenon DEF TypeOK
    <3>5. FirmwareInv'
      BY <1>0, <2>2, <2>4, <3>2 DEF Core, FirmwareInv
    <3>6. SerialInv'
      BY <1>0, <2>2, <2>4, <3>2 DEF Core, SerialInv
    <3>7. UdpInv'
      BY <1>0, <2>2, <2>4, <3>1, <3>2, MessageFacts DEF Core, UdpInv, WillCome
    <3>8. Async
      BY <1>0, <2>2, MessageFacts DEF Core, FirmwareInv
    <3>9. LoopsOverUdp' /\ Unconnected'
      BY <2>2, <3>1, <3>2, <3>8 DEF LoopsOverUdp, Unconnected
    <3>10. QED
      BY <3>4, <3>5, <3>6, <3>7, <3>9 DEF IInv, Core
  <2>5. CASE /\ waitRetry' = MaxRetry /\ profileTimer' = TRUE
             /\ RequestNextProfile(wanted, Tail(toHost))
    <3>1. /\ infoTimer' \in BOOLEAN /\ (~Serial => ~infoTimer')
          /\ wanted \in Settings /\ wanted' \in Settings /\ waitRetry' \in 1..MaxRetry
          /\ shown' \in Settings \cup {None}
          /\ UNCHANGED <<setup, configuring, triggers, bounds>>
      BY <1>0, <2>1, <2>2, <2>3, <2>5 DEF TypeOK
    <3>2. QED
      BY <2>1, <2>5, <3>1, HandleAsks, Zenon
  <2>6. waitRetry > 1 => waitRetry - 1 \in 1..MaxRetry
    BY <2>3
  <2>7. \/ /\ waitRetry' \in 1..MaxRetry /\ profileTimer' = FALSE
           /\ toHost' = Tail(toHost) /\ UNCHANGED <<toDevice, mode>>
        \/ /\ waitRetry' = MaxRetry /\ profileTimer' = TRUE
           /\ RequestNextProfile(wanted, Tail(toHost))
    BY <1>4, <2>3, <2>6, Zenon DEF HandleAutoDeviceData
  <2>8. QED
    BY <2>4, <2>5, <2>7
<1>5. QED
  BY <1>1, <1>2, <1>3, <1>4 DEF Handle

LEMMA ConnectStep == ASSUME IInv, Connect PROVE IInv'
<1>0. /\ TypeOK /\ Core /\ toDevice = <<>> /\ toHost = <<>> /\ mode = None
      /\ ~infoTimer /\ ~profileTimer
  BY DEF IInv, Connect, Unconnected
<1>1. /\ triggers' = 1 /\ wanted' = 0 /\ 1 \in Nat /\ 1 # 0 /\ 1 > 0 /\ 0 \in Settings
      /\ UNCHANGED <<setup, profileTimer, waitRetry, shown, changes, losses, resets, early>>
  BY SessionAssumption DEF Connect, bounds
<1>2. /\ Serial' = Serial /\ Async' = Async /\ Excused' = Excused
      /\ Request(0).id' = Request(0).id /\ Profile(0).id' = Profile(0).id
  BY <1>1, SameFacts, Zenon
<1>3. Ids(<<>>) = {} /\ <<>> \in Seq(Messages) /\ Len(<<>>) = 0
  BY ShortFacts, MessageFacts, Zenon
<1>4. CASE Serial
  <2>1. /\ toDevice' = <<>> /\ toHost' = <<>> /\ mode' = None
        /\ infoTimer' = TRUE /\ configuring' = configuring
    BY <1>4 DEF Connect, ReopenAndWrite
  <2>2. TRUE \in BOOLEAN /\ mode = mode'
    BY <1>0, <2>1
  <2>3. TypeOK'
    BY <1>0, <1>1, <1>3, <2>1, <2>2, Zenon DEF TypeOK
  <2>4. Core'
    BY <1>2, <1>3, <1>4, <2>1 DEF Core, FirmwareInv, SerialInv, UdpInv
  <2>5. LoopsOverUdp' /\ Unconnected'
    BY <1>1, <1>2, <1>4, <2>1 DEF LoopsOverUdp, Unconnected
  <2>6. QED
    BY <2>3, <2>4, <2>5 DEF IInv
<1>5. CASE ~Serial
  <2>1. Write(Info, toHost) /\ configuring' = FALSE /\ infoTimer' = infoTimer
    BY <1>5 DEF Connect
  <2>2. Info \in Messages
    BY MessageFacts, Zenon
  <2>3. /\ toDevice' \in Seq(Messages) /\ toHost' = <<>> /\ mode' = mode
        /\ Ids(toDevice') \subseteq Ids(toDevice) \cup {Info.id}
        /\ toDevice' # <<>> /\ toDevice'[Len(toDevice')].id = Info.id
        /\ Requests(toDevice') <= Requests(<<>>) + 1 /\ Requests(toDevice') \in Nat
    BY <1>0, <1>5, <2>1, <2>2, WriteFacts, FewRequests, Zenon DEF TypeOK
  <2>4. FALSE \in BOOLEAN /\ Requests(toDevice') + Len(<<>>) <= early + 1
    BY <1>0, <1>3, <2>3, NoRequests DEF TypeOK
  <2>5. TypeOK'
    BY <1>0, <1>1, <1>3, <2>1, <2>3, <2>4, Zenon DEF TypeOK
  <2>6. FirmwareInv' /\ SerialInv'
    BY <1>0, <1>2, <1>3, <1>5, <2>3 DEF Core, FirmwareInv, SerialInv
  <2>7. UdpInv'
    BY <1>0, <1>2, <2>1, <2>3, MessageFacts DEF UdpInv, WillCome
  <2>8. LoopsOverUdp' /\ Unconnected'
    BY <1>1, <2>3, <2>4, Zenon DEF LoopsOverUdp, Unconnected
  <2>9. QED
    BY <2>5, <2>6, <2>7, <2>8 DEF IInv, Core
<1>6. QED
  BY <1>4, <1>5

LEMMA StartConfigurationStep == ASSUME IInv, StartConfiguration PROVE IInv'
<1>0. /\ TypeOK /\ Serial
      /\ changes' = changes + 1 /\ changes < MaxChanges /\ configuring' = TRUE /\ triggers' = 1
      /\ wanted' = 0 /\ infoTimer' = TRUE /\ profileTimer' = FALSE
      /\ toDevice' = <<>> /\ toHost' = <<>> /\ mode' = None
      /\ UNCHANGED <<setup, waitRetry, shown, losses, resets, early>>
  BY DEF IInv, StartConfiguration, ReopenAndWrite
<1>1. /\ 1 \in Nat /\ 1 # 0 /\ 0 \in Settings /\ TRUE \in BOOLEAN /\ FALSE \in BOOLEAN
      /\ None \in Settings \cup {None}
  BY SessionAssumption
<1>2. changes' \in 0..MaxChanges
  BY <1>0, SessionAssumption DEF TypeOK
<1>3. Ids(<<>>) = {} /\ <<>> \in Seq(Messages)
  BY ShortFacts, MessageFacts, Zenon
<1>4. Serial' = Serial
  BY <1>0, SameFacts, Zenon
<1>5. TypeOK'
  BY <1>0, <1>1, <1>2, <1>3, Zenon DEF TypeOK
<1>6. Core'
  BY <1>0, <1>3, <1>4 DEF Core, FirmwareInv, SerialInv, UdpInv
<1>7. LoopsOverUdp' /\ Unconnected'
  BY <1>0, <1>1, <1>4, Zenon DEF LoopsOverUdp, Unconnected
<1>8. QED
  BY <1>5, <1>6, <1>7 DEF IInv

LEMMA SetSettingsStep == ASSUME IInv, NEW s \in Settings, SetSettings(s) PROVE IInv'
<1>0. /\ TypeOK /\ changes' = changes + 1 /\ changes < MaxChanges /\ wanted' = s
      /\ UNCHANGED <<setup, configuring, infoTimer, profileTimer, waitRetry,
                     triggers, shown, toDevice, toHost, mode, losses, resets, early>>
  BY DEF IInv, SetSettings, cable
<1>1. changes' \in 0..MaxChanges
  BY <1>0, SessionAssumption DEF TypeOK
<1>2. TypeOK'
  BY <1>0, <1>1, Zenon DEF TypeOK
<1>3. /\ Serial' = Serial /\ Async' = Async /\ Excused' = Excused
      /\ Request(0).id' = Request(0).id /\ Profile(0).id' = Profile(0).id
  BY <1>0, SameFacts, Zenon
<1>4. Core'
  BY <1>0, <1>3 DEF IInv, Core, FirmwareInv, SerialInv, UdpInv, WillCome
<1>5. LoopsOverUdp' /\ Unconnected'
  BY <1>0, <1>3 DEF IInv, LoopsOverUdp, Unconnected
<1>6. QED
  BY <1>2, <1>4, <1>5 DEF IInv

LEMMA InfoTimeoutStep == ASSUME IInv, InfoTimeout PROVE IInv'
<1>0. /\ TypeOK /\ Core /\ Unconnected /\ infoTimer
      /\ CheckBaudrateProcess(toHost, FALSE)
      /\ UNCHANGED <<setup, infoTimer, profileTimer, waitRetry, shown, changes, losses, resets, early>>
  BY DEF IInv, InfoTimeout, bounds
<1>1. Serial /\ triggers # 0 /\ toHost \in Seq(Messages) /\ Ids(toHost) \subseteq Ids(toHost)
      /\ infoTimer' = TRUE
  BY <1>0 DEF Core, UdpInv, Unconnected, TypeOK
<1>2. Core' /\ LoopsOverUdp'
  BY <1>0, <1>1, InfoAskedFor
<1>3. /\ toDevice' \in Seq(Messages) /\ toHost' \in Seq(Messages)
      /\ mode' = mode \/ mode' = None
      /\ wanted' = 0 /\ configuring' \in BOOLEAN
      /\ triggers' \in Nat /\ triggers' >= triggers
  BY <1>0, <1>1, CheckFacts, Zenon DEF TypeOK
<1>4. 0 \in Settings /\ triggers' # 0
  BY <1>0, <1>1, <1>3, SessionAssumption DEF TypeOK
<1>5. TypeOK'
  BY <1>0, <1>3, <1>4, Zenon DEF TypeOK
<1>6. QED
  BY <1>2, <1>4, <1>5, Zenon DEF IInv, Unconnected

LEMMA ProfileTimeoutStep == ASSUME IInv, ProfileTimeout PROVE IInv'
<1>0. /\ TypeOK /\ Core /\ Unconnected /\ LoopsOverUdp /\ profileTimer
      /\ \/ Serial /\ early' = early
         \/ toDevice = <<>> /\ toHost = <<>> /\ early' = early
         \/ ~Serial /\ early < MaxEarly /\ early' = early + 1
      /\ ResetAndWrite(Request(wanted), toHost)
      /\ UNCHANGED <<setup, configuring, infoTimer, profileTimer, wanted, waitRetry,
                     triggers, shown, changes, losses, resets>>
  BY DEF IInv, ProfileTimeout, Quiet, host
<1>1. wanted \in Settings /\ toHost \in Seq(Messages) /\ toDevice \in Seq(Messages)
  BY <1>0, Zenon DEF TypeOK
<1>2. Request(wanted) \in Messages /\ Request(wanted).id = Request(0).id
  BY <1>1, MessageFacts, Zenon
<1>3. /\ toDevice' \in Seq(Messages) /\ toHost' \in Seq(Messages)
      /\ Serial => mode' = None /\ toHost' = <<>> /\ Ids(toDevice') = {Request(0).id}
      /\ ~Serial => /\ mode' = mode /\ toHost' = toHost
                    /\ Ids(toDevice') \subseteq Ids(toDevice) \cup {Break.id, Request(0).id}
                    /\ toDevice' # <<>> /\ toDevice'[Len(toDevice')].id = Request(0).id
                    /\ Requests(toDevice') <= Requests(toDevice) + 1
  BY <1>0, <1>1, <1>2, ResetFacts, Zenon
<1>4. /\ Serial' = Serial /\ Async' = Async /\ Excused' = Excused
      /\ Request(0).id' = Request(0).id /\ Profile(0).id' = Profile(0).id
  BY <1>0, SameFacts, Zenon
<1>5. Ids(<<>>) = {}
  BY ShortFacts, MessageFacts, Zenon
<1>6. mode' = mode \/ mode' = None
  BY <1>3, Zenon
<1>7. TypeOK'
  <2>1. early' \in 0..MaxEarly
    BY <1>0, SessionAssumption DEF TypeOK
  <2>2. QED
    BY <1>0, <1>3, <1>6, <2>1, Zenon DEF TypeOK
<1>8. FirmwareInv'
  BY <1>0, <1>3, <1>4, <1>5 DEF Core, FirmwareInv
<1>9. SerialInv'
  BY <1>0, <1>3, <1>4, <1>5, MessageFacts DEF Core, SerialInv
<1>10. UdpInv'
  BY <1>0, <1>3, <1>4, <1>5, MessageFacts DEF Core, FirmwareInv, UdpInv, WillCome
<1>11. LoopsOverUdp'
  <2>1. ASSUME ~Serial, ~Async PROVE Requests(toDevice') + Len(toHost') <= early' + 1
    <3>1. PICK h \in Seq(Messages) : h = toHost /\ h = toHost'
      BY <1>1, <1>3, <2>1, Zenon
    <3>2. /\ Requests(toDevice) \in Nat /\ Requests(toDevice') \in Nat
          /\ Requests(toDevice') <= Requests(toDevice) + 1
          /\ Requests(toDevice) + Len(h) <= early + 1
      BY <1>0, <1>1, <1>3, <2>1, <3>1, FewRequests, Zenon DEF LoopsOverUdp
    <3>3. early \in Nat /\ Len(h) \in Nat
      BY <1>0 DEF TypeOK
    <3>4. CASE toDevice = <<>> /\ toHost = <<>> /\ early' = early
      <4>1. Requests(toDevice) = 0 /\ Len(h) = 0
        BY <3>1, <3>4, NoRequests, EmptySeq, Zenon
      <4>2. Requests(toDevice') + Len(h) <= early' + 1
        BY <3>2, <3>3, <3>4, <4>1
      <4>3. QED
        BY <3>1, <4>2, Zenon
    <3>5. CASE early' = early + 1
      <4>1. Requests(toDevice') + Len(h) <= early' + 1
        BY <3>2, <3>3, <3>5
      <4>2. QED
        BY <3>1, <4>1, Zenon
    <3>6. QED
      BY <1>0, <2>1, <3>4, <3>5, Zenon
  <2>2. QED
    BY <1>4, <2>1, Zenon DEF LoopsOverUdp
<1>12. Unconnected'
  BY <1>0 DEF Unconnected
<1>13. QED
  BY <1>7, <1>8, <1>9, <1>10, <1>11, <1>12 DEF IInv, Core

-----------------------------------------------------------------------------
\* The steps of the device and of the cable.

LEMMA StreamStep == ASSUME IInv, Stream PROVE IInv'
<1>0. /\ TypeOK /\ Core /\ Unconnected /\ mode # None
      /\ toHost' = Append(toHost, Profile(mode))
      /\ UNCHANGED <<setup, toDevice, mode, configuring, infoTimer, profileTimer, wanted,
                     waitRetry, triggers, shown, changes, losses, resets, early>>
  BY DEF IInv, Stream, bounds, host
<1>1. mode \in Settings /\ Async
  BY <1>0 DEF TypeOK, Core, FirmwareInv
<1>2. Profile(mode) \in Messages /\ Profile(mode).id = Profile(0).id
  BY <1>1, MessageFacts, Zenon
<1>3. PICK n \in Seq(Messages) : n = <<Profile(mode)>> /\ n # <<>> /\ Ids(n) = {Profile(0).id}
  BY <1>2, ShortFacts, ZenonT(30)
<1>4. toHost' = toHost \o n
  <2>1. PICK q \in Seq(Messages) : q = toHost
    BY <1>0, Zenon DEF TypeOK
  <2>2. PICK m \in Messages : m = Profile(mode)
    BY <1>2, Zenon
  <2>3. Append(q, m) = q \o <<m>>
    BY AppendIsConcat
  <2>4. QED
    BY <1>0, <1>3, <2>1, <2>2, <2>3, Zenon
<1>5. toHost' \in Seq(Messages) /\ Ids(toHost') \subseteq Ids(toHost) \cup {Profile(0).id}
  BY <1>0, <1>3, <1>4, JoinFacts, ZenonT(30) DEF TypeOK
<1>6. /\ Serial' = Serial /\ Async' = Async /\ Excused' = Excused
      /\ Request(0).id' = Request(0).id /\ Profile(0).id' = Profile(0).id
  BY <1>0, SameFacts, Zenon
<1>7. TypeOK'
  BY <1>0, <1>5, Zenon DEF TypeOK
<1>8. Core'
  BY <1>0, <1>1, <1>5, <1>6 DEF Core, FirmwareInv, SerialInv, UdpInv, WillCome
<1>9. LoopsOverUdp' /\ Unconnected'
  BY <1>0, <1>1, <1>6 DEF LoopsOverUdp, Unconnected
<1>10. QED
  BY <1>7, <1>8, <1>9 DEF IInv

LEMMA LoseStep == ASSUME IInv, Lose PROVE IInv'
<1>0. /\ TypeOK /\ Core /\ Unconnected /\ LoopsOverUdp
      /\ losses' = losses + 1 /\ losses < MaxLosses
      /\ UNCHANGED <<setup, mode, configuring, infoTimer, profileTimer, wanted,
                     waitRetry, triggers, shown, changes, resets, early>>
  BY DEF IInv, Lose, host
<1>1. /\ \/ toDevice # <<>> /\ toDevice' = Tail(toDevice) /\ toHost' = toHost
         \/ toHost # <<>> /\ toHost' = Tail(toHost) /\ toDevice' = toDevice
      /\ toDevice \in Seq(Messages) /\ toHost \in Seq(Messages)
  BY <1>0 DEF Lose, TypeOK
<1>2. /\ toDevice' \in Seq(Messages) /\ toHost' \in Seq(Messages)
      /\ Ids(toDevice') \subseteq Ids(toDevice) /\ Ids(toHost') \subseteq Ids(toHost)
      /\ triggers # 0
  BY <1>0, <1>1, TailFacts, Zenon DEF Unconnected
<1>3. losses' \in 0..MaxLosses /\ losses' > 0 /\ resets \in Nat /\ losses' + resets > 0
  BY <1>0, SessionAssumption DEF TypeOK
<1>4. /\ Serial' = Serial /\ Async' = Async
      /\ Request(0).id' = Request(0).id /\ Profile(0).id' = Profile(0).id
  BY <1>0, SameFacts, Zenon
<1>5. TypeOK'
  BY <1>0, <1>2, <1>3, Zenon DEF TypeOK
<1>6. FirmwareInv'
  BY <1>0, <1>2, <1>4 DEF Core, FirmwareInv
<1>7. Serial => Excused' = Excused
  BY <1>0, <1>4 DEF Excused
<1>8. SerialInv'
  BY <1>0, <1>2, <1>4, <1>7 DEF Core, SerialInv
<1>9. ~Serial => Excused'
  BY <1>0, <1>3, <1>4 DEF Excused
<1>10. UdpInv'
  BY <1>0, <1>4, <1>9 DEF Core, UdpInv
<1>11. LoopsOverUdp'
  <2>1. ASSUME ~Serial, ~Async PROVE Requests(toDevice') + Len(toHost') <= early + 1
    <3>1. Requests(toDevice') <= Requests(toDevice) /\ Len(toHost') <= Len(toHost)
      <4>1. CASE toDevice # <<>> /\ toDevice' = Tail(toDevice) /\ toHost' = toHost
        <5>1. Requests(toDevice') <= Requests(toDevice)
          BY <1>1, <4>1, OneLess, Zenon
        <5>2. Len(toHost') <= Len(toHost)
          BY <1>1, <4>1
        <5>3. QED
          BY <5>1, <5>2
      <4>2. CASE toHost # <<>> /\ toHost' = Tail(toHost) /\ toDevice' = toDevice
        <5>1. Len(toHost') = Len(toHost) - 1 /\ Len(toHost) \in Nat
          BY <1>1, <4>2, TailFacts, Zenon
        <5>2. Requests(toDevice') = Requests(toDevice) /\ Requests(toDevice) \in Nat
          BY <1>1, <4>2, FewRequests, Zenon
        <5>3. QED
          BY <5>1, <5>2
      <4>3. QED
        BY <1>1, <4>1, <4>2
    <3>2. /\ Requests(toDevice) \in Nat /\ Requests(toDevice') \in Nat
          /\ Requests(toDevice) + Len(toHost) <= early + 1
      BY <1>0, <1>1, <1>2, <2>1, FewRequests, Zenon DEF LoopsOverUdp
    <3>3. early \in Nat /\ Len(toHost) \in Nat /\ Len(toHost') \in Nat
      BY <1>0, <1>1, <1>2 DEF TypeOK
    <3>4. QED
      BY <3>1, <3>2, <3>3
  <2>2. QED
    BY <1>0, <1>4, <2>1, Zenon DEF LoopsOverUdp
<1>12. Unconnected'
  BY <1>0, <1>2 DEF Unconnected
<1>13. QED
  BY <1>5, <1>6, <1>8, <1>10, <1>11, <1>12 DEF IInv, Core

LEMMA PowerCycleStep == ASSUME IInv, PowerCycle PROVE IInv'
<1>0. /\ TypeOK /\ Core /\ Unconnected /\ LoopsOverUdp
      /\ resets' = resets + 1 /\ resets < MaxResets
      /\ mode' = None /\ toDevice' = <<>>
      /\ UNCHANGED <<setup, toHost, configuring, infoTimer, profileTimer, wanted,
                     waitRetry, triggers, shown, changes, losses, early>>
  BY DEF IInv, PowerCycle, host
<1>1. Ids(<<>>) = {} /\ <<>> \in Seq(Messages) /\ None \in Settings \cup {None}
  BY ShortFacts, MessageFacts, Zenon
<1>2. resets' \in 0..MaxResets /\ resets' > 0 /\ losses \in Nat /\ losses + resets' > 0
  BY <1>0, SessionAssumption DEF TypeOK
<1>3. /\ Serial' = Serial /\ Async' = Async
      /\ Request(0).id' = Request(0).id /\ Profile(0).id' = Profile(0).id
  BY <1>0, SameFacts, Zenon
<1>4. TypeOK'
  BY <1>0, <1>1, <1>2, Zenon DEF TypeOK
<1>5. FirmwareInv'
  BY <1>0, <1>1, <1>3 DEF Core, FirmwareInv
<1>6. /\ Async => Excused'
      /\ ~Serial => Excused'
      /\ Serial /\ ~Async => ~Excused
  BY <1>0, <1>2, <1>3 DEF Excused
<1>7. ~Async => mode = None
  BY <1>0 DEF Core, FirmwareInv
<1>8. SerialInv'
  BY <1>0, <1>1, <1>3, <1>6, <1>7 DEF Core, SerialInv
<1>9. UdpInv'
  BY <1>0, <1>3, <1>6 DEF Core, UdpInv
<1>10. LoopsOverUdp'
  <2>1. ASSUME ~Serial, ~Async PROVE 0 + Len(toHost) <= early + 1
    <3>1. Requests(toDevice) \in Nat /\ Requests(toDevice) + Len(toHost) <= early + 1
      BY <1>0, <2>1, FewRequests, Zenon DEF TypeOK, LoopsOverUdp
    <3>2. Len(toHost) \in Nat /\ early \in Nat
      BY <1>0 DEF TypeOK
    <3>3. QED
      BY <3>1, <3>2
  <2>2. QED
    BY <1>0, <1>3, <2>1, NoRequests, Zenon DEF LoopsOverUdp
<1>11. Unconnected'
  BY <1>0 DEF Unconnected
<1>12. QED
  BY <1>4, <1>5, <1>8, <1>9, <1>10, <1>11 DEF IInv, Core

\* The device answers the message m with a.
Answers(m, a) ==
  /\ a \in Messages /\ m.id # Break.id /\ mode' = mode /\ toHost' = Put(toHost, <<a>>)
  /\ a.id \in {Info.id, "NACK", "DEVICE_DATA"}
  /\ a.id = "DEVICE_DATA" => ~Async /\ m.id = Request(0).id

\* What it does with a message m.
LEMMA ServeFacts ==
  ASSUME IInv, Serve, NEW m, m = Head(toDevice)
  PROVE  /\ m.id \in {Break.id, Info.id, Request(0).id}
         /\ \/ m.id = Break.id /\ mode' = None /\ toHost' = toHost
            \/ \E a : Answers(m, a)
            \/ m.id = "AUTO_TRANSMIT" /\ mode' \in Settings /\ toHost' = toHost
<1>0. TypeOK /\ FirmwareInv /\ toDevice # <<>>
  BY DEF IInv, Core, Serve
<1>1. m \in Messages /\ m.id \in Ids(toDevice)
  BY <1>0, TailFacts, Zenon DEF TypeOK
<1>2. m.id \in {Break.id, Info.id, Request(0).id} /\ m.setting \in Settings
  BY <1>0, <1>1 DEF FirmwareInv, Messages
<1>3. CASE m.id = "break"
  BY <1>2, <1>3, MessageFacts DEF Serve
<1>4. CASE m.id = "DEVICE_INFORMATION"
  <2>1. Answers(m, Info)
    BY <1>2, <1>4, MessageFacts DEF Serve, Answers
  <2>2. QED
    BY <1>2, <2>1, Zenon
<1>5. CASE m.id = "TRANSDUCER"
  <2>1. ~Async
    BY <1>2, <1>5, MessageFacts
  <2>2. CASE m.setting \in Rejected
    <3>1. Answers(m, Message("NACK", 0))
      BY <1>2, <1>5, <2>1, <2>2, MessageFacts DEF Serve, Answers
    <3>2. QED
      BY <1>2, <3>1, Zenon
  <2>3. CASE m.setting \notin Rejected
    <3>1. /\ Profile(m.setting) \in Messages
          /\ Profile(m.setting).id = "DEVICE_DATA"
      BY <1>2, <2>1, MessageFacts
    <3>2. mode' = mode /\ toHost' = Put(toHost, <<Profile(m.setting)>>)
      BY <1>5, <2>3 DEF Serve
    <3>3. m.id = Request(0).id /\ m.id # Break.id
      BY <1>5, <2>1, MessageFacts
    <3>4. Answers(m, Profile(m.setting))
      BY <2>1, <3>1, <3>2, <3>3 DEF Answers
    <3>5. QED
      BY <1>2, <3>4, Zenon
  <2>4. QED
    BY <2>2, <2>3
<1>6. CASE m.id = "AUTO_TRANSMIT"
  <2>1. CASE m.setting \in Rejected
    <3>1. Answers(m, Message("NACK", 0))
      BY <1>2, <1>6, <2>1, MessageFacts DEF Serve, Answers
    <3>2. QED
      BY <1>2, <3>1, Zenon
  <2>2. CASE m.setting \notin Rejected
    BY <1>2, <1>6, <2>2 DEF Serve
  <2>3. QED
    BY <2>1, <2>2
<1>7. QED
  BY <1>2, <1>3, <1>4, <1>5, <1>6, MessageFacts

LEMMA ServeStep == ASSUME IInv, Serve PROVE IInv'
<1>0. /\ TypeOK /\ Core /\ Unconnected /\ LoopsOverUdp
      /\ toDevice # <<>> /\ toDevice' = Tail(toDevice)
      /\ UNCHANGED <<setup, configuring, infoTimer, profileTimer, wanted,
                     waitRetry, triggers, shown, changes, losses, resets, early>>
  BY DEF IInv, Serve, host, bounds
<1>1. PICK m : m = Head(toDevice)
  OBVIOUS
<1>2. /\ toDevice' \in Seq(Messages) /\ Ids(toDevice') \subseteq Ids(toDevice)
      /\ m.id \in Ids(toDevice)
      /\ toDevice' = <<>> => toDevice[Len(toDevice)] = m
      /\ toDevice' # <<>> => toDevice'[Len(toDevice')] = toDevice[Len(toDevice)]
      /\ Len(toDevice) \in Nat /\ Len(toDevice') = Len(toDevice) - 1
      /\ m = toDevice[1]
  <2>1. /\ Tail(toDevice) \in Seq(Messages) /\ Ids(Tail(toDevice)) \subseteq Ids(toDevice)
        /\ Head(toDevice).id \in Ids(toDevice)
        /\ Tail(toDevice) = <<>> => toDevice[Len(toDevice)] = Head(toDevice)
        /\ Tail(toDevice) # <<>> => Tail(toDevice)[Len(Tail(toDevice))] = toDevice[Len(toDevice)]
        /\ Len(toDevice) \in Nat /\ Len(Tail(toDevice)) = Len(toDevice) - 1
    BY <1>0, TailFacts, Zenon DEF TypeOK
  <2>2. Head(toDevice) = toDevice[1]
    BY <1>0 DEF TypeOK
  <2>3. QED
    BY <1>0, <1>1, <2>1, <2>2, Zenon
<1>3. /\ Serial' = Serial /\ Async' = Async /\ Excused' = Excused
      /\ Request(0).id' = Request(0).id /\ Profile(0).id' = Profile(0).id
  BY <1>0, SameFacts, Zenon
<1>4. Unconnected'
  BY <1>0 DEF Unconnected
<1>9. /\ Requests(toDevice) \in Nat /\ Requests(toDevice') \in Nat
      /\ Requests(toDevice') <= Requests(toDevice)
      /\ m.id # Break.id => Requests(toDevice') <= Requests(toDevice) - 1
  BY <1>0, <1>1, <1>2, OneLess, FewRequests, Zenon DEF TypeOK
<1>5. CASE m.id = Break.id /\ mode' = None /\ toHost' = toHost
  <2>1. ~Serial
    BY <1>0, <1>2, <1>5 DEF Core, SerialInv
  <2>2. TypeOK'
    <3>1. mode' \in Settings \cup {None} /\ toHost' \in Seq(Messages)
      BY <1>0, <1>5 DEF TypeOK
    <3>2. QED
      BY <1>0, <1>2, <3>1, Zenon DEF TypeOK
  <2>3. FirmwareInv'
    BY <1>0, <1>2, <1>3, <1>5 DEF Core, FirmwareInv
  <2>4. SerialInv'
    BY <1>3, <2>1 DEF SerialInv
  <2>5. WillCome => WillCome'
    BY <1>0, <1>2, <1>5, MessageFacts DEF WillCome
  <2>6. UdpInv'
    BY <1>0, <1>3, <1>5, <2>1, <2>5 DEF Core, UdpInv
  <2>7. LoopsOverUdp'
    <3>1. ASSUME ~Async PROVE Requests(toDevice') + Len(toHost) <= early + 1
      <4>1. Requests(toDevice) + Len(toHost) <= early + 1
        BY <1>0, <2>1, <3>1, Zenon DEF LoopsOverUdp
      <4>2. Len(toHost) \in Nat /\ early \in Nat
        BY <1>0 DEF TypeOK
      <4>3. QED
        BY <1>9, <4>1, <4>2
    <3>2. QED
      BY <1>0, <1>3, <1>5, <3>1, Zenon DEF LoopsOverUdp
  <2>8. QED
    BY <1>4, <2>2, <2>3, <2>4, <2>6, <2>7 DEF IInv, Core
<1>6. ASSUME NEW a, Answers(m, a) PROVE IInv'
  <2>0. /\ a \in Messages /\ m.id # Break.id /\ mode' = mode /\ toHost' = Put(toHost, <<a>>)
        /\ a.id \in {Info.id, "NACK", "DEVICE_DATA"}
        /\ a.id = "DEVICE_DATA" => ~Async /\ m.id = Request(0).id
    BY <1>6, Zenon DEF Answers
  <2>1. PICK n : n = <<a>> /\ n \in Seq(Messages) /\ n # <<>> /\ Ids(n) = {a.id}
                 /\ Len(n) = 1 /\ n[1] = a
    BY <2>0, ShortFacts, Zenon
  <2>2. PICK h \in Seq(Messages) : h = toHost
    BY <1>0, Zenon DEF TypeOK
  <2>3. /\ toHost' \in Seq(Messages) /\ Ids(toHost') \subseteq Ids(toHost) \cup {a.id}
        /\ ~Serial => toHost' = h \o n
    BY <2>0, <2>1, <2>2, PutFacts, Zenon
  <2>4. /\ h \o n \in Seq(Messages) /\ Len(h \o n) = Len(h) + Len(n) /\ (h \o n)[Len(h \o n)] = a
    BY <2>1, JoinFacts, Zenon
  <2>5. ~Serial => a.id \in Ids(toHost')
    <3>1. PICK all \in Seq(Messages) : all = h \o n /\ Len(all) = Len(h) + 1 /\ all[Len(all)] = a
      BY <2>1, <2>4, Zenon
    <3>2. Len(all) \in DOMAIN all
      BY <3>1
    <3>3. a.id \in Ids(all)
      BY <3>1, <3>2, Zenon DEF Ids
    <3>4. QED
      BY <2>3, <3>1, <3>3, Zenon
  <2>6. TypeOK'
    <3>1. mode' \in Settings \cup {None}
      BY <1>0, <2>0 DEF TypeOK
    <3>2. QED
      BY <1>0, <1>2, <2>3, <3>1, Zenon DEF TypeOK
  <2>7. FirmwareInv'
    BY <1>0, <1>2, <1>3, <2>0, <2>3, MessageFacts DEF Core, FirmwareInv
  <2>8. a.id # "AUTO_DEVICE_DATA"
    BY <2>0, MessageFacts
  <2>9. SerialInv'
    BY <1>0, <1>2, <1>3, <2>0, <2>3, <2>8 DEF Core, SerialInv
  <2>10. UdpInv'
    <3>1. ASSUME ~Serial, WillCome PROVE WillCome'
      <4>1. CASE toDevice' = <<>>
        <5>1. m.id \in {Info.id, "AUTO_TRANSMIT"}
          BY <1>0, <1>2, <3>1, <4>1 DEF WillCome
        <5>2. a.id # "DEVICE_DATA"
          BY <2>0, <5>1, MessageFacts
        <5>3. QED
          BY <2>0, <2>5, <3>1, <4>1, <5>2 DEF WillCome, Info, Message
      <4>2. CASE toDevice' # <<>>
        BY <1>0, <1>2, <3>1, <4>2, MessageFacts DEF WillCome
      <4>3. QED
        BY <4>1, <4>2
    <3>2. ASSUME ~Serial, ~Excused
          PROVE  /\ toDevice' # <<>> => toDevice'[Len(toDevice')].id # Break.id
                 /\ mode' # None \/ "AUTO_DEVICE_DATA" \in Ids(toHost') => WillCome'
                 /\ triggers' > 0 => profileTimer' \/ WillCome'
      <4>1. toDevice' # <<>> => toDevice'[Len(toDevice')].id # Break.id
        BY <1>0, <1>2, <3>2 DEF Core, UdpInv
      <4>2. mode' # None \/ "AUTO_DEVICE_DATA" \in Ids(toHost') => WillCome'
        BY <1>0, <2>0, <2>3, <2>8, <3>1, <3>2 DEF Core, UdpInv
      <4>3. triggers' > 0 => profileTimer' \/ WillCome'
        BY <1>0, <3>1, <3>2 DEF Core, UdpInv
      <4>4. QED
        BY <4>1, <4>2, <4>3, Zenon
    <3>3. QED
      BY <1>0, <1>3, <3>2 DEF Core, UdpInv
  <2>11. LoopsOverUdp'
    <3>1. ASSUME ~Serial, ~Async PROVE Requests(toDevice') + Len(toHost') <= early + 1
      <4>1. /\ Requests(toDevice) + Len(h) <= early + 1
            /\ Requests(toDevice') <= Requests(toDevice) - 1
        BY <1>0, <1>9, <2>0, <2>2, <3>1, Zenon DEF LoopsOverUdp
      <4>2. PICK l \in Nat : l = Len(h) /\ Len(toHost') = l + 1
        <5>1. Len(h) \in Nat
          OBVIOUS
        <5>2. QED
          BY <2>1, <2>3, <2>4, <3>1, <5>1, Zenon
      <4>3. early \in Nat
        BY <1>0 DEF TypeOK
      <4>4. QED
        BY <1>9, <4>1, <4>2, <4>3
    <3>2. QED
      BY <1>0, <1>3, <3>1, Zenon DEF LoopsOverUdp
  <2>12. QED
    BY <1>4, <2>6, <2>7, <2>9, <2>10, <2>11 DEF IInv, Core
<1>7. CASE m.id = "AUTO_TRANSMIT" /\ mode' \in Settings /\ toHost' = toHost
  <2>1. Async /\ mode' # None
    <3>1. m.id \in {Break.id, Info.id, Request(0).id}
      BY <1>0, <1>2 DEF Core, FirmwareInv
    <3>2. QED
      BY <1>7, <3>1, MessageFacts, SessionAssumption DEF None
  <2>2. TypeOK'
    <3>1. mode' \in Settings \cup {None} /\ toHost' \in Seq(Messages)
      BY <1>0, <1>7 DEF TypeOK
    <3>2. QED
      BY <1>0, <1>2, <3>1, Zenon DEF TypeOK
  <2>3. FirmwareInv'
    BY <1>0, <1>2, <1>3, <1>7, <2>1 DEF Core, FirmwareInv
  <2>4. SerialInv'
    BY <1>0, <1>2, <1>3, <1>7, <2>1 DEF Core, SerialInv
  <2>5. UdpInv'
    <3>1. ASSUME ~Excused, ~Serial PROVE WillCome
      <4>1. /\ toDevice[Len(toDevice)].id # Break.id
            /\ toDevice[Len(toDevice)].id \in Ids(toDevice)
        <5>1. Len(toDevice) \in DOMAIN toDevice
          BY <1>0, EmptySeq DEF TypeOK
        <5>2. QED
          BY <1>0, <3>1, <5>1 DEF Core, UdpInv, Ids
      <4>2. QED
        BY <1>0, <2>1, <4>1, MessageFacts DEF Core, FirmwareInv, WillCome
    <3>2. toDevice' = <<>> => WillCome'
      BY <2>1 DEF WillCome
    <3>3. WillCome /\ toDevice' # <<>> => WillCome'
      BY <1>0, <1>2, MessageFacts DEF WillCome
    <3>4. QED
      BY <1>0, <1>2, <1>3, <2>1, <3>1, <3>2, <3>3 DEF Core, UdpInv
  <2>6. LoopsOverUdp'
    BY <1>3, <2>1 DEF LoopsOverUdp
  <2>7. QED
    BY <1>4, <2>2, <2>3, <2>4, <2>5, <2>6 DEF IInv, Core
<1>8. QED
  <2>1. \/ m.id = Break.id /\ mode' = None /\ toHost' = toHost
        \/ \E a : Answers(m, a)
        \/ m.id = "AUTO_TRANSMIT" /\ mode' \in Settings /\ toHost' = toHost
    BY <1>1, ServeFacts, Zenon
  <2>2. QED
    BY <1>5, <1>6, <1>7, <2>1, Zenon

LEMMA Step == IInv /\ [Next]_vars => IInv'
<1> SUFFICES ASSUME IInv, [Next]_vars PROVE IInv'
  OBVIOUS
<1>1. CASE UNCHANGED vars
  <2>1. UNCHANGED <<setup, configuring, infoTimer, profileTimer, wanted, waitRetry, triggers,
                    shown, toDevice, toHost, mode, changes, losses, resets, early>>
    BY <1>1 DEF vars, host, cable, bounds
  <2>2. /\ Serial' = Serial /\ Async' = Async /\ Excused' = Excused
        /\ Request(0).id' = Request(0).id /\ Profile(0).id' = Profile(0).id
    BY <2>1, SameFacts, Zenon
  <2>3. TypeOK' /\ Unconnected' /\ LoopsOverUdp'
    BY <2>1, <2>2 DEF IInv, TypeOK, Unconnected, LoopsOverUdp
  <2>4. Core'
    BY <2>1, <2>2 DEF IInv, Core, FirmwareInv, SerialInv, UdpInv, WillCome
  <2>5. QED
    BY <2>3, <2>4 DEF IInv
<1>2. QED
  BY <1>1, ConnectStep, StartConfigurationStep, SetSettingsStep, InfoTimeoutStep,
     ProfileTimeoutStep, HandleStep, ServeStep, StreamStep, LoseStep, PowerCycleStep, Zenon
     DEF Next, User

LEMMA Kept == Spec => []IInv
BY Start, Step, PTL DEF Spec

\* Types, the messages that belong to a firmware, and what is on the way when
\* no timer runs; over UDP with legacy firmware, the loops of a request and its
\* answer are at most one more than the timeouts that came before the answer,
\* through losses, rejected settings and power cycles.
THEOREM SessionInvariant == Spec => []Inv
<1>1. IInv => Inv
  BY Zenon DEF IInv, Inv, Core
<1>2. QED
  BY <1>1, Kept, PTL

\* A session that has begun never comes to a state from which nothing follows:
\* a timer runs, or something is on the way, or the device streams; over UDP as
\* long as nothing was lost, with streaming firmware as long as the device was
\* not restarted.
THEOREM SessionGoesOn == Spec => []NeverSilent
<1>1. IInv => NeverSilent
  <2> SUFFICES ASSUME IInv, triggers > 0, ~Excused, Silent PROVE FALSE
    BY DEF NeverSilent
  <2>1. /\ ~infoTimer /\ ~profileTimer /\ mode = None /\ toDevice = <<>> /\ toHost = <<>>
    BY DEF Silent, Quiet
  <2>2. Ids(<<>>) = {}
    BY ShortFacts, MessageFacts, Zenon
  <2>3. CASE Serial
    BY <2>1, <2>3 DEF IInv, Core, SerialInv
  <2>4. CASE ~Serial
    BY <2>1, <2>2, <2>4 DEF IInv, Core, UdpInv, WillCome
  <2>5. QED
    BY <2>3, <2>4
<1>2. QED
  BY <1>1, Kept, PTL

=============================================================================
