----------------------------- MODULE Ping1DProofs -----------------------------
(***************************************************************************)
(* Proofs about Ping1D, for any entries that are configured and any bounds *)
(* on the calls, the losses and the room of the link.                      *)
(*                                                                         *)
(* What a sensor stores is what its device is set to, because what the     *)
(* sensor has heard of an entry is what the device is set to, or a request *)
(* or a report of the entry is still on the way (Informed).                *)
(*                                                                         *)
(* What a flash restores stays so.  Before the image is written, nothing   *)
(* on the way changes the device (Leaving), and so what was stored is what *)
(* the device was set to (Stored); after it, the defaults are reported     *)
(* first (Unrecognised), and a restore ends only when each entry settles:  *)
(* once the right value has been heard, no other is in a report, in the    *)
(* device or on the way to it (Restores).  Start and length of the range   *)
(* go in one message, each with what was heard of the other, so they       *)
(* settle as a pair; and as the restore of a profile begins before one has *)
(* been heard, a whole one is always on its way until then (ProfileComes). *)
(***************************************************************************)
EXTENDS Ping1D, SequenceTheorems, TLAPS

-----------------------------------------------------------------------------
(* The types of the messages.                                              *)

\* Start and length of the range go together.
KeySets == {K \in SUBSET Configured : "length" \in K <=> "start" \in K}

Parts == UNION {[K -> Values] : K \in KeySets}

Message == [set : Parts, ask : KeySets,
            do : {"nothing", "start", "stop", "bootloader"}]

\* What the device is set to and what is reported of it is valid; so is what a
\* restore wants.
Cable ==
  /\ toDevice \in Seq(Message) /\ toViewer \in Seq(Parts)
  /\ \A i \in 1..Len(toViewer) : \A k \in DOMAIN toViewer[i] : toViewer[i][k] \in Valid(k)

Sound ==
  /\ before \in [Configured -> -1..3]
  /\ \A k \in Configured : dev[k] \in Valid(k)
  /\ \A k \in Configured : class[k] = 0 \/ class[k] \in Valid(k)
  /\ restoring => \A k \in Configured : conf[k] \in Valid(k)

\* A flash belongs to a sensor and has closed its link; the device counts as
\* configured from the moment that its id is known.
Life ==
  /\ phase # "none" => alive
  /\ phase \in {"closed", "process"} => ~open
  /\ phase # "none" => flasher # "FlashFinished"
  /\ open => alive
  /\ srcId = 1 <=> lastId = 1
  /\ alive /\ srcId = 1 /\ ~restoring /\ "interval" \in Configured => class["interval"] # 0

Typed == Inv /\ Cable /\ Sound /\ Life

-----------------------------------------------------------------------------
(* What the sensor has heard is what its device is set to, or it will hear *)
(* of it.                                                                  *)

Asked(k) == \E i \in 1..Len(toDevice) : k \in toDevice[i].ask

Reported(k) == \E i \in 1..Len(toViewer) : k \in DOMAIN toViewer[i]

\* The last report of an entry.
LastOf(k, i) ==
  /\ i \in 1..Len(toViewer) /\ k \in DOMAIN toViewer[i]
  /\ \A j \in 1..Len(toViewer) : j > i => k \notin DOMAIN toViewer[j]

Told(k) == \E i \in 1..Len(toViewer) : LastOf(k, i) /\ toViewer[i][k] = dev[k]

Held(k) == ~Reported(k) /\ class[k] = dev[k]

Announced(k) == Asked(k) \/ Told(k) \/ Held(k)

\* The profile is asked for when the id is known, the interval only when it is
\* set; and the range changes by itself.
Known(k) ==
  /\ k \in Profile => srcId = 1 /\ "adjusted" \notin excuse
  /\ k = "interval" => class[k] # 0 \/ Reported(k)

SetsAreAsked ==
  \A i \in 1..Len(toDevice) : DOMAIN toDevice[i].set \subseteq toDevice[i].ask

Informed ==
  open /\ excuse \cap {"lost", "rebooted", "ignored"} = {} =>
    /\ SetsAreAsked
    /\ \A k \in Configured : Known(k) => Announced(k)

-----------------------------------------------------------------------------
(* The configuration across a flash.                                       *)

\* The flash waits for its messages to be sent; nothing else is.
Leaving ==
  phase = "closing" /\ before # None =>
    /\ srcId = 1 /\ ~restoring /\ ~polling
    /\ \A i \in 1..Len(toDevice) : DOMAIN toDevice[i].set = {} /\ toDevice[i].ask = {}
    /\ \A k \in Relevant(before) :
         /\ before[k] \in Valid(k) /\ dev[k] = before[k] /\ class[k] = before[k]
         /\ \A i \in 1..Len(toViewer) :
              k \in DOMAIN toViewer[i] => toViewer[i][k] = before[k]

\* What was stored is what the device was set to.
Stored ==
  (phase \in {"closed", "process"} \/ (phase = "none" /\ flasher = "FlashFinished"))
    /\ before # None =>
    /\ \A k \in Configured : saved[k] \in Valid(k)
    /\ \A k \in Relevant(before) : saved[k] = before[k]
    /\ phase # "none" => ~restoring

\* The flash has succeeded and the link is open again.
Back ==
  /\ phase = "none" /\ flasher = "FlashFinished" /\ open /\ before # None
  /\ excuse \cap {"lost", "adjusted"} = {}

\* The device has not been recognised yet.  The first report will be that of
\* the automatic mode.
Unrecognised ==
  Back /\ srcId = 0 =>
    /\ ~restoring /\ ~streaming
    /\ class = Zero /\ dev = DeviceBoot
    /\ \A i \in 1..Len(toDevice) :
         DOMAIN toDevice[i].set = {} /\ toDevice[i].do = "nothing"
    /\ \A i \in 1..Len(toViewer) : \A k \in DOMAIN toViewer[i] :
         toViewer[i][k] = DeviceBoot[k]
    /\ toViewer # <<>> => DOMAIN toViewer[1] = {"auto"}
    /\ toViewer = <<>> => toDevice # <<>> /\ toDevice[1].ask = {"auto"}

\* Nothing of the profile has been heard: the first to come is a whole one,
\* and until then only the automatic mode is reported.
ProfileComes ==
  Back /\ before["auto"] = 0 /\ class["length"] = 0 =>
    /\ ~streaming
    /\ \A i \in 1..Len(toDevice) : toDevice[i].do = "nothing"
    /\ srcId = 1 => class["auto"] = 1 /\ restoring
    /\ \/ \E i \in 1..Len(toViewer) :
            /\ DOMAIN toViewer[i] = Profile
            /\ \A j \in 1..(i - 1) : DOMAIN toViewer[j] = {"auto"} /\ toViewer[j]["auto"] = 1
       \/ /\ \A j \in 1..Len(toViewer) : DOMAIN toViewer[j] = {"auto"} /\ toViewer[j]["auto"] = 1
          /\ dev["auto"] = 1
          /\ \E i \in 1..Len(toDevice) :
               /\ toDevice[i].ask = Profile
               /\ \A j \in 1..i : DOMAIN toDevice[j].set = {}
               /\ \A j \in 1..(i - 1) : toDevice[j].ask = {"auto"}

Heard(k) == k = "gain" => class["length"] # 0

\* An entry once restored stays so: in what was heard, in the reports, in the
\* device and in what will be set.
Settles(k) ==
  /\ \A i \in 1..Len(toDevice) :
       k \in DOMAIN toDevice[i].set => toDevice[i].set[k] = conf[k]
  /\ \A i \in 1..Len(toViewer) :
       k \in DOMAIN toViewer[i] /\ toViewer[i][k] = conf[k] =>
         /\ dev[k] = conf[k]
         /\ \A j \in i..Len(toViewer) : k \in DOMAIN toViewer[j] => toViewer[j][k] = conf[k]
  /\ Heard(k) /\ class[k] = conf[k] =>
       /\ dev[k] = conf[k]
       /\ \A j \in 1..Len(toViewer) : k \in DOMAIN toViewer[j] => toViewer[j][k] = conf[k]

\* Start and length of the range are set together, one of them as the sensor
\* last heard it.
Paired(f) == "length" \in DOMAIN f /\ "start" \in DOMAIN f
Right(c, f) == f["length"] = c["length"] /\ f["start"] = c["start"]
Wrong(c, f) == f["length"] # c["length"] /\ f["start"] # c["start"]

\* Along the way from what was heard to what will be set: after a right range
\* only right ones, and before one that is half right only wrong ones.
SetsSettle ==
  \A i \in 1..Len(toDevice) : Paired(toDevice[i].set) =>
    /\ ~Wrong(conf, toDevice[i].set)
    /\ Right(conf, toDevice[i].set) =>
         \A j \in i..Len(toDevice) : Paired(toDevice[j].set) => Right(conf, toDevice[j].set)
    /\ Right(conf, dev) => Right(conf, toDevice[i].set)
    /\ Wrong(conf, class) => ~Right(conf, toDevice[i].set)

ReportsSettle ==
  \A i \in 1..Len(toViewer) : Paired(toViewer[i]) =>
    /\ Right(conf, toViewer[i]) =>
         /\ Right(conf, dev)
         /\ \A j \in i..Len(toViewer) : Paired(toViewer[j]) => Right(conf, toViewer[j])
    /\ ~Wrong(conf, toViewer[i]) =>
         /\ ~Wrong(conf, dev)
         /\ \A j \in i..Len(toViewer) : Paired(toViewer[j]) => ~Wrong(conf, toViewer[j])
    /\ Right(conf, class) => Right(conf, toViewer[i])
    /\ ~Wrong(conf, class) => ~Wrong(conf, toViewer[i])
    /\ Wrong(conf, class) => ~Right(conf, toViewer[i])

\* What was heard is not better than what the device is set to.
DeviceSettles ==
  /\ Right(conf, class) => Right(conf, dev)
  /\ ~Wrong(conf, class) => ~Wrong(conf, dev)
  /\ Wrong(conf, class) => ~Right(conf, dev)

RangeSettles == SetsSettle /\ ReportsSettle /\ DeviceSettles

Wanted ==
  /\ \A k \in Configured : conf[k] \in Valid(k)
  /\ \A k \in Relevant(before) : conf[k] = before[k]

Restored == \A k \in Relevant(before) : dev[k] = before[k]

\* After the flash each entry settles, and once the restore has ended the
\* device is set as it was.
Restores ==
  Back =>
    /\ mode = "application"
    /\ \A i \in 1..Len(toDevice) : toDevice[i].do \in {"nothing", "start"}
    /\ srcId = 1 =>
         /\ Wanted
         /\ \A k \in Relevant(before) \ {"length", "start"} : Settles(k)
         /\ before["auto"] = 0 => RangeSettles
         /\ ~restoring => Restored

\* The inductive invariant: what a closing sensor stores, and what of it comes
\* back after a flash.
IInv ==
  /\ Typed /\ Informed
  /\ Leaving /\ Stored /\ Unrecognised /\ ProfileComes /\ Restores

-----------------------------------------------------------------------------
LEMMA Entries ==
  /\ \A k \in Configured : k \in {"interval", "speed", "auto", "gain", "length", "start"}
  /\ "auto" \in Configured /\ "length" \in Configured /\ "start" \in Configured
BY ConfiguredAssumption DEF ConfiguredAssumption

LEMMA ValidValues ==
  /\ \A k : Valid(k) \subseteq Values /\ Default(k) \in Valid(k)
  /\ \A k, v : Checked(k, v) \in Valid(k) /\ (v \in Valid(k) => Checked(k, v) = v)
  /\ 0 \notin Valid("interval") /\ 0 \notin Valid("length")
  /\ FirmwareDefault["auto"] = 1
BY DEF Valid, Values, Default, Checked, FirmwareDefault

LEMMA DeviceBootValid ==
  /\ DeviceBoot \in [Configured -> Values]
  /\ \A k \in Configured : DeviceBoot[k] \in Valid(k)
  /\ DeviceBoot["auto"] = 1
<1>1. \A k \in Configured : DeviceBoot[k] \in Valid(k)
  BY Entries DEF DeviceBoot, Valid, Default
<1>2. DeviceBoot["auto"] = 1
  BY Entries DEF DeviceBoot, Default
<1>3. DeviceBoot \in [Configured -> Values]
  BY <1>1, ValidValues DEF DeviceBoot
<1>4. QED
  BY <1>1, <1>2, <1>3

LEMMA ZeroAndNone ==
  /\ Zero \in [Configured -> Values] /\ \A k \in Configured : Zero[k] = 0
  /\ None \in [Configured -> -1..3] /\ \A k \in Configured : None[k] = -1
BY DEF Zero, None, Values

\* A setter sets its entry, and the other half of the range with its own.
Together(k) == IF k \in {"length", "start"} THEN {"length", "start"} ELSE {k}

\* A part of the entries with their values.
LEMMA PartIs ==
  ASSUME NEW f \in Parts
  PROVE  /\ DOMAIN f \subseteq Configured /\ f \in [DOMAIN f -> Values]
         /\ "length" \in DOMAIN f <=> "start" \in DOMAIN f
<1>1. PICK K \in KeySets : f \in [K -> Values]
  BY DEF Parts
<1>2. QED
  BY <1>1 DEF KeySets

LEMMA PartMade ==
  ASSUME NEW K \in KeySets, NEW f \in [K -> Values]
  PROVE  f \in Parts
BY DEF Parts

LEMMA KeySetsAre ==
  /\ {} \in KeySets /\ {"auto"} \in KeySets /\ Profile \in KeySets
  /\ "speed" \in Configured => {"speed"} \in KeySets
  /\ \A k \in Configured : Together(k) \in KeySets
<1>1. \A k \in Configured : Together(k) \in KeySets
  BY Entries DEF KeySets, Together
<1>2. QED
  BY <1>1, Entries DEF KeySets, Profile

LEMMA NothingIs == Nothing \in Parts /\ DOMAIN Nothing = {}
<1>1. Nothing \in [{} -> Values] /\ DOMAIN Nothing = {}
  BY DEF Nothing
<1>2. QED
  BY <1>1, PartMade, KeySetsAre

LEMMA AskIs ==
  ASSUME NEW K \in KeySets
  PROVE  Ask(K) \in Message /\ Ask(K).set = Nothing /\ Ask(K).ask = K /\ Ask(K).do = "nothing"
BY NothingIs DEF Ask, Message

LEMMA DoIs ==
  ASSUME NEW what \in {"nothing", "start", "stop", "bootloader"}
  PROVE  Do(what) \in Message /\ Do(what).set = Nothing /\ Do(what).ask = {} /\ Do(what).do = what
BY NothingIs, KeySetsAre DEF Do, Message

LEMMA SetterIs ==
  ASSUME NEW k \in Configured, NEW v \in Values, class \in [Configured -> Values]
  PROVE  /\ Setter(k, v) \in Message
         /\ DOMAIN Setter(k, v).set = Together(k) /\ Setter(k, v).ask = Together(k)
         /\ Setter(k, v).do = "nothing"
         /\ \A j \in Together(k) : Setter(k, v).set[j] = IF j = k THEN v ELSE class[j]
<1> DEFINE K == Together(k)
           f == [j \in K |-> IF j = k THEN v ELSE class[j]]
<1>1. K \in KeySets
  BY KeySetsAre
<1>2. f \in [K -> Values]
  BY <1>1, KeySetsAre DEF KeySets
<1>3. f \in Parts
  BY <1>1, <1>2, PartMade
<1>4. Setter(k, v) = [set |-> f, ask |-> K, do |-> "nothing"]
  BY DEF Setter, Together
<1>5. QED
  BY <1>1, <1>3, <1>4 DEF Message

LEMMA MergedIs ==
  ASSUME NEW f \in Parts, NEW g \in [Configured -> Values]
  PROVE  /\ Merged(f, g) \in [Configured -> Values]
         /\ \A k \in Configured : Merged(f, g)[k] = IF k \in DOMAIN f THEN f[k] ELSE g[k]
<1>1. f \in [DOMAIN f -> Values]
  BY PartIs
<1>2. QED
  BY <1>1 DEF Merged

-----------------------------------------------------------------------------
(* What is written.                                                        *)

LEMMA OneMessage ==
  ASSUME NEW m \in Message
  PROVE  <<m>> \in Seq(Message) /\ Len(<<m>>) = 1 /\ <<m>>[1] = m
OBVIOUS

LEMMA TwoMessages ==
  ASSUME NEW m \in Message, NEW n \in Message
  PROVE  /\ <<m, n>> \in Seq(Message) /\ Len(<<m, n>>) = 2
         /\ <<m, n>>[1] = m /\ <<m, n>>[2] = n
OBVIOUS

LEMMA EntryIs ==
  ASSUME NEW k, NEW K
  PROVE  Entry(k, K) \in Seq(K) /\ (Entry(k, K) = <<>> => k \notin K)
BY DEF Entry

\* The keys are entries of the set, and there are none only for the empty one.
LEMMA KeysIs ==
  ASSUME NEW K \in SUBSET Configured
  PROVE  Keys(K) \in Seq(K) /\ (Keys(K) = <<>> => K = {})
<1> DEFINE a == Entry("interval", K)
           b == Entry("speed", K)
           c == Entry("auto", K)
           d == Entry("gain", K)
           e == Entry("length", K)
           f == Entry("start", K)
<1>1. /\ a \in Seq(K) /\ b \in Seq(K) /\ c \in Seq(K)
      /\ d \in Seq(K) /\ e \in Seq(K) /\ f \in Seq(K)
  BY EntryIs
<1>2. /\ a = <<>> => "interval" \notin K
      /\ b = <<>> => "speed" \notin K
      /\ c = <<>> => "auto" \notin K
      /\ d = <<>> => "gain" \notin K
      /\ e = <<>> => "length" \notin K
      /\ f = <<>> => "start" \notin K
  BY EntryIs
<1> HIDE DEF a, b, c, d, e, f
<1>3. a \o b \in Seq(K) /\ (a \o b = <<>> => a = <<>> /\ b = <<>>)
  BY <1>1, ConcatProperties, ConcatEqualIffEmpty
<1>4. (a \o b) \o c \in Seq(K) /\ ((a \o b) \o c = <<>> => a \o b = <<>> /\ c = <<>>)
  BY <1>1, <1>3, ConcatProperties, ConcatEqualIffEmpty
<1>5. /\ ((a \o b) \o c) \o d \in Seq(K)
      /\ ((a \o b) \o c) \o d = <<>> => (a \o b) \o c = <<>> /\ d = <<>>
  BY <1>1, <1>4, ConcatProperties, ConcatEqualIffEmpty
<1>6. /\ (((a \o b) \o c) \o d) \o e \in Seq(K)
      /\ (((a \o b) \o c) \o d) \o e = <<>> => ((a \o b) \o c) \o d = <<>> /\ e = <<>>
  BY <1>1, <1>5, ConcatProperties, ConcatEqualIffEmpty
<1>7. /\ ((((a \o b) \o c) \o d) \o e) \o f \in Seq(K)
      /\ ((((a \o b) \o c) \o d) \o e) \o f = <<>> =>
           (((a \o b) \o c) \o d) \o e = <<>> /\ f = <<>>
  BY <1>1, <1>6, ConcatProperties, ConcatEqualIffEmpty
<1>8. Keys(K) = ((((a \o b) \o c) \o d) \o e) \o f
  BY DEF Keys, a, b, c, d, e, f
<1>9. ASSUME Keys(K) = <<>> PROVE K = {}
  <2>1. /\ "interval" \notin K /\ "speed" \notin K /\ "auto" \notin K
        /\ "gain" \notin K /\ "length" \notin K /\ "start" \notin K
    BY <1>2, <1>3, <1>4, <1>5, <1>6, <1>7, <1>8, <1>9
  <2>2. QED
    BY <2>1, Entries
<1>10. QED
  BY <1>7, <1>8, <1>9

LEMMA PreConfigurationIs ==
  /\ PreConfiguration \in Seq(Message) /\ Len(PreConfiguration) \in 2..3
  /\ PreConfiguration[1] = Ask({"auto"}) /\ PreConfiguration[2] = Ask(Profile)
  /\ Len(PreConfiguration) = 3 => PreConfiguration[3] = Ask({"speed"})
  /\ "speed" \in Configured <=> Len(PreConfiguration) = 3
<1>1. Ask({"auto"}) \in Message /\ Ask(Profile) \in Message
  BY KeySetsAre, AskIs
<1>2. CASE "speed" \in Configured
  <2>1. Ask({"speed"}) \in Message
    BY <1>2, KeySetsAre, AskIs
  <2>2. PreConfiguration = <<Ask({"auto"}), Ask(Profile)>> \o <<Ask({"speed"})>>
    BY <1>2 DEF PreConfiguration
  <2> DEFINE two == <<Ask({"auto"}), Ask(Profile)>>
             one == <<Ask({"speed"})>>
  <2>3. two \in Seq(Message) /\ Len(two) = 2 /\ two[1] = Ask({"auto"}) /\ two[2] = Ask(Profile)
    BY <1>1, TwoMessages
  <2>4. one \in Seq(Message) /\ Len(one) = 1 /\ one[1] = Ask({"speed"})
    BY <2>1, OneMessage
  <2> HIDE DEF two, one
  <2>5. /\ two \o one \in Seq(Message) /\ Len(two \o one) = 3
        /\ (two \o one)[1] = two[1] /\ (two \o one)[2] = two[2] /\ (two \o one)[3] = one[1]
    BY <2>3, <2>4, ConcatProperties
  <2>6. PreConfiguration = two \o one
    BY <2>2 DEF two, one
  <2>7. QED
    BY <1>2, <2>3, <2>4, <2>5, <2>6
<1>3. CASE "speed" \notin Configured
  <2> DEFINE x == Ask({"auto"})
             y == Ask(Profile)
  <2>1. PreConfiguration = <<x, y>> \o <<>>
    BY <1>3 DEF PreConfiguration
  <2> HIDE DEF x, y
  <2>2. x \in Message /\ y \in Message
    BY <1>1 DEF x, y
  <2>3. <<x, y>> \o <<>> = <<x, y>> /\ <<x, y>> \in Seq(Message) /\ Len(<<x, y>>) = 2
    BY <2>2
  <2>4. QED
    BY <2>1, <2>3, <1>3 DEF x, y
<1>4. QED
  BY <1>2, <1>3

\* What is written goes to the end of the cable.
LEMMA Writing ==
  ASSUME toDevice \in Seq(Message), NEW ms \in Seq(Message), Write(ms)
  PROVE  /\ toDevice' \in Seq(Message)
         /\ Len(toDevice') \in Nat /\ Len(toDevice') >= Len(toDevice)
         /\ \A i \in 1..Len(toDevice) : toDevice'[i] = toDevice[i]
         /\ \A i \in 1..Len(toDevice') : i > Len(toDevice) =>
              i - Len(toDevice) \in 1..Len(ms) /\ toDevice'[i] = ms[i - Len(toDevice)]
         /\ open => Len(toDevice') = Len(toDevice) + Len(ms)
         /\ ~open => toDevice' = toDevice
<1>1. CASE open
  <2>1. toDevice' = toDevice \o ms
    BY <1>1 DEF Write
  <2> DEFINE td == toDevice'
  <2>2. /\ td \in Seq(Message) /\ Len(td) = Len(toDevice) + Len(ms)
        /\ \A i \in 1..Len(toDevice) + Len(ms) : td[i] =
             IF i <= Len(toDevice) THEN toDevice[i] ELSE ms[i - Len(toDevice)]
    BY <2>1, ConcatProperties DEF td
  <2>3. Len(toDevice) \in Nat /\ Len(ms) \in Nat
    BY LenProperties
  <2> HIDE DEF td
  <2>4. QED
    BY <1>1, <2>2, <2>3 DEF td
<1>2. CASE ~open
  <2>1. toDevice' = toDevice
    BY <1>2 DEF Write
  <2>2. QED
    BY <1>2, <2>1, LenProperties
<1>3. QED
  BY <1>1, <1>2

-----------------------------------------------------------------------------
(* The types.                                                              *)

LEMMA LoadedIs ==
  ASSUME Typed
  PROVE  /\ Loaded \in [Configured -> Values]
         /\ \A k \in Configured : Loaded[k] \in Valid(k)
         /\ \A k \in Configured : saved # None => Loaded[k] = saved[k]
<1>1. \A k \in Configured : saved = None \/ saved[k] \in Valid(k)
  BY DEF Typed, Inv, TypeOK
<1>2. \A k \in Configured : Loaded[k] = Checked(k, IF saved = None THEN Default(k) ELSE saved[k])
  BY DEF Loaded
<1>3. \A k \in Configured : Loaded[k] \in Valid(k) /\ (saved # None => Loaded[k] = saved[k])
  <2>1. CASE saved = None
    <3>1. \A k \in Configured : Loaded[k] = Checked(k, Default(k))
      BY <1>2, <2>1
    <3>2. \A k \in Configured : Default(k) \in Valid(k)
      BY ValidValues
    <3>3. \A k \in Configured : Checked(k, Default(k)) \in Valid(k)
      BY ValidValues
    <3>4. QED
      BY <2>1, <3>1, <3>3
  <2>2. CASE saved # None
    <3>1. \A k \in Configured : Loaded[k] = Checked(k, saved[k])
      BY <1>2, <2>2
    <3>2. QED
      BY <1>1, <2>2, <3>1, ValidValues
  <2>3. QED
    BY <2>1, <2>2
<1>4. Loaded \in [Configured -> Values]
  BY <1>3, ValidValues DEF Loaded
<1>5. QED
  BY <1>3, <1>4

LEMMA UpdateIs ==
  ASSUME Typed, Update
  PROVE  /\ conf' \in [Configured -> Values]
         /\ \A k \in Configured : conf'[k] \in Valid(k) /\ (class[k] \in Valid(k) => conf'[k] = class[k])
         /\ saved' = IF srcId = 1 THEN conf' ELSE saved
         /\ saved' \in [Configured -> -1..3]
         /\ \A k \in Configured : saved' = None \/ saved'[k] \in Valid(k)
<1>1. \A k \in Configured : conf'[k] = Checked(k, class[k])
  BY DEF Update
<1>2. \A k \in Configured : conf'[k] \in Valid(k) /\ (class[k] \in Valid(k) => conf'[k] = class[k])
  BY <1>1, ValidValues
<1>3. conf' \in [Configured -> Values]
  BY <1>2, ValidValues DEF Update
<1>4. saved' = IF srcId = 1 THEN conf' ELSE saved
  BY DEF Update
<1>5. conf' \in [Configured -> -1..3]
  BY <1>3 DEF Values
<1>6. saved \in [Configured -> -1..3] /\ \A k \in Configured : saved = None \/ saved[k] \in Valid(k)
  BY DEF Typed, Inv, TypeOK
<1>7. QED
  BY <1>2, <1>3, <1>4, <1>5, <1>6

LEMMA ResetLocalIs ==
  ASSUME ResetLocal
  PROVE  /\ class' \in [Configured -> Values] /\ \A k \in Configured : class'[k] = 0
         /\ class' = Zero
         /\ srcId' = 0 /\ lastId' = -1
BY ZeroAndNone DEF ResetLocal

LEMMA OpenedIs ==
  ASSUME NEW opens \in BOOLEAN, Opened(opens)
  PROVE  /\ open' = opens /\ polling' = opens /\ toViewer' = <<>>
         /\ toDevice' \in Seq(Message)
         /\ toDevice' = IF opens THEN PreConfiguration ELSE <<>>
BY PreConfigurationIs DEF Opened

LEMMA EmptyCable ==
  ASSUME toDevice' \in Seq(Message), toViewer' = <<>>
  PROVE  Cable'
BY DEF Cable

LEMMA SameReports ==
  ASSUME Cable, toDevice' \in Seq(Message), UNCHANGED toViewer
  PROVE  Cable'
BY DEF Cable

\* The entry at the head of the cable goes.
LEMMA ReadingOne ==
  ASSUME Cable, toViewer # <<>>, toViewer' = Tail(toViewer)
  PROVE  /\ Len(toViewer) \in Nat /\ Len(toViewer) >= 1 /\ Len(toViewer') = Len(toViewer) - 1
         /\ toViewer' \in Seq(Parts)
         /\ Head(toViewer) = toViewer[1] /\ Head(toViewer) \in Parts
         /\ \A i \in 1..Len(toViewer') : i + 1 \in 1..Len(toViewer) /\ toViewer'[i] = toViewer[i + 1]
<1>1. toViewer \in Seq(Parts)
  BY DEF Cable
<1> DEFINE s == toViewer
           t == toViewer'
<1>2. /\ Head(s) \in Parts /\ t \in Seq(Parts) /\ Len(t) = Len(s) - 1
      /\ \A i \in 1..Len(t) : t[i] = s[i + 1]
  BY <1>1, HeadTailProperties
<1>3. Len(s) \in Nat \ {0}
  BY <1>1, EmptySeq
<1>4. Head(s) = s[1]
  BY <1>1
<1> HIDE DEF s, t
<1>5. QED
  BY <1>2, <1>3, <1>4 DEF s, t

LEMMA ServingOne ==
  ASSUME Cable, toDevice # <<>>, toDevice' = Tail(toDevice)
  PROVE  /\ Len(toDevice) \in Nat /\ Len(toDevice) >= 1 /\ Len(toDevice') = Len(toDevice) - 1
         /\ toDevice' \in Seq(Message)
         /\ Head(toDevice) = toDevice[1] /\ Head(toDevice) \in Message
         /\ \A i \in 1..Len(toDevice') : i + 1 \in 1..Len(toDevice) /\ toDevice'[i] = toDevice[i + 1]
<1>1. toDevice \in Seq(Message)
  BY DEF Cable
<1> DEFINE s == toDevice
           t == toDevice'
<1>2. /\ Head(s) \in Message /\ t \in Seq(Message) /\ Len(t) = Len(s) - 1
      /\ \A i \in 1..Len(t) : t[i] = s[i + 1]
  BY <1>1, HeadTailProperties
<1>3. Len(s) \in Nat \ {0}
  BY <1>1, EmptySeq
<1>4. Head(s) = s[1]
  BY <1>1
<1> HIDE DEF s, t
<1>5. QED
  BY <1>2, <1>3, <1>4 DEF s, t

\* A report f is added.
LEMMA ReportingOne ==
  ASSUME Cable, NEW f \in Parts, toViewer' = Append(toViewer, f)
  PROVE  /\ Len(toViewer) \in Nat /\ Len(toViewer') = Len(toViewer) + 1
         /\ toViewer' \in Seq(Parts)
         /\ toViewer'[Len(toViewer) + 1] = f
         /\ \A i \in 1..Len(toViewer) : toViewer'[i] = toViewer[i]
<1> DEFINE s == toViewer
           t == toViewer'
<1>1. s \in Seq(Parts) /\ t = Append(s, f)
  BY DEF Cable
<1> HIDE DEF s, t
<1>2. QED
  BY <1>1 DEF s, t

LEMMA InitTyped == Init => Typed
<1> SUFFICES ASSUME Init PROVE Typed
  OBVIOUS
<1>1. TypeOK
  <2>1. \A k \in Configured : saved = None \/ saved[k] \in Valid(k)
    BY DEF Init
  <2>2. saved \in [Configured -> -1..3]
    BY ZeroAndNone DEF Init
  <2>3. class \in [Configured -> Values] /\ conf \in [Configured -> Values]
    BY ZeroAndNone DEF Init
  <2>4. dev \in [Configured -> Values]
    BY DeviceBootValid DEF Init
  <2>5. calls \in 0..MaxCalls /\ losses \in 0..MaxLosses
    BY BoundAssumption DEF Init, BoundAssumption
  <2>6. /\ {alive, open, polling, restoring, streaming} \subseteq BOOLEAN
        /\ srcId \in 0..1 /\ lastId \in {-1, 1}
        /\ phase \in {"none", "closing", "closed", "process"}
        /\ flasher \in {"Idle", "StartingFlash", "Error", "FlashFinished"}
        /\ mode \in {"application", "bootloader"}
        /\ excuse \subseteq {"lost", "adjusted", "rebooted", "ignored"}
    <3>1. {alive, open, polling, restoring, streaming} \subseteq BOOLEAN
      <4>1. alive = FALSE /\ open = FALSE /\ polling = FALSE /\ restoring = FALSE
            /\ streaming = FALSE
        BY DEF Init
      <4>2. QED
        BY <4>1
    <3>2. srcId \in 0..1 /\ lastId \in {-1, 1}
      BY DEF Init
    <3>3. /\ phase \in {"none", "closing", "closed", "process"}
          /\ flasher \in {"Idle", "StartingFlash", "Error", "FlashFinished"}
          /\ mode \in {"application", "bootloader"}
      BY DEF Init
    <3>4. excuse \subseteq {"lost", "adjusted", "rebooted", "ignored"}
      BY DEF Init
    <3>5. QED
      BY <3>1, <3>2, <3>3, <3>4
  <2>7. QED
    BY <2>1, <2>2, <2>3, <2>4, <2>5, <2>6 DEF TypeOK
<1>2. PolledWhileOpen
  BY DEF Init, PolledWhileOpen
<1>3. Cable
  BY DEF Init, Cable
<1>4. Sound
  BY ZeroAndNone, DeviceBootValid DEF Init, Sound
<1>5. Life
  BY DEF Init, Life
<1>6. QED
  BY <1>1, <1>2, <1>3, <1>4, <1>5 DEF Typed, Inv

\* Nothing but the viewer's own state and the cable.
LEMMA TypedStep ==
  ASSUME Typed, [Next]_vars
  PROVE  Typed'
<1> USE DEF Typed, Inv
<1>1. CASE Connect
  <2> USE <1>1 DEF Connect
  <2>1. PICK opens \in BOOLEAN : Opened(opens)
    OBVIOUS
  <2>2. ~restoring /\ phase = "none"
    BY DEF PolledWhileOpen, Life
  <2>3. calls' \in 0..MaxCalls
    BY BoundAssumption DEF Call, TypeOK, BoundAssumption
  <2>4. TypeOK'
    BY <2>1, <2>3, OpenedIs, ResetLocalIs, ZeroAndNone DEF TypeOK, device
  <2>5. PolledWhileOpen'
    BY <2>1, <2>2, OpenedIs, ResetLocalIs DEF PolledWhileOpen
  <2>6. Cable'
    BY <2>1, OpenedIs, EmptyCable
  <2>7. Sound'
    BY <2>2, ResetLocalIs, ZeroAndNone DEF Sound, device
  <2>8. Life'
    BY <2>1, <2>2, OpenedIs, ResetLocalIs DEF Life
  <2>9. QED
    BY <2>4, <2>5, <2>6, <2>7, <2>8
<1>2. CASE Close
  <2> USE <1>2 DEF Close
  <2>1. TypeOK'
    BY UpdateIs DEF TypeOK, device, bounds
  <2>2. PolledWhileOpen'
    BY DEF PolledWhileOpen
  <2>3. Cable'
    BY EmptyCable DEF Cable
  <2>4. Sound'
    BY ZeroAndNone DEF Sound, device
  <2>5. Life'
    BY DEF Life
  <2>6. QED
    BY <2>1, <2>2, <2>3, <2>4, <2>5
<1>3. CASE Unplug
  <2> USE <1>3 DEF Unplug
  <2>1. calls' \in 0..MaxCalls
    BY BoundAssumption DEF Call, TypeOK, BoundAssumption
  <2>2. TypeOK'
    BY <2>1 DEF TypeOK, device, history
  <2>3. PolledWhileOpen'
    BY DEF PolledWhileOpen
  <2>4. Cable'
    BY EmptyCable DEF Cable
  <2>5. Sound'
    BY DEF Sound, device, history
  <2>6. Life'
    BY DEF Life
  <2>7. QED
    BY <2>2, <2>3, <2>4, <2>5, <2>6
<1>4. CASE PeriodicTimeout
  <2> USE <1>4 DEF PeriodicTimeout
  <2>1. toDevice' \in Seq(Message)
    <3>1. CASE open
      <4>1. Ask({"auto"}) \in Message /\ toDevice \in Seq(Message)
        BY KeySetsAre, AskIs DEF Cable
      <4>2. <<Ask({"auto"})>> \in Seq(Message) /\ Write(<<Ask({"auto"})>>)
        BY <3>1, <4>1, OneMessage
      <4>3. QED
        BY <4>1, <4>2, Writing
    <3>2. CASE ~open
      BY <3>2 DEF Cable
    <3>3. QED
      BY <3>1, <3>2
  <2>2. polling' \in BOOLEAN /\ (open => polling' = polling)
    BY DEF TypeOK
  <2>3. TypeOK'
    BY <2>2 DEF TypeOK, device, history, bounds
  <2>4. PolledWhileOpen'
    BY <2>2 DEF PolledWhileOpen
  <2>5. Cable'
    BY <2>1, SameReports
  <2>6. Sound' /\ Life'
    BY DEF Sound, Life, device, history
  <2>7. QED
    BY <2>3, <2>4, <2>5, <2>6
<1>5. CASE HandleMessage
  <2> USE <1>5 DEF HandleMessage
  <2>1. /\ class' \in [Configured -> Values]
        /\ \A k \in Configured : class'[k] = IF k \in DOMAIN toViewer[1] THEN toViewer[1][k]
                                                                         ELSE class[k]
    BY ReadingOne, MergedIs DEF TypeOK
  <2>2. /\ toViewer' \in Seq(Parts) /\ 1 \in 1..Len(toViewer)
        /\ \A i \in 1..Len(toViewer') : i + 1 \in 1..Len(toViewer) /\ toViewer'[i] = toViewer[i + 1]
    BY ReadingOne
  <2>3. \A k \in Configured : class'[k] = class[k] \/ class'[k] \in Valid(k)
    BY <2>1, <2>2 DEF Cable
  <2>4. srcId' = 1 /\ lastId' = 1
    BY DEF HandleMessagePrivate, SetLastPingConfiguration, Life, TypeOK
  <2>5. \/ UNCHANGED <<conf, restoring, toDevice>>
        \/ /\ conf' = Loaded /\ restoring'
           /\ toDevice' \in Seq(Message)
    <3>1. Ask(Profile) \in Message
      BY KeySetsAre, AskIs
    <3>2. \/ UNCHANGED <<conf, restoring, toDevice>>
          \/ conf' = Loaded /\ restoring' /\ Write(<<Ask(Profile)>>)
      BY DEF HandleMessagePrivate, SetLastPingConfiguration
    <3>3. QED
      BY <3>1, <3>2, OneMessage, Writing DEF Cable
  <2>6. conf' \in [Configured -> Values] /\ restoring' \in BOOLEAN
    BY <2>5, LoadedIs DEF TypeOK, SetLastPingConfiguration, HandleMessagePrivate
  <2>7. TypeOK'
    BY <2>1, <2>4, <2>6 DEF TypeOK, device, history, bounds
  <2>8. PolledWhileOpen'
    BY <2>4 DEF PolledWhileOpen
  <2>9. Cable'
    <3>1. toDevice' \in Seq(Message)
      BY <2>5 DEF Cable
    <3>2. \A i \in 1..Len(toViewer') : \A k \in DOMAIN toViewer'[i] : toViewer'[i][k] \in Valid(k)
      BY <2>2 DEF Cable
    <3>3. QED
      BY <2>2, <3>1, <3>2 DEF Cable
  <2>10. Sound'
    BY <2>3, <2>5, LoadedIs DEF Sound, device, history
  <2>11. Life'
    <3>1. ~restoring' => ~restoring /\ srcId = 1
      BY <2>4, <2>5 DEF HandleMessagePrivate, SetLastPingConfiguration, Life, TypeOK
    <3>2. ~restoring' /\ "interval" \in Configured => class'["interval"] # 0
      BY <2>3, <3>1, ValidValues DEF Life
    <3>3. QED
      BY <2>4, <3>2 DEF Life
  <2>12. QED
    BY <2>7, <2>8, <2>9, <2>10, <2>11
<1>6. CASE RestoreTimeout
  <2> USE <1>6 DEF RestoreTimeout
  <2>1. toDevice' \in Seq(Message)
    <3>1. CASE Differing = <<>>
      BY <3>1, DoIs, OneMessage, Writing DEF Cable
    <3>2. CASE Differing # <<>>
      <4> DEFINE K == {k \in Relevant(conf) : conf[k] # class[k]}
                 ms == [i \in DOMAIN Differing |-> Setter(Differing[i], conf[Differing[i]])]
      <4>1. K \in SUBSET Configured
        BY DEF Relevant
      <4>2. Differing \in Seq(K)
        BY <4>1, KeysIs DEF Differing
      <4>3. \A i \in 1..Len(Differing) : Differing[i] \in Configured
        BY <4>1, <4>2, ElementOfSeq
      <4>4. \A i \in 1..Len(Differing) : Setter(Differing[i], conf[Differing[i]]) \in Message
        BY <4>3, SetterIs DEF TypeOK
      <4>5. DOMAIN Differing = 1..Len(Differing) /\ Len(Differing) \in Nat
        BY <4>2, LenProperties
      <4>6. ms \in Seq(Message)
        BY <4>4, <4>5
      <4>7. QED
        BY <3>2, <4>6, Writing DEF Cable
    <3>3. QED
      BY <3>1, <3>2
  <2>2. restoring' \in BOOLEAN /\ (restoring' => restoring)
    BY DEF TypeOK
  <2>3. TypeOK'
    BY <2>2 DEF TypeOK, device, history, bounds
  <2>4. PolledWhileOpen'
    BY <2>2 DEF PolledWhileOpen
  <2>5. Cable'
    BY <2>1, SameReports
  <2>6. Sound'
    BY <2>2 DEF Sound, device, history
  <2>7. Life'
    <3>1. ASSUME ~restoring', "interval" \in Configured PROVE class["interval"] # 0
      <4> DEFINE K == {k \in Relevant(conf) : conf[k] # class[k]}
      <4>1. K \in SUBSET Configured
        BY DEF Relevant
      <4>2. Differing = <<>>
        BY <3>1
      <4>3. K = {}
        BY <4>1, <4>2, KeysIs DEF Differing
      <4>4. "interval" \in Relevant(conf)
        BY <3>1 DEF Relevant
      <4>5. conf["interval"] = class["interval"] /\ conf["interval"] \in Valid("interval")
        BY <3>1, <4>3, <4>4 DEF Sound
      <4>6. QED
        BY <4>5, ValidValues
    <3>2. QED
      BY <3>1 DEF Life
  <2>8. QED
    BY <2>3, <2>4, <2>5, <2>6, <2>7
<1>7. CASE UserSets
  <2> USE <1>7 DEF UserSets
  <2>1. toDevice' \in Seq(Message)
    <3>1. ASSUME NEW k \in Configured, NEW v \in Valid(k), Write(<<Setter(k, v)>>)
          PROVE  toDevice' \in Seq(Message)
      <4>1. Setter(k, v) \in Message
        BY <3>1, ValidValues, SetterIs DEF TypeOK
      <4>2. QED
        BY <3>1, <4>1, OneMessage, Writing DEF Cable
    <3>2. ASSUME NEW on \in BOOLEAN, Write(SetPingFrequency(on))
          PROVE  toDevice' \in Seq(Message)
      <4>1. ASSUME "interval" \in Configured PROVE Setter("interval", 2) \in Message
        BY <4>1, SetterIs DEF TypeOK, Values
      <4>2. Do("stop") \in Message /\ Do("start") \in Message
        BY DoIs
      <4>3. SetPingFrequency(on) \in Seq(Message)
        BY <4>1, <4>2, OneMessage, TwoMessages DEF SetPingFrequency
      <4>4. QED
        BY <3>2, <4>3, Writing DEF Cable
    <3>3. QED
      BY <3>1, <3>2
  <2>2. calls' \in 0..MaxCalls
    BY BoundAssumption DEF Call, TypeOK, BoundAssumption
  <2>3. TypeOK'
    BY <2>2, ZeroAndNone DEF TypeOK, viewer, device
  <2>4. PolledWhileOpen' /\ Life'
    BY DEF PolledWhileOpen, Life, viewer
  <2>5. Cable'
    BY <2>1, SameReports
  <2>6. Sound'
    BY ZeroAndNone DEF Sound, viewer, device
  <2>7. QED
    BY <2>3, <2>4, <2>5, <2>6
<1>8. CASE ResetSettings
  <2> USE <1>8 DEF ResetSettings
  <2> DEFINE reset == Entry("speed", Configured) \o Entry("auto", Configured)
                        \o Entry("interval", Configured) \o Entry("gain", Configured)
             ms == [i \in DOMAIN reset |-> Setter(reset[i], FirmwareDefault[reset[i]])]
  <2>1. toDevice' \in Seq(Message)
    <3> DEFINE R == Configured \cap {"interval", "speed", "auto", "gain"}
    <3>1. /\ Entry("speed", Configured) \in Seq(R) /\ Entry("auto", Configured) \in Seq(R)
          /\ Entry("interval", Configured) \in Seq(R) /\ Entry("gain", Configured) \in Seq(R)
      <4>1. \A k : k \in Configured => Entry(k, Configured) = <<k>>
        BY DEF Entry
      <4>2. \A k : k \notin Configured => Entry(k, Configured) = <<>>
        BY DEF Entry
      <4>3. \A k \in R : <<k>> \in Seq(R)
        OBVIOUS
      <4>4. <<>> \in Seq(R)
        OBVIOUS
      <4>5. \A k \in {"interval", "speed", "auto", "gain"} : Entry(k, Configured) \in Seq(R)
        BY <4>1, <4>2, <4>3, <4>4
      <4>6. QED
        BY <4>5
    <3>2. reset \in Seq(R)
      BY <3>1, ConcatProperties
    <3> HIDE DEF reset
    <3>3. \A i \in 1..Len(reset) : reset[i] \in R
      BY <3>2, ElementOfSeq
    <3>4. \A k \in R : FirmwareDefault[k] \in Values
      BY DEF FirmwareDefault, Values
    <3>5. \A i \in 1..Len(reset) : Setter(reset[i], FirmwareDefault[reset[i]]) \in Message
      BY <3>3, <3>4, SetterIs DEF TypeOK
    <3>6. DOMAIN reset = 1..Len(reset) /\ Len(reset) \in Nat
      BY <3>2, LenProperties
    <3>7. ms \in Seq(Message)
      BY <3>5, <3>6
    <3>8. Write(ms)
      BY DEF reset
    <3>9. QED
      BY <3>7, <3>8, Writing DEF Cable
  <2>2. calls' \in 0..MaxCalls
    BY BoundAssumption DEF Call, TypeOK, BoundAssumption
  <2>3. TypeOK'
    BY <2>2, ResetLocalIs, ZeroAndNone DEF TypeOK, device
  <2>4. PolledWhileOpen' /\ Life'
    BY ResetLocalIs DEF PolledWhileOpen, Life
  <2>5. Cable'
    BY <2>1, SameReports
  <2>6. Sound'
    BY ResetLocalIs, ZeroAndNone DEF Sound, device
  <2>7. QED
    BY <2>3, <2>4, <2>5, <2>6
<1>9. CASE Flash
  <2> USE <1>9 DEF Flash
  <2>1. toDevice' \in Seq(Message)
    <3>1. <<Do("stop"), Do("bootloader")>> \in Seq(Message)
      BY DoIs, TwoMessages
    <3>2. QED
      BY <3>1, Writing DEF Cable
  <2>2. calls' \in 0..MaxCalls
    BY BoundAssumption DEF Call, TypeOK, BoundAssumption
  <2>3. /\ phase' \in {"none", "closing"} /\ flasher' \in {"StartingFlash", "Error"}
        /\ phase' = "none" => polling' = polling
        /\ polling' \in BOOLEAN
    BY DEF TypeOK
  <2>4. dev \in [Configured -> -1..3]
    BY DEF TypeOK, Values
  <2>5. before' \in [Configured -> -1..3]
    BY <2>4, ZeroAndNone
  <2>6. TypeOK'
    BY <2>2, <2>3 DEF TypeOK, device
  <2>7. PolledWhileOpen' /\ Life'
    BY <2>3 DEF PolledWhileOpen, Life
  <2>8. Cable'
    BY <2>1, SameReports
  <2>9. Sound'
    BY <2>5 DEF Sound, device
  <2>10. QED
    BY <2>6, <2>7, <2>8, <2>9
<1>10. CASE FinishConnection
  <2> USE <1>10 DEF FinishConnection
  <2>1. TypeOK'
    BY UpdateIs DEF TypeOK, device, history, bounds
  <2>2. PolledWhileOpen'
    BY DEF PolledWhileOpen
  <2>3. Cable'
    BY EmptyCable DEF Cable
  <2>4. Sound'
    BY UpdateIs DEF Sound, device, history
  <2>5. Life'
    BY DEF Life
  <2>6. QED
    BY <2>1, <2>2, <2>3, <2>4, <2>5
<1>11. CASE StartProcess
  BY <1>11 DEF StartProcess, TypeOK, PolledWhileOpen, Cable, Sound, Life, device, history, bounds
<1>12. CASE ProcessPrintsError
  BY <1>12 DEF ProcessPrintsError, TypeOK, PolledWhileOpen, Cable, Sound, Life, device, history, bounds
<1>13. CASE ProcessEnds
  BY <1>13 DEF ProcessEnds, TypeOK, PolledWhileOpen, Cable, Sound, Life, device, history, bounds
<1>14. CASE ProcessFinishes
  <2> USE <1>14 DEF ProcessFinishes, ConnectAgain
  <2>1. PICK opens \in BOOLEAN : Opened(opens)
    OBVIOUS
  <2>2. alive
    BY DEF Life
  <2>3. TypeOK'
    <3>1. class' \in [Configured -> Values] /\ dev' \in [Configured -> Values]
      BY ResetLocalIs, DeviceBootValid
    <3>2. {alive, open, polling, restoring, streaming}' \subseteq BOOLEAN
      BY <2>1, OpenedIs DEF TypeOK
    <3>3. srcId' \in 0..1 /\ lastId' \in {-1, 1}
      BY ResetLocalIs
    <3>4. QED
      BY <3>1, <3>2, <3>3 DEF TypeOK, bounds
  <2>4. PolledWhileOpen' /\ Life'
    BY <2>1, <2>2, OpenedIs, ResetLocalIs DEF PolledWhileOpen, Life
  <2>5. Cable'
    BY <2>1, OpenedIs, EmptyCable
  <2>6. Sound'
    BY ResetLocalIs, DeviceBootValid DEF Sound
  <2>7. QED
    BY <2>3, <2>4, <2>5, <2>6
<1>15. CASE Serve
  <2> USE <1>15 DEF Serve
  <2> DEFINE m == Head(toDevice)
  <2>1. toDevice' \in Seq(Message) /\ m \in Message
    BY ServingOne
  <2> HIDE DEF m
  <2>2. PolledWhileOpen' /\ Life'
    BY DEF PolledWhileOpen, Life, viewer
  <2>3. CASE Ignore(m)
    <3>1. TypeOK'
      BY <2>3 DEF Ignore, TypeOK, viewer, device, bounds
    <3>2. Cable' /\ Sound'
      BY <2>1, <2>3, SameReports DEF Ignore, Sound, viewer, device
    <3>3. QED
      BY <2>2, <3>1, <3>2
  <2>4. CASE Obey(m)
    <3>1. m.set \in Parts /\ m.ask \in KeySets /\ m.ask \subseteq Configured
      BY <2>1 DEF Message, KeySets
    <3>2. dev' \in [Configured -> Values] /\ \A k \in Configured : dev'[k] \in Valid(k)
      BY <2>4, <3>1, MergedIs DEF Obey, Taken, TypeOK, Sound
    <3>3. mode' \in {"application", "bootloader"} /\ streaming' \in BOOLEAN
      BY <2>4 DEF Obey, TypeOK
    <3>4. TypeOK'
      BY <2>4, <3>2, <3>3 DEF Obey, TypeOK, viewer, bounds
    <3>5. Sound'
      BY <3>2 DEF Sound, viewer
    <3>6. CASE toViewer' = toViewer
      BY <2>1, <2>2, <3>4, <3>5, <3>6, SameReports
    <3>7. CASE toViewer' = Append(toViewer, [k \in m.ask |-> dev'[k]])
      <4> DEFINE f == [k \in m.ask |-> dev'[k]]
      <4>1. f \in [m.ask -> Values] /\ \A k \in DOMAIN f : f[k] \in Valid(k)
        BY <3>1, <3>2
      <4>2. f \in Parts
        BY <3>1, <4>1, PartMade
      <4> HIDE DEF f
      <4>3. /\ Len(toViewer) \in Nat /\ Len(toViewer') = Len(toViewer) + 1
            /\ toViewer' \in Seq(Parts)
            /\ toViewer'[Len(toViewer) + 1] = f
            /\ \A i \in 1..Len(toViewer) : toViewer'[i] = toViewer[i]
        BY <3>7, <4>2, ReportingOne DEF f
      <4>4. \A i \in 1..Len(toViewer') : i \in 1..Len(toViewer) \/ i = Len(toViewer) + 1
        BY <4>3
      <4>5. \A i \in 1..Len(toViewer') : \A k \in DOMAIN toViewer'[i] : toViewer'[i][k] \in Valid(k)
        BY <4>1, <4>3, <4>4 DEF Cable
      <4>6. Cable'
        BY <2>1, <4>3, <4>5 DEF Cable
      <4>7. QED
        BY <2>2, <3>4, <3>5, <4>6
    <3>8. QED
      BY <2>4, <3>6, <3>7 DEF Obey
  <2>5. QED
    BY <2>3, <2>4 DEF m
<1>16. CASE Stream
  <2> USE <1>16 DEF Stream
  <2> DEFINE f == [k \in Profile |-> dev[k]]
  <2>1. f \in [Profile -> Values] /\ \A k \in DOMAIN f : f[k] \in Valid(k)
    BY DEF Profile, TypeOK, Sound
  <2>2. f \in Parts
    BY <2>1, PartMade, KeySetsAre
  <2> HIDE DEF f
  <2>3. toViewer' \in Seq(Parts) /\ Len(toViewer') = 1 /\ toViewer'[1] = f
    BY <2>2 DEF f
  <2>4. Cable'
    BY <2>1, <2>3 DEF Cable
  <2>5. TypeOK' /\ PolledWhileOpen' /\ Sound' /\ Life'
    BY DEF TypeOK, PolledWhileOpen, Sound, Life, viewer, device, history, bounds
  <2>6. QED
    BY <2>4, <2>5
<1>17. CASE Adjust
  <2> USE <1>17 DEF Adjust
  <2>1. PICK v \in Valid("length") : dev' = [dev EXCEPT !["length"] = v]
    OBVIOUS
  <2>2. dev' \in [Configured -> Values] /\ \A k \in Configured : dev'[k] \in Valid(k)
    <3>1. v \in Values
      BY ValidValues
    <3>2. dev \in [Configured -> Values] /\ \A k \in Configured : dev[k] \in Valid(k)
      BY DEF TypeOK, Sound
    <3>3. QED
      BY <2>1, <3>1, <3>2
  <2>3. TypeOK'
    BY <2>2 DEF TypeOK, viewer, bounds
  <2>4. PolledWhileOpen' /\ Life' /\ Cable'
    BY DEF PolledWhileOpen, Life, Cable, viewer
  <2>5. Sound'
    BY <2>2 DEF Sound, viewer
  <2>6. QED
    BY <2>3, <2>4, <2>5
<1>18. CASE Lose
  <2> USE <1>18 DEF Lose
  <2>1. TypeOK' /\ PolledWhileOpen' /\ Sound' /\ Life'
    BY BoundAssumption DEF TypeOK, PolledWhileOpen, Sound, Life, viewer, device, BoundAssumption
  <2>2. CASE /\ toViewer # <<>>
             /\ toViewer' = Tail(toViewer)
             /\ UNCHANGED toDevice
    BY <2>1, <2>2, ReadingOne DEF Cable
  <2>3. CASE /\ toDevice # <<>>
             /\ \E part \in {[Head(toDevice) EXCEPT !.set = Nothing],
                             [Head(toDevice) EXCEPT !.ask = {}],
                             Do("nothing")} :
                   toDevice' = <<part>> \o Tail(toDevice)
             /\ UNCHANGED toViewer
    <3>1. PICK part \in {[Head(toDevice) EXCEPT !.set = Nothing],
                         [Head(toDevice) EXCEPT !.ask = {}], Do("nothing")} :
                toDevice' = <<part>> \o Tail(toDevice)
      BY <2>3
    <3>2. Head(toDevice) \in Message /\ Tail(toDevice) \in Seq(Message)
      BY <2>3, HeadTailProperties DEF Cable
    <3>3. part \in Message
      BY <3>2, NothingIs, DoIs DEF Message
    <3>4. toDevice' \in Seq(Message)
      BY <3>1, <3>2, <3>3, OneMessage, ConcatProperties
    <3>5. QED
      BY <2>1, <2>3, <3>4, SameReports
  <2>4. QED
    BY <2>2, <2>3
<1>19. CASE PowerCycle
  <2> USE <1>19 DEF PowerCycle
  <2>1. calls' \in 0..MaxCalls
    BY BoundAssumption DEF Call, TypeOK, BoundAssumption
  <2>2. TypeOK'
    BY <2>1, ZeroAndNone, DeviceBootValid DEF TypeOK, viewer
  <2>3. PolledWhileOpen' /\ Life' /\ Cable'
    BY DEF PolledWhileOpen, Life, Cable, viewer
  <2>4. Sound'
    BY ZeroAndNone, DeviceBootValid DEF Sound, viewer
  <2>5. QED
    BY <2>2, <2>3, <2>4
<1>20. CASE UNCHANGED vars
  BY <1>20 DEF vars, viewer, device, history, bounds, TypeOK, PolledWhileOpen, Cable, Sound, Life
<1>21. QED
  BY <1>1, <1>2, <1>3, <1>4, <1>5, <1>6, <1>7, <1>8, <1>9, <1>10, <1>11, <1>12, <1>13,
     <1>14, <1>15, <1>16, <1>17, <1>18, <1>19, <1>20 DEF Next

\* For any entries and any bounds the settings hold nothing but valid values of
\* a device, an open link is polled, and a restore serves a sensor that exists.
THEOREM StoredIsValid == Spec => []Inv
<1>1. Typed => Inv
  BY DEF Typed
<1>2. QED
  BY InitTyped, TypedStep, <1>1, PTL DEF Spec

-----------------------------------------------------------------------------
(* What the sensor knows of its device.                                    *)

\* What is written asks for what it sets; nothing else changes.
Honest(ms) == \A i \in 1..Len(ms) : DOMAIN ms[i].set \subseteq ms[i].ask

LEMMA OneHonest ==
  ASSUME NEW m \in Message, DOMAIN m.set \subseteq m.ask
  PROVE  Honest(<<m>>)
BY DEF Honest

LEMMA PlainMessages ==
  /\ \A K \in KeySets : DOMAIN Ask(K).set \subseteq Ask(K).ask
  /\ \A what \in {"nothing", "start", "stop", "bootloader"} : DOMAIN Do(what).set \subseteq Do(what).ask
BY AskIs, DoIs, NothingIs

LEMMA HonestSetters ==
  ASSUME class \in [Configured -> Values],
         NEW ks \in Seq(Configured), NEW g, \A i \in 1..Len(ks) : g[ks[i]] \in Values
  PROVE  LET ms == [i \in DOMAIN ks |-> Setter(ks[i], g[ks[i]])]
         IN  /\ ms \in Seq(Message) /\ Honest(ms) /\ Len(ms) = Len(ks)
             /\ \A i \in 1..Len(ks) : ms[i] = Setter(ks[i], g[ks[i]])
<1> DEFINE ms == [i \in DOMAIN ks |-> Setter(ks[i], g[ks[i]])]
<1>1. DOMAIN ks = 1..Len(ks) /\ Len(ks) \in Nat /\ \A i \in 1..Len(ks) : ks[i] \in Configured
  BY LenProperties, ElementOfSeq
<1>2. \A i \in 1..Len(ks) : ms[i] = Setter(ks[i], g[ks[i]])
  BY <1>1
<1>3. \A i \in 1..Len(ks) : ms[i] \in Message /\ DOMAIN ms[i].set \subseteq ms[i].ask
  <2>1. ASSUME NEW i \in 1..Len(ks) PROVE ms[i] \in Message /\ DOMAIN ms[i].set \subseteq ms[i].ask
    BY <1>1, <1>2, SetterIs
  <2>2. QED
    BY <2>1
<1>4. ms \in Seq(Message) /\ Len(ms) = Len(ks)
  <2>1. ms = [i \in 1..Len(ks) |-> ms[i]]
    BY <1>1
  <2> HIDE DEF ms
  <2>2. [i \in 1..Len(ks) |-> ms[i]] \in Seq(Message)
    BY <1>1, <1>3
  <2>3. DOMAIN ms = 1..Len(ks)
    BY <2>1
  <2>4. QED
    BY <1>1, <2>1, <2>2, <2>3, LenProperties
<1> HIDE DEF ms
<1>5. Honest(ms)
  BY <1>3, <1>4 DEF Honest
<1>6. QED
  BY <1>2, <1>4, <1>5 DEF ms

LEMMA StillAsked ==
  ASSUME Typed, NEW ms \in Seq(Message), Write(ms), NEW k, Asked(k)
  PROVE  Asked(k)'
<1>1. PICK i \in 1..Len(toDevice) : k \in toDevice[i].ask
  BY DEF Asked
<1>2. i \in 1..Len(toDevice') /\ toDevice'[i] = toDevice[i]
  BY <1>1, Writing, LenProperties DEF Typed, Cable
<1>3. QED
  BY <1>1, <1>2 DEF Asked

LEMMA NowAsked ==
  ASSUME Typed, open, NEW ms \in Seq(Message), Write(ms), NEW k,
         NEW i \in 1..Len(ms), k \in ms[i].ask
  PROVE  Asked(k)'
<1>1. /\ Len(toDevice') = Len(toDevice) + Len(ms)
      /\ \A j \in 1..Len(toDevice') : j > Len(toDevice) => toDevice'[j] = ms[j - Len(toDevice)]
  BY Writing DEF Typed, Cable
<1>2. Len(toDevice) \in Nat /\ Len(ms) \in Nat
  BY LenProperties DEF Typed, Cable
<1> DEFINE j == Len(toDevice) + i
<1>3. j \in 1..Len(toDevice') /\ j > Len(toDevice) /\ j - Len(toDevice) = i
  BY <1>1, <1>2
<1>4. toDevice'[j] = ms[i]
  BY <1>1, <1>3
<1>5. QED
  BY <1>3, <1>4 DEF Asked

LEMMA StillHonest ==
  ASSUME Typed, SetsAreAsked, NEW ms \in Seq(Message), Write(ms), Honest(ms)
  PROVE  SetsAreAsked'
<1>1. ASSUME NEW i \in 1..Len(toDevice') PROVE DOMAIN toDevice'[i].set \subseteq toDevice'[i].ask
  <2>1. Len(toDevice) \in Nat
    BY LenProperties DEF Typed, Cable
  <2>2. CASE i <= Len(toDevice)
    <3>1. i \in 1..Len(toDevice) /\ toDevice'[i] = toDevice[i]
      BY <2>1, <2>2, Writing DEF Typed, Cable
    <3>2. QED
      BY <3>1 DEF SetsAreAsked
  <2>3. CASE i > Len(toDevice)
    <3>1. i - Len(toDevice) \in 1..Len(ms) /\ toDevice'[i] = ms[i - Len(toDevice)]
      BY <2>3, Writing DEF Typed, Cable
    <3>2. QED
      BY <3>1 DEF Honest
  <2>4. QED
    BY <2>1, <2>2, <2>3
<1>2. QED
  BY <1>1 DEF SetsAreAsked

LEMMA InformedAfterWriting ==
  ASSUME Typed, Informed, NEW ms \in Seq(Message), Write(ms), Honest(ms),
         UNCHANGED <<open, toViewer, class, dev, srcId, excuse>>
  PROVE  Informed'
<1>1. SUFFICES ASSUME open, excuse \cap {"lost", "rebooted", "ignored"} = {}
               PROVE  SetsAreAsked' /\ \A k \in Configured : Known(k)' => Announced(k)'
  BY DEF Informed
<1>2. SetsAreAsked /\ \A k \in Configured : Known(k) => Announced(k)
  BY <1>1 DEF Informed
<1>3. SetsAreAsked'
  BY <1>2, StillHonest
<1>4. ASSUME NEW k \in Configured, Known(k)' PROVE Announced(k)'
  <2>1. Known(k)
    BY <1>4 DEF Known, Reported
  <2>2. Announced(k)
    BY <1>2, <2>1
  <2>3. CASE Asked(k)
    BY <2>3, StillAsked DEF Announced
  <2>4. CASE Told(k) \/ Held(k)
    BY <2>4 DEF Announced, Told, Held, LastOf, Reported
  <2>5. QED
    BY <2>2, <2>3, <2>4 DEF Announced
<1>5. QED
  BY <1>3, <1>4

\* A new connection asks for all but the interval.
LEMMA InformedAfterOpening ==
  ASSUME NEW opens \in BOOLEAN, Opened(opens), ResetLocal
  PROVE  Informed'
<1>1. SUFFICES ASSUME opens
               PROVE  SetsAreAsked' /\ \A k \in Configured : Known(k)' => Announced(k)'
  BY OpenedIs DEF Informed
<1>2. toDevice' = PreConfiguration /\ toViewer' = <<>>
  BY <1>1, OpenedIs
<1>3. \A i \in 1..Len(PreConfiguration) : i \in {1, 2, 3} /\ (i = 3 => Len(PreConfiguration) = 3)
  <2>1. ASSUME NEW n \in 2..3, NEW i \in 1..n PROVE i \in {1, 2, 3} /\ (i = 3 => n = 3)
    OBVIOUS
  <2>2. QED
    BY <2>1, PreConfigurationIs
<1>4. Ask({"auto"}).set = Nothing /\ Ask(Profile).set = Nothing
       /\ ("speed" \in Configured => Ask({"speed"}).set = Nothing)
  BY KeySetsAre, AskIs
<1>5. SetsAreAsked'
  <2>1. \A i \in 1..Len(PreConfiguration) :
           PreConfiguration[i] \in {Ask({"auto"}), Ask(Profile), Ask({"speed"})}
    BY <1>3, PreConfigurationIs
  <2>2. Ask({"speed"}).set = Nothing
    BY DEF Ask
  <2>3. \A i \in 1..Len(PreConfiguration) : PreConfiguration[i].set = Nothing
    BY <1>4, <2>1, <2>2
  <2>4. QED
    BY <1>2, <2>3, NothingIs DEF SetsAreAsked
<1>6. ASSUME NEW k \in Configured, Known(k)' PROVE Announced(k)'
  <2>1. k \notin Profile
    BY <1>6, ResetLocalIs DEF Known
  <2>2. k # "interval"
    <3>1. ~Reported(k)'
      BY <1>2 DEF Reported
    <3>2. QED
      BY <1>6, <3>1, ResetLocalIs DEF Known
  <2>3. k \in {"auto", "speed"}
    BY <2>1, <2>2, Entries DEF Profile
  <2>4. CASE k = "auto"
    <3>1. 1 \in 1..Len(PreConfiguration) /\ k \in PreConfiguration[1].ask
      BY <2>4, PreConfigurationIs, AskIs, KeySetsAre
    <3>2. QED
      BY <1>2, <3>1 DEF Announced, Asked
  <2>5. CASE k = "speed"
    <3>1. 3 \in 1..Len(PreConfiguration) /\ k \in PreConfiguration[3].ask
      BY <1>6, <2>5, PreConfigurationIs, AskIs, KeySetsAre
    <3>2. QED
      BY <1>2, <3>1 DEF Announced, Asked
  <2>6. QED
    BY <2>3, <2>4, <2>5
<1>7. QED
  BY <1>5, <1>6

LEMMA DifferingIs ==
  ASSUME Typed
  PROVE  /\ Differing \in Seq(Configured)
         /\ \A i \in 1..Len(Differing) :
              /\ Differing[i] \in Relevant(conf)
              /\ conf[Differing[i]] # class[Differing[i]]
              /\ conf[Differing[i]] \in Values
         /\ Differing = <<>> => \A k \in Relevant(conf) : conf[k] = class[k]
<1> DEFINE K == {k \in Relevant(conf) : conf[k] # class[k]}
<1>1. K \in SUBSET Configured
  BY DEF Relevant
<1>2. Differing \in Seq(K) /\ (Differing = <<>> => K = {})
  BY <1>1, KeysIs DEF Differing
<1>3. \A i \in 1..Len(Differing) : Differing[i] \in K
  BY <1>2, ElementOfSeq
<1>4. \A k \in Configured : conf[k] \in Values
  BY DEF Typed, Inv, TypeOK
<1>5. Differing \in Seq(Configured)
  BY <1>1, <1>2, SeqMonotonic
<1>6. QED
  BY <1>1, <1>2, <1>3, <1>4, <1>5

LEMMA ResetIs ==
  LET reset == Entry("speed", Configured) \o Entry("auto", Configured)
                 \o Entry("interval", Configured) \o Entry("gain", Configured)
  IN  /\ reset \in Seq(Configured)
      /\ \A i \in 1..Len(reset) : FirmwareDefault[reset[i]] \in Values
      /\ \A k \in Configured \cap {"speed", "auto", "interval"} : \E i \in 1..Len(reset) : reset[i] = k
<1> DEFINE a == Entry("speed", Configured)
           b == Entry("auto", Configured)
           c == Entry("interval", Configured)
           d == Entry("gain", Configured)
           R == Configured \cap {"interval", "speed", "auto", "gain"}
<1>1. a \in Seq(R) /\ b \in Seq(R) /\ c \in Seq(R) /\ d \in Seq(R)
  <2>1. \A k : k \in Configured => Entry(k, Configured) = <<k>>
    BY DEF Entry
  <2>2. \A k : k \notin Configured => Entry(k, Configured) = <<>>
    BY DEF Entry
  <2>3. \A k \in R : <<k>> \in Seq(R)
    OBVIOUS
  <2>4. <<>> \in Seq(R)
    OBVIOUS
  <2>5. \A k \in {"interval", "speed", "auto", "gain"} : Entry(k, Configured) \in Seq(R)
    BY <2>1, <2>2, <2>3, <2>4
  <2>6. QED
    BY <2>5
<1>2. /\ "speed" \in Configured => Len(a) = 1 /\ a[1] = "speed"
      /\ "auto" \in Configured => Len(b) = 1 /\ b[1] = "auto"
      /\ "interval" \in Configured => Len(c) = 1 /\ c[1] = "interval"
  BY DEF Entry
<1> HIDE DEF a, b, c, d
<1>3. Len(a) \in Nat /\ Len(b) \in Nat /\ Len(c) \in Nat /\ Len(d) \in Nat
  BY <1>1, LenProperties
<1>4. /\ a \o b \in Seq(R) /\ Len(a \o b) = Len(a) + Len(b)
      /\ \A i \in 1..Len(a) + Len(b) : (a \o b)[i] = IF i <= Len(a) THEN a[i] ELSE b[i - Len(a)]
  BY <1>1, ConcatProperties
<1> DEFINE e == a \o b
<1> HIDE DEF e
<1>5. /\ e \o c \in Seq(R) /\ Len(e \o c) = Len(e) + Len(c)
      /\ \A i \in 1..Len(e) + Len(c) : (e \o c)[i] = IF i <= Len(e) THEN e[i] ELSE c[i - Len(e)]
  BY <1>1, <1>4, ConcatProperties DEF e
<1> DEFINE f == e \o c
<1> HIDE DEF f
<1>6. /\ f \o d \in Seq(R) /\ Len(f \o d) = Len(f) + Len(d)
      /\ \A i \in 1..Len(f) + Len(d) : (f \o d)[i] = IF i <= Len(f) THEN f[i] ELSE d[i - Len(f)]
  BY <1>1, <1>5, ConcatProperties DEF f
<1> DEFINE reset == f \o d
<1> HIDE DEF reset
<1>7. ASSUME NEW k \in Configured \cap {"speed", "auto", "interval"}
      PROVE  \E i \in 1..Len(reset) : reset[i] = k
  <2>1. Len(e) = Len(a) + Len(b) /\ Len(f) = Len(e) + Len(c) /\ Len(reset) = Len(f) + Len(d)
    BY <1>4, <1>5, <1>6 DEF e, f, reset
  <2>2. CASE k = "speed"
    <3>1. Len(a) = 1 /\ a[1] = k
      BY <1>2, <2>2
    <3>2. e[1] = a[1]
      BY <1>3, <1>4, <3>1 DEF e
    <3>3. f[1] = e[1]
      BY <1>3, <1>5, <2>1, <3>1 DEF f
    <3>4. reset[1] = f[1] /\ 1 \in 1..Len(reset)
      BY <1>3, <1>6, <2>1, <3>1 DEF reset
    <3>5. QED
      BY <3>1, <3>2, <3>3, <3>4
  <2>3. CASE k = "auto"
    <3> DEFINE i == Len(a) + 1
    <3>1. Len(b) = 1 /\ b[1] = k
      BY <1>2, <2>3
    <3>2. e[i] = b[1]
      BY <1>3, <1>4, <3>1 DEF e
    <3>3. f[i] = e[i]
      BY <1>3, <1>5, <2>1, <3>1 DEF f
    <3>4. reset[i] = f[i] /\ i \in 1..Len(reset)
      BY <1>3, <1>6, <2>1, <3>1 DEF reset
    <3>5. QED
      BY <3>1, <3>2, <3>3, <3>4
  <2>4. CASE k = "interval"
    <3> DEFINE i == Len(e) + 1
    <3>1. Len(c) = 1 /\ c[1] = k
      BY <1>2, <2>4
    <3>2. f[i] = c[1]
      BY <1>3, <1>5, <2>1, <3>1 DEF f
    <3>3. reset[i] = f[i] /\ i \in 1..Len(reset)
      BY <1>3, <1>6, <2>1, <3>1 DEF reset
    <3>4. QED
      BY <3>1, <3>2, <3>3
  <2>5. QED
    BY <2>2, <2>3, <2>4
<1>8. reset \in Seq(R) /\ \A i \in 1..Len(reset) : reset[i] \in R
  BY <1>6, ElementOfSeq DEF reset
<1>9. \A k \in R : FirmwareDefault[k] \in Values
  BY DEF FirmwareDefault, Values
<1>10. reset \in Seq(Configured)
  BY <1>8, SeqMonotonic
<1>11. reset = Entry("speed", Configured) \o Entry("auto", Configured)
                 \o Entry("interval", Configured) \o Entry("gain", Configured)
  BY DEF reset, f, e, d, c, b, a
<1>12. QED
  BY <1>7, <1>8, <1>9, <1>10, <1>11

LEMMA InitInformed == Init => Informed
BY DEF Init, Informed

LEMMA InformedStep ==
  ASSUME Typed, Informed, [Next]_vars
  PROVE  Informed'
<1>1. CASE Connect
  BY <1>1, InformedAfterOpening DEF Connect
<1>2. CASE Close \/ Unplug \/ FinishConnection
  BY <1>2 DEF Close, Unplug, FinishConnection, Informed
<1>3. CASE PeriodicTimeout
  <2>1. CASE open
    <3>1. Ask({"auto"}) \in Message /\ DOMAIN Ask({"auto"}).set \subseteq Ask({"auto"}).ask
      BY KeySetsAre, AskIs, NothingIs
    <3>2. Write(<<Ask({"auto"})>>) /\ UNCHANGED <<open, toViewer, class, dev, srcId, excuse>>
      BY <1>3, <2>1 DEF PeriodicTimeout, device, history
    <3>3. QED
      BY <3>1, <3>2, OneMessage, OneHonest, InformedAfterWriting
  <2>2. CASE ~open
    BY <1>3, <2>2 DEF PeriodicTimeout, Informed
  <2>3. QED
    BY <2>1, <2>2
<1>4. CASE HandleMessage
  <2> USE <1>4 DEF HandleMessage, history
  <2>1. SUFFICES ASSUME open, excuse \cap {"lost", "rebooted", "ignored"} = {}
                 PROVE  SetsAreAsked' /\ \A k \in Configured : Known(k)' => Announced(k)'
    BY DEF Informed
  <2>2. SetsAreAsked /\ \A k \in Configured : Known(k) => Announced(k)
    BY <2>1 DEF Informed
  <2>3. Ask(Profile) \in Message /\ DOMAIN Ask(Profile).set \subseteq Ask(Profile).ask
         /\ Ask(Profile).ask = Profile
    BY KeySetsAre, AskIs, NothingIs
  <2>4. \/ UNCHANGED toDevice /\ srcId = 1
        \/ Write(<<Ask(Profile)>>)
    BY DEF HandleMessagePrivate, SetLastPingConfiguration, Typed, Life
  <2>5. SetsAreAsked'
    <3>1. CASE UNCHANGED toDevice
      BY <2>2, <3>1 DEF SetsAreAsked
    <3>2. CASE Write(<<Ask(Profile)>>)
      BY <2>2, <2>3, <3>2, OneMessage, OneHonest, StillHonest
    <3>3. QED
      BY <2>4, <3>1, <3>2
  <2>6. /\ Len(toViewer) \in Nat /\ 1 \in 1..Len(toViewer) /\ Len(toViewer') = Len(toViewer) - 1
        /\ \A i \in 1..Len(toViewer') : i + 1 \in 1..Len(toViewer) /\ toViewer'[i] = toViewer[i + 1]
    BY ReadingOne DEF Typed
  <2>7. \A k \in Configured : class'[k] = IF k \in DOMAIN toViewer[1] THEN toViewer[1][k]
                                                                      ELSE class[k]
    BY ReadingOne, MergedIs DEF Typed, Inv, TypeOK
  <2>8. ASSUME NEW k, Asked(k) PROVE Asked(k)'
    <3>1. CASE UNCHANGED toDevice
      BY <2>8, <3>1 DEF Asked
    <3>2. CASE Write(<<Ask(Profile)>>)
      BY <2>3, <2>8, <3>2, OneMessage, StillAsked
    <3>3. QED
      BY <2>4, <3>1, <3>2
  <2>9. ASSUME NEW k \in Configured, Known(k)' PROVE Announced(k)'
    <3>1. CASE k \in Profile /\ srcId # 1
      <4>1. Write(<<Ask(Profile)>>)
        BY <2>4, <3>1
      <4>2. <<Ask(Profile)>> \in Seq(Message) /\ 1 \in 1..Len(<<Ask(Profile)>>)
             /\ k \in <<Ask(Profile)>>[1].ask
        BY <2>3, <3>1, OneMessage
      <4>3. QED
        BY <2>1, <4>1, <4>2, NowAsked DEF Announced
    <3>2. CASE ~(k \in Profile /\ srcId # 1)
      <4>1. Known(k)
        <5>1. k \in Profile => srcId = 1 /\ "adjusted" \notin excuse
          BY <2>9, <3>2 DEF Known, history
        <5>2. ASSUME class'[k] # 0 \/ Reported(k)' PROVE class[k] # 0 \/ Reported(k)
          <6>1. CASE Reported(k)'
            BY <2>6, <6>1 DEF Reported
          <6>2. CASE class'[k] # 0
            BY <2>6, <2>7, <6>2 DEF Reported
          <6>3. QED
            BY <5>2, <6>1, <6>2
        <5>3. QED
          BY <2>9, <5>1, <5>2 DEF Known
      <4>2. CASE Asked(k)
        BY <2>8, <4>2 DEF Announced
      <4>3. CASE Told(k)
        <5>1. PICK i \in 1..Len(toViewer) : LastOf(k, i) /\ toViewer[i][k] = dev[k]
          BY <4>3 DEF Told
        <5>2. CASE i = 1
          <6>1. class'[k] = dev[k]
            BY <2>7, <5>1, <5>2 DEF LastOf
          <6>2. ~Reported(k)'
            BY <2>6, <5>1, <5>2 DEF LastOf, Reported
          <6>3. QED
            BY <6>1, <6>2 DEF Announced, Held, device
        <5>3. CASE i # 1
          <6>1. i - 1 \in 1..Len(toViewer') /\ toViewer'[i - 1] = toViewer[i]
            BY <2>6, <5>3
          <6>2. LastOf(k, i - 1)'
            BY <2>6, <5>1, <6>1 DEF LastOf
          <6>3. QED
            BY <5>1, <6>1, <6>2 DEF Announced, Told, device
        <5>4. QED
          BY <5>2, <5>3
      <4>4. CASE Held(k)
        <5>1. class'[k] = class[k]
          BY <2>6, <2>7, <4>4 DEF Held, Reported
        <5>2. ~Reported(k)'
          BY <2>6, <4>4 DEF Held, Reported
        <5>3. QED
          BY <4>4, <5>1, <5>2 DEF Announced, Held, device
      <4>5. QED
        BY <2>2, <4>1, <4>2, <4>3, <4>4 DEF Announced
    <3>3. QED
      BY <3>1, <3>2
  <2>10. QED
    BY <2>5, <2>9
<1>5. CASE RestoreTimeout
  <2> USE <1>5 DEF RestoreTimeout
  <2>1. UNCHANGED <<open, toViewer, class, dev, srcId, excuse>>
    BY DEF device, history
  <2>2. CASE Differing = <<>>
    BY <2>1, <2>2, DoIs, PlainMessages, OneMessage, OneHonest, InformedAfterWriting
  <2>3. CASE Differing # <<>>
    <3> DEFINE ms == [i \in DOMAIN Differing |-> Setter(Differing[i], conf[Differing[i]])]
    <3>1. /\ Differing \in Seq(Configured)
          /\ \A i \in 1..Len(Differing) : conf[Differing[i]] \in Values
      BY DifferingIs
    <3>2. class \in [Configured -> Values]
      BY DEF Typed, Inv, TypeOK
    <3>3. ms \in Seq(Message) /\ Honest(ms)
      BY <3>1, <3>2, HonestSetters
    <3>4. Write(ms)
      BY <2>3
    <3>5. QED
      BY <2>1, <3>3, <3>4, InformedAfterWriting
  <2>4. QED
    BY <2>2, <2>3
<1>6. CASE UserSets
  <2> USE <1>6 DEF UserSets
  <2>1. UNCHANGED <<open, toViewer, class, dev, srcId, excuse>>
    BY DEF viewer, device
  <2>2. class \in [Configured -> Values]
    BY DEF Typed, Inv, TypeOK
  <2>3. ASSUME NEW k \in Configured, NEW v \in Valid(k), Write(<<Setter(k, v)>>)
        PROVE  Informed'
    <3>1. Setter(k, v) \in Message /\ DOMAIN Setter(k, v).set \subseteq Setter(k, v).ask
      BY <2>2, <2>3, ValidValues, SetterIs
    <3>2. QED
      BY <2>1, <2>3, <3>1, OneMessage, OneHonest, InformedAfterWriting
  <2>4. ASSUME NEW on \in BOOLEAN, Write(SetPingFrequency(on))
        PROVE  Informed'
    <3>1. CASE SetPingFrequency(on) \in {<<Do("stop")>>, <<Do("start")>>}
      BY <2>1, <2>4, <3>1, DoIs, PlainMessages, OneMessage, OneHonest, InformedAfterWriting
    <3>2. CASE /\ "interval" \in Configured
               /\ SetPingFrequency(on) = <<Setter("interval", 2), Do("start")>>
      <4> DEFINE m == Setter("interval", 2)
      <4>1. m \in Message /\ DOMAIN m.set \subseteq m.ask
        BY <2>2, <3>2, SetterIs DEF Values
      <4>2. Do("start") \in Message /\ DOMAIN Do("start").set \subseteq Do("start").ask
        BY DoIs, PlainMessages
      <4> HIDE DEF m
      <4>3. <<m, Do("start")>> \in Seq(Message) /\ Honest(<<m, Do("start")>>)
        BY <4>1, <4>2, TwoMessages DEF Honest
      <4>4. Write(<<m, Do("start")>>)
        BY <2>4, <3>2 DEF m
      <4>5. QED
        BY <2>1, <4>3, <4>4, InformedAfterWriting
    <3>3. QED
      BY <3>1, <3>2 DEF SetPingFrequency
  <2>5. QED
    BY <2>3, <2>4
<1>7. CASE ResetSettings
  <2> USE <1>7 DEF ResetSettings
  <2>0. UNCHANGED <<open, excuse>>
    OBVIOUS
  <2>1. SUFFICES ASSUME open, excuse \cap {"lost", "rebooted", "ignored"} = {}
                 PROVE  SetsAreAsked' /\ \A k \in Configured : Known(k)' => Announced(k)'
    BY <2>0 DEF Informed
  <2> DEFINE reset == Entry("speed", Configured) \o Entry("auto", Configured)
                        \o Entry("interval", Configured) \o Entry("gain", Configured)
             ms == [i \in DOMAIN reset |-> Setter(reset[i], FirmwareDefault[reset[i]])]
  <2>2. SetsAreAsked
    BY <2>1 DEF Informed
  <2>3. Write(ms)
    OBVIOUS
  <2>4. class \in [Configured -> Values]
    BY DEF Typed, Inv, TypeOK
  <2>5. /\ reset \in Seq(Configured)
        /\ \A i \in 1..Len(reset) : FirmwareDefault[reset[i]] \in Values
        /\ \A k \in Configured \cap {"speed", "auto", "interval"} : \E i \in 1..Len(reset) : reset[i] = k
    BY ResetIs
  <2> HIDE DEF reset
  <2>6. /\ ms \in Seq(Message) /\ Honest(ms) /\ Len(ms) = Len(reset)
        /\ \A i \in 1..Len(reset) : ms[i] = Setter(reset[i], FirmwareDefault[reset[i]])
    BY <2>4, <2>5, HonestSetters
  <2> HIDE DEF ms
  <2>7. SetsAreAsked'
    BY <2>2, <2>3, <2>6, StillHonest
  <2>8. ASSUME NEW k \in Configured, Known(k)' PROVE Announced(k)'
    <3>1. k \in {"speed", "auto", "interval"}
      BY <2>8, Entries, ResetLocalIs DEF Known, Profile
    <3>2. PICK i \in 1..Len(reset) : reset[i] = k
      BY <2>5, <3>1
    <3>3. i \in 1..Len(ms) /\ ms[i] = Setter(k, FirmwareDefault[k])
      BY <2>6, <3>2
    <3>4. FirmwareDefault[k] \in Values
      BY <2>5, <3>2
    <3>5. k \in ms[i].ask
      <4>1. Setter(k, FirmwareDefault[k]).ask = Together(k)
        BY <2>4, <3>4, SetterIs
      <4>2. k \in Together(k)
        BY DEF Together
      <4>3. QED
        BY <3>3, <4>1, <4>2
    <3>6. QED
      BY <2>1, <2>3, <2>6, <3>3, <3>5, NowAsked DEF Announced
  <2>9. QED
    BY <2>7, <2>8
<1>8. CASE Flash
  <2> USE <1>8 DEF Flash
  <2>1. CASE Write(<<Do("stop"), Do("bootloader")>>)
    <3>1. UNCHANGED <<open, toViewer, class, dev, srcId, excuse>>
      BY DEF device
    <3>2. /\ Do("stop") \in Message /\ DOMAIN Do("stop").set \subseteq Do("stop").ask
          /\ Do("bootloader") \in Message /\ DOMAIN Do("bootloader").set \subseteq Do("bootloader").ask
      BY DoIs, PlainMessages
    <3>3. <<Do("stop"), Do("bootloader")>> \in Seq(Message) /\ Honest(<<Do("stop"), Do("bootloader")>>)
      BY <3>2, TwoMessages DEF Honest
    <3>4. QED
      BY <2>1, <3>1, <3>3, InformedAfterWriting
  <2>2. CASE UNCHANGED toDevice
    BY <2>2 DEF device, Informed, SetsAreAsked, Known, Announced, Asked, Told, Held, LastOf, Reported
  <2>3. QED
    BY <2>1, <2>2
<1>9. CASE StartProcess \/ ProcessPrintsError \/ ProcessEnds \/ UNCHANGED vars
  <2>1. UNCHANGED <<open, toDevice, toViewer, class, dev, srcId, excuse>>
    BY <1>9 DEF StartProcess, ProcessPrintsError, ProcessEnds, vars, viewer, device, history
  <2>2. QED
    BY <2>1 DEF Informed, SetsAreAsked, Known, Announced, Asked, Told, Held, LastOf, Reported
<1>10. CASE ProcessFinishes
  BY <1>10, InformedAfterOpening DEF ProcessFinishes, ConnectAgain
<1>11. CASE Serve
  <2> USE <1>11 DEF Serve
  <2>1. SUFFICES ASSUME open, excuse' \cap {"lost", "rebooted", "ignored"} = {}
                 PROVE  SetsAreAsked' /\ \A k \in Configured : Known(k)' => Announced(k)'
    BY DEF Informed, viewer
  <2>2. excuse \subseteq excuse'
    BY DEF Ignore, Obey
  <2>3. SetsAreAsked /\ \A k \in Configured : Known(k) => Announced(k)
    BY <2>1, <2>2 DEF Informed
  <2> DEFINE m == Head(toDevice)
  <2>4. /\ Len(toDevice) \in Nat /\ 1 \in 1..Len(toDevice) /\ Len(toDevice') = Len(toDevice) - 1
        /\ m \in Message /\ m = toDevice[1]
        /\ \A i \in 1..Len(toDevice') : i + 1 \in 1..Len(toDevice) /\ toDevice'[i] = toDevice[i + 1]
    BY ServingOne DEF Typed
  <2>5. Ignore(m) \/ Obey(m)
    OBVIOUS
  <2> HIDE DEF m
  <2>6. DOMAIN m.set \subseteq m.ask
    BY <2>3, <2>4 DEF SetsAreAsked
  <2>7. SetsAreAsked'
    BY <2>3, <2>4 DEF SetsAreAsked
  <2>8. ASSUME NEW k, Asked(k), k \notin m.ask PROVE Asked(k)'
    <3>1. PICK i \in 1..Len(toDevice) : k \in toDevice[i].ask
      BY <2>8 DEF Asked
    <3>2. i # 1
      BY <2>4, <2>8, <3>1
    <3>3. i - 1 \in 1..Len(toDevice') /\ toDevice'[i - 1] = toDevice[i]
      BY <2>4, <3>2
    <3>4. QED
      BY <3>1, <3>3 DEF Asked
  <2>9. ASSUME NEW k \in Configured, Known(k)' PROVE Announced(k)'
    <3>1. CASE Ignore(m)
      <4>1. m.ask = {} /\ UNCHANGED <<toViewer, dev, class, srcId>>
        BY <2>1, <3>1 DEF Ignore, device, viewer
      <4>2. Known(k)
        BY <2>2, <2>9, <4>1 DEF Known, Reported
      <4>3. CASE Asked(k)
        BY <2>8, <4>1, <4>3 DEF Announced
      <4>4. CASE Told(k) \/ Held(k)
        BY <4>1, <4>4 DEF Announced, Told, Held, LastOf, Reported
      <4>5. QED
        BY <2>3, <4>2, <4>3, <4>4 DEF Announced
    <3>2. CASE Obey(m)
      <4>1. /\ dev' = Taken(m.set) /\ UNCHANGED <<class, srcId, excuse>>
            /\ toViewer' = IF m.ask = {} \/ ~open THEN toViewer
                             ELSE Append(toViewer, [j \in m.ask |-> dev'[j]])
        BY <3>2 DEF Obey, viewer
      <4>2. m.set \in Parts /\ m.ask \in KeySets /\ m.ask \subseteq Configured
        BY <2>4 DEF Message, KeySets
      <4>3. \A j \in Configured : j \notin m.ask => dev'[j] = dev[j]
        BY <2>6, <4>1, <4>2, MergedIs DEF Taken, Typed, Inv, TypeOK
      <4>4. CASE m.ask = {}
        <5>1. UNCHANGED toViewer /\ dev'[k] = dev[k]
          BY <4>1, <4>3, <4>4
        <5>2. Known(k)
          BY <2>9, <4>1, <5>1 DEF Known, Reported
        <5>3. CASE Asked(k)
          BY <2>8, <4>4, <5>3 DEF Announced
        <5>4. CASE Told(k) \/ Held(k)
          BY <4>1, <5>1, <5>4 DEF Announced, Told, Held, LastOf, Reported
        <5>5. QED
          BY <2>3, <5>2, <5>3, <5>4 DEF Announced
      <4>5. CASE m.ask # {}
        <5> DEFINE f == [j \in m.ask |-> dev'[j]]
        <5>1. f \in Parts
          <6>1. dev' \in [Configured -> Values]
            BY TypedStep DEF Next, Typed, Inv, TypeOK
          <6>2. f \in [m.ask -> Values]
            BY <4>2, <6>1
          <6>3. QED
            BY <4>2, <6>2, PartMade
        <5>2. toViewer' = Append(toViewer, f)
          BY <2>1, <4>1, <4>5
        <5>3. DOMAIN f = m.ask /\ \A j \in m.ask : f[j] = dev'[j]
          OBVIOUS
        <5> HIDE DEF f
        <5>. PICK n \in Nat : n = Len(toViewer) + 1
          BY <5>1, <5>2, ReportingOne DEF Typed
        <5>4. /\ Len(toViewer) \in Nat /\ Len(toViewer') = n /\ toViewer'[n] = f
              /\ \A i \in 1..Len(toViewer) : toViewer'[i] = toViewer[i]
          BY <5>1, <5>2, ReportingOne DEF Typed
        <5>5. CASE k \in m.ask
          <6>1. LastOf(k, n)' /\ n \in 1..Len(toViewer')
            BY <5>3, <5>4, <5>5 DEF LastOf
          <6>2. toViewer'[n][k] = dev'[k]
            BY <5>3, <5>4, <5>5
          <6>3. QED
            BY <6>1, <6>2 DEF Announced, Told
        <5>6. CASE k \notin m.ask
          <6>1. Reported(k)' <=> Reported(k)
            BY <5>3, <5>4, <5>6 DEF Reported
          <6>2. Known(k)
            BY <2>9, <4>1, <6>1 DEF Known
          <6>3. dev'[k] = dev[k]
            BY <4>3, <5>6
          <6>4. CASE Asked(k)
            BY <2>8, <5>6, <6>4 DEF Announced
          <6>5. CASE Told(k)
            <7>1. PICK i \in 1..Len(toViewer) : LastOf(k, i) /\ toViewer[i][k] = dev[k]
              BY <6>5 DEF Told
            <7>2. i \in 1..Len(toViewer') /\ toViewer'[i] = toViewer[i]
              BY <5>4
            <7>3. \A j \in 1..Len(toViewer') : j > i => k \notin DOMAIN toViewer'[j]
              BY <5>3, <5>4, <5>6, <7>1 DEF LastOf
            <7>4. LastOf(k, i)'
              BY <7>1, <7>2, <7>3 DEF LastOf
            <7>5. QED
              BY <6>3, <7>1, <7>2, <7>4 DEF Announced, Told
          <6>6. CASE Held(k)
            BY <4>1, <6>1, <6>3, <6>6 DEF Announced, Held
          <6>7. QED
            BY <2>3, <6>2, <6>4, <6>5, <6>6 DEF Announced
        <5>7. QED
          BY <5>5, <5>6
      <4>6. QED
        BY <4>4, <4>5
    <3>3. QED
      BY <2>5, <3>1, <3>2
  <2>10. QED
    BY <2>7, <2>9
<1>12. CASE Stream
  <2> USE <1>12 DEF Stream
  <2>1. SUFFICES ASSUME open, excuse \cap {"lost", "rebooted", "ignored"} = {}
                 PROVE  SetsAreAsked' /\ \A k \in Configured : Known(k)' => Announced(k)'
    BY DEF Informed, viewer, history
  <2>2. SetsAreAsked /\ \A k \in Configured : Known(k) => Announced(k)
    BY <2>1 DEF Informed
  <2>3. SetsAreAsked'
    BY <2>2 DEF SetsAreAsked
  <2>4. UNCHANGED <<toDevice, class, srcId, excuse, dev>>
    BY DEF viewer, history, device
  <2> DEFINE f == [k \in Profile |-> dev[k]]
  <2>5. toViewer' = <<f>>
    OBVIOUS
  <2>6. DOMAIN f = Profile /\ \A k \in Profile : f[k] = dev[k]
    OBVIOUS
  <2> HIDE DEF f
  <2>7. Len(toViewer') = 1 /\ toViewer'[1] = f
    BY <2>5
  <2>8. ASSUME NEW k \in Configured, Known(k)' PROVE Announced(k)'
    <3>1. CASE k \in Profile
      <4>1. LastOf(k, 1)' /\ toViewer'[1][k] = dev'[k] /\ 1 \in 1..Len(toViewer')
        BY <2>4, <2>6, <2>7, <3>1 DEF LastOf
      <4>2. QED
        BY <4>1 DEF Announced, Told
    <3>2. CASE k \notin Profile
      <4>1. ~Reported(k)' /\ ~Reported(k) /\ ~Told(k)
        BY <2>6, <2>7, <3>2 DEF Reported, Told
      <4>2. Known(k)
        BY <2>4, <2>8, <4>1 DEF Known
      <4>3. Asked(k) \/ Held(k)
        BY <2>2, <4>1, <4>2 DEF Announced
      <4>4. CASE Asked(k)
        BY <2>4, <4>4 DEF Announced, Asked
      <4>5. CASE Held(k)
        BY <2>4, <4>1, <4>5 DEF Announced, Held
      <4>6. QED
        BY <4>3, <4>4, <4>5
    <3>3. QED
      BY <3>1, <3>2
  <2>9. QED
    BY <2>3, <2>8
<1>13. CASE Adjust
  <2> USE <1>13 DEF Adjust
  <2>1. UNCHANGED <<open, toDevice, toViewer, class, srcId>>
    BY DEF viewer
  <2>2. \A k \in Configured : k # "length" => dev'[k] = dev[k]
    BY DEF Typed, Inv, TypeOK
  <2>3. ASSUME NEW k \in Configured, Known(k)' PROVE Known(k) /\ dev'[k] = dev[k]
    BY <2>1, <2>2, <2>3, Entries DEF Known, Reported, Profile
  <2>4. QED
    BY <2>1, <2>3 DEF Informed, SetsAreAsked, Announced, Asked, Told, Held, LastOf, Reported
<1>14. CASE Lose
  BY <1>14 DEF Lose, Informed
<1>15. CASE PowerCycle
  BY <1>15 DEF PowerCycle, Informed
<1>16. QED
  BY <1>1, <1>2, <1>3, <1>4, <1>5, <1>6, <1>7, <1>8, <1>9, <1>10, <1>11, <1>12, <1>13,
     <1>14, <1>15 DEF Next

\* For any entries and any bounds a sensor that is closed or flashed at rest
\* stores what its device is set to.
THEOREM StoresWhatIsSet == Spec => SavesWhatIsSet
<1> DEFINE I == Typed /\ Informed
<1>1. Init => I
  BY InitTyped, InitInformed
<1>2. I /\ [Next]_vars => I'
  BY TypedStep, InformedStep
<1>3. ASSUME I, [Next]_vars, Stores, Undisturbed,
             NEW k \in IF "adjusted" \in excuse THEN Configured \ Profile ELSE Configured
      PROVE  saved'[k] = dev[k]
  <2>1. Update
    <3>1. CASE alive /\ ~alive'
      BY <1>3, <3>1 DEF Next, Connect, Close, Unplug, PeriodicTimeout, HandleMessage,
         RestoreTimeout, UserSets, ResetSettings, Flash, FinishConnection, StartProcess,
         ProcessPrintsError, ProcessEnds, ProcessFinishes, Serve, Stream, Adjust, Lose,
         PowerCycle, vars, viewer
    <3>2. CASE phase = "closing" /\ phase' = "closed"
      BY <1>3, <3>2 DEF Next, Connect, Close, Unplug, PeriodicTimeout, HandleMessage,
         RestoreTimeout, UserSets, ResetSettings, Flash, FinishConnection, StartProcess,
         ProcessPrintsError, ProcessEnds, ProcessFinishes, Serve, Stream, Adjust, Lose,
         PowerCycle, vars, viewer
    <3>3. QED
      BY <1>3, <3>1, <3>2 DEF Stores
  <2>2. /\ open /\ ~restoring /\ srcId = 1 /\ alive
        /\ toViewer = <<>> /\ toDevice = <<>>
    BY <1>3 DEF Undisturbed, Typed, Life
  <2>3. k \in Configured /\ (k \in Profile => "adjusted" \notin excuse)
    BY <1>3
  <2>4. Known(k)
    BY <1>3, <2>2, <2>3 DEF Known, Typed, Life
  <2>5. Announced(k)
    BY <1>3, <2>2, <2>3, <2>4 DEF Informed, Undisturbed
  <2>6. ~Asked(k) /\ ~Told(k)
    BY <2>2 DEF Asked, Told
  <2>7. class[k] = dev[k] /\ dev[k] \in Valid(k)
    BY <1>3, <2>3, <2>5, <2>6 DEF Announced, Held, Typed, Sound
  <2>8. saved' = conf' /\ conf'[k] = class[k]
    BY <1>3, <2>1, <2>2, <2>3, <2>7, UpdateIs
  <2>9. QED
    BY <2>7, <2>8
<1>4. I /\ [Next]_vars => [Stores /\ Undisturbed =>
         \A k \in IF "adjusted" \in excuse THEN Configured \ Profile ELSE Configured :
            saved'[k] = dev[k]]_vars
  BY <1>3
<1>5. QED
  BY <1>1, <1>2, <1>4, PTL DEF Spec, SavesWhatIsSet

-----------------------------------------------------------------------------
(* Across a flash: until the device is there again.                        *)

\* A message that the device obeys while the link is open.
LEMMA ObeyIs ==
  ASSUME Typed, Serve, open, Obey(Head(toDevice))
  PROVE  /\ Len(toDevice) \in Nat /\ 1 \in 1..Len(toDevice) /\ Len(toDevice') = Len(toDevice) - 1
         /\ \A i \in 1..Len(toDevice') : i + 1 \in 1..Len(toDevice) /\ toDevice'[i] = toDevice[i + 1]
         /\ Head(toDevice) = toDevice[1] /\ toDevice[1] \in Message
         /\ \/ \A k \in Configured : dev'[k] = dev[k]
            \/ \A k \in Configured : dev'[k] = IF k \in DOMAIN toDevice[1].set
                                                 THEN toDevice[1].set[k] ELSE dev[k]
         /\ Len(toViewer) \in Nat
         /\ \/ toDevice[1].ask = {} /\ toViewer' = toViewer
            \/ /\ toDevice[1].ask # {} /\ Len(toViewer') = Len(toViewer) + 1
               /\ \A i \in 1..Len(toViewer) : toViewer'[i] = toViewer[i]
               /\ DOMAIN toViewer'[Len(toViewer')] = toDevice[1].ask
               /\ \A k \in toDevice[1].ask : toViewer'[Len(toViewer')][k] = dev'[k]
<1> DEFINE m == toDevice[1]
<1>1. /\ Len(toDevice) \in Nat /\ 1 \in 1..Len(toDevice) /\ Len(toDevice') = Len(toDevice) - 1
      /\ \A i \in 1..Len(toDevice') : i + 1 \in 1..Len(toDevice) /\ toDevice'[i] = toDevice[i + 1]
      /\ Head(toDevice) = m /\ m \in Message
  BY ServingOne DEF Serve, Typed
<1>2. m.set \in Parts /\ m.ask \in KeySets /\ m.ask \subseteq Configured
  BY <1>1 DEF Message, KeySets
<1>3. /\ dev' = Taken(m.set)
      /\ toViewer' = IF m.ask = {} THEN toViewer ELSE Append(toViewer, [k \in m.ask |-> dev'[k]])
  BY <1>1 DEF Obey
<1>4. \/ \A k \in Configured : dev'[k] = dev[k]
      \/ \A k \in Configured : dev'[k] = IF k \in DOMAIN m.set THEN m.set[k] ELSE dev[k]
  <2>1. CASE Taken(m.set) = dev
    BY <1>3, <2>1
  <2>2. CASE Taken(m.set) = Merged(m.set, dev)
    BY <1>2, <1>3, <2>2, MergedIs DEF Typed, Inv, TypeOK
  <2>3. QED
    BY <2>1, <2>2 DEF Taken
<1>5. dev' \in [Configured -> Values]
  BY TypedStep DEF Next, Typed, Inv, TypeOK
<1>6. Len(toViewer) \in Nat
  BY LenProperties DEF Typed, Cable
<1> HIDE DEF m
<1>7. CASE m.ask = {}
  BY <1>1, <1>3, <1>4, <1>6, <1>7 DEF m
<1>8. CASE m.ask # {}
  <2> DEFINE f == [k \in m.ask |-> dev'[k]]
  <2>1. f \in [m.ask -> Values]
    BY <1>2, <1>5
  <2>2. f \in Parts
    BY <1>2, <2>1, PartMade
  <2>3. toViewer' = Append(toViewer, f)
    BY <1>3, <1>8
  <2>4. DOMAIN f = m.ask /\ \A k \in m.ask : f[k] = dev'[k]
    OBVIOUS
  <2> HIDE DEF f
  <2>5. /\ Len(toViewer') = Len(toViewer) + 1 /\ toViewer'[Len(toViewer')] = f
        /\ \A i \in 1..Len(toViewer) : toViewer'[i] = toViewer[i]
    BY <2>2, <2>3, ReportingOne DEF Typed
  <2>6. /\ DOMAIN toViewer'[Len(toViewer')] = m.ask
        /\ \A k \in m.ask : toViewer'[Len(toViewer')][k] = dev'[k]
    BY <2>4, <2>5
  <2>7. QED
    BY <1>1, <1>4, <1>6, <1>8, <2>5, <2>6 DEF m
<1>9. QED
  BY <1>7, <1>8

\* A message that the viewer hears.
LEMMA HearingIs ==
  ASSUME Typed, HandleMessage
  PROVE  /\ Len(toViewer) \in Nat /\ 1 \in 1..Len(toViewer) /\ Len(toViewer') = Len(toViewer) - 1
         /\ \A i \in 1..Len(toViewer') : i + 1 \in 1..Len(toViewer) /\ toViewer'[i] = toViewer[i + 1]
         /\ toViewer[1] \in Parts
         /\ \A k \in Configured : class'[k] = IF k \in DOMAIN toViewer[1] THEN toViewer[1][k]
                                                                         ELSE class[k]
         /\ srcId' = 1
         /\ srcId = 1 => UNCHANGED <<conf, restoring, toDevice>>
         /\ srcId = 0 => conf' = Loaded /\ restoring' /\ Write(<<Ask(Profile)>>)
<1>1. /\ Len(toViewer) \in Nat /\ 1 \in 1..Len(toViewer) /\ Len(toViewer') = Len(toViewer) - 1
      /\ \A i \in 1..Len(toViewer') : i + 1 \in 1..Len(toViewer) /\ toViewer'[i] = toViewer[i + 1]
      /\ Head(toViewer) = toViewer[1] /\ toViewer[1] \in Parts
  BY ReadingOne DEF HandleMessage, Typed
<1>2. class' = Merged(toViewer[1], class)
  BY <1>1 DEF HandleMessage
<1>3. \A k \in Configured : class'[k] = IF k \in DOMAIN toViewer[1] THEN toViewer[1][k]
                                                                    ELSE class[k]
  BY <1>1, <1>2, MergedIs DEF Typed, Inv, TypeOK
<1>4. /\ srcId' = 1
      /\ srcId = 1 => UNCHANGED <<conf, restoring, toDevice>>
      /\ srcId = 0 => conf' = Loaded /\ restoring' /\ Write(<<Ask(Profile)>>)
  BY DEF HandleMessage, HandleMessagePrivate, SetLastPingConfiguration, Typed, Life
<1>5. QED
  BY <1>1, <1>3, <1>4

LEMMA TailIs ==
  ASSUME toDevice \in Seq(Message), toDevice # <<>>
  PROVE  /\ Head(toDevice) = toDevice[1] /\ toDevice[1] \in Message /\ 1 \in 1..Len(toDevice)
         /\ Tail(toDevice) \in Seq(Message)
         /\ \A i \in 1..Len(Tail(toDevice)) :
              i + 1 \in 1..Len(toDevice) /\ Tail(toDevice)[i] = toDevice[i + 1]
<1> DEFINE s == toDevice
           t == Tail(toDevice)
<1>1. /\ Head(s) \in Message /\ t \in Seq(Message) /\ Len(t) = Len(s) - 1
      /\ \A i \in 1..Len(t) : t[i] = s[i + 1]
  BY HeadTailProperties
<1>2. Len(s) \in Nat \ {0}
  BY EmptySeq
<1>3. Head(s) = s[1]
  OBVIOUS
<1> HIDE DEF s, t
<1>4. QED
  BY <1>1, <1>2, <1>3 DEF s, t

LEMMA InitLeaving == Init => Leaving /\ Stored /\ Unrecognised /\ ProfileComes /\ Restores
BY DEF Init, Leaving, Stored, Unrecognised, ProfileComes, Restores, Back

LEMMA LeavingStep ==
  ASSUME Typed, Informed, Leaving, [Next]_vars
  PROVE  Leaving'
<1> SUFFICES ASSUME phase' = "closing", before' # None
             PROVE  Leaving'
  BY DEF Leaving
<1>1. CASE Flash
  <2> USE <1>1 DEF Flash
  <2>1. Quiet /\ excuse = {} /\ before' = dev /\ ~polling'
    OBVIOUS
  <2>2. UNCHANGED <<srcId, restoring, toViewer, dev, class>>
    BY DEF device
  <2>3. srcId = 1 /\ ~restoring /\ toDevice = <<>> /\ toViewer = <<>> /\ open /\ alive
    BY <2>1 DEF Quiet
  <2>4. ASSUME NEW k \in Configured PROVE class[k] = dev[k] /\ dev[k] \in Valid(k)
    <3>1. Known(k)
      BY <2>1, <2>3 DEF Known, Typed, Life
    <3>2. Announced(k)
      BY <2>1, <2>3, <3>1 DEF Informed
    <3>3. ~Asked(k) /\ ~Told(k)
      BY <2>3 DEF Asked, Told
    <3>4. QED
      BY <3>2, <3>3 DEF Announced, Held, Typed, Sound
  <2>5. Relevant(before)' \subseteq Configured
    BY DEF Relevant
  <2>6. \A i \in 1..Len(toDevice') : toDevice'[i] \in {Do("stop"), Do("bootloader")}
    <3>1. toDevice' = <<>> \o <<Do("stop"), Do("bootloader")>>
      BY <2>3 DEF Write
    <3>2. <<Do("stop"), Do("bootloader")>> \in Seq(Message)
      BY DoIs, TwoMessages
    <3>3. toDevice' = <<Do("stop"), Do("bootloader")>>
      BY <3>1, <3>2, ConcatEmptySeq
    <3>4. QED
      BY <3>3
  <2>7. \A i \in 1..Len(toDevice') : DOMAIN toDevice'[i].set = {} /\ toDevice'[i].ask = {}
    BY <2>6, DoIs, NothingIs
  <2>8. \A k \in Relevant(before)' : before'[k] \in Valid(k) /\ dev'[k] = before'[k] /\ class'[k] = before'[k]
    BY <2>1, <2>2, <2>4, <2>5
  <2>9. toViewer' = <<>>
    BY <2>2, <2>3
  <2>10. QED
    BY <2>1, <2>2, <2>3, <2>7, <2>8, <2>9 DEF Leaving
<1>2. CASE ~Flash
  <2>1. phase = "closing" /\ before' = before
    BY <1>2 DEF Next, Connect, Close, Unplug, PeriodicTimeout, HandleMessage,
       RestoreTimeout, UserSets, ResetSettings, FinishConnection, StartProcess,
       ProcessPrintsError, ProcessEnds, ProcessFinishes, Serve, Stream, Adjust, Lose,
       PowerCycle, vars, viewer, history
  <2>2. /\ srcId = 1 /\ ~restoring /\ ~polling
        /\ \A i \in 1..Len(toDevice) : DOMAIN toDevice[i].set = {} /\ toDevice[i].ask = {}
        /\ \A k \in Relevant(before) :
             /\ before[k] \in Valid(k) /\ dev[k] = before[k] /\ class[k] = before[k]
             /\ \A i \in 1..Len(toViewer) :
                  k \in DOMAIN toViewer[i] => toViewer[i][k] = before[k]
    BY <2>1 DEF Leaving
  <2>3. Relevant(before) \subseteq Configured /\ Relevant(before)' = Relevant(before)
    BY <2>1 DEF Relevant
  <2>4. CASE Unplug
    BY <2>1, <2>2, <2>3, <2>4 DEF Unplug, Leaving, device
  <2>5. CASE HandleMessage
    <3>1. UNCHANGED <<restoring, toDevice, polling, dev>> /\ srcId' = 1
      BY <2>2, <2>5, HearingIs DEF HandleMessage, device
    <3>2. \A k \in Relevant(before) : class'[k] = before[k]
      BY <2>2, <2>3, <2>5, HearingIs
    <3>3. \A k \in Relevant(before) : \A i \in 1..Len(toViewer') :
             k \in DOMAIN toViewer'[i] => toViewer'[i][k] = before[k]
      BY <2>2, <2>5, HearingIs
    <3>4. QED
      BY <2>1, <2>2, <2>3, <3>1, <3>2, <3>3 DEF Leaving
  <2>6. CASE Serve
    <3>1. UNCHANGED <<srcId, restoring, polling, class>>
      BY <2>6 DEF Serve, viewer
    <3>2. /\ 1 \in 1..Len(toDevice) /\ Head(toDevice) = toDevice[1] /\ toDevice[1] \in Message
          /\ \A i \in 1..Len(toDevice') : i + 1 \in 1..Len(toDevice) /\ toDevice'[i] = toDevice[i + 1]
      BY <2>6, ServingOne DEF Serve, Typed
    <3>3. DOMAIN toDevice[1].set = {} /\ toDevice[1].ask = {}
      BY <2>2, <3>2
    <3>4. \A i \in 1..Len(toDevice') : DOMAIN toDevice'[i].set = {} /\ toDevice'[i].ask = {}
      BY <2>2, <3>2
    <3>5. toViewer' = toViewer
      BY <2>6, <3>2, <3>3 DEF Serve, Ignore, Obey
    <3>6. \A k \in Configured : dev'[k] = dev[k]
      <4>1. CASE dev' = dev
        BY <4>1
      <4>2. CASE dev' = Taken(toDevice[1].set)
        <5>1. toDevice[1].set \in Parts
          BY <3>2 DEF Message
        <5>2. QED
          BY <3>3, <4>2, <5>1, MergedIs DEF Taken, Typed, Inv, TypeOK
      <4>3. QED
        BY <2>6, <3>2, <4>1, <4>2 DEF Serve, Ignore, Obey, device
    <3>7. QED
      BY <2>1, <2>2, <2>3, <3>1, <3>4, <3>5, <3>6 DEF Leaving
  <2>7. CASE Stream
    <3> DEFINE f == [k \in Profile |-> dev[k]]
    <3>1. toViewer' = <<f>> /\ UNCHANGED <<srcId, restoring, polling, class, toDevice, dev>>
      BY <2>7 DEF Stream, viewer, device
    <3>2. \A k \in DOMAIN f : f[k] = dev[k]
      OBVIOUS
    <3> HIDE DEF f
    <3>3. Len(toViewer') = 1 /\ toViewer'[1] = f
      BY <3>1
    <3>4. \A k \in Relevant(before) : \A i \in 1..Len(toViewer') :
             k \in DOMAIN toViewer'[i] => toViewer'[i][k] = before[k]
      BY <2>2, <3>2, <3>3
    <3>5. QED
      BY <2>1, <2>2, <2>3, <3>1, <3>4 DEF Leaving
  <2>8. CASE Adjust
    <3>1. /\ dev["auto"] = 1 /\ UNCHANGED <<srcId, restoring, polling, class, toDevice, toViewer>>
          /\ \A k \in Configured : k # "length" => dev'[k] = dev[k]
      BY <2>8 DEF Adjust, viewer, Typed, Inv, TypeOK
    <3>2. "auto" \in Relevant(before)
      BY Entries DEF Relevant
    <3>3. before["auto"] = 1
      BY <2>2, <3>1, <3>2
    <3>4. "length" \notin Relevant(before)
      BY <3>3 DEF Relevant
    <3>5. \A k \in Relevant(before) : dev'[k] = before[k]
      BY <2>2, <2>3, <3>1, <3>4
    <3>6. QED
      BY <2>1, <2>2, <2>3, <3>1, <3>5 DEF Leaving
  <2>9. CASE Lose
    <3>1. UNCHANGED <<srcId, restoring, polling, class, dev>>
      BY <2>9 DEF Lose, viewer, device
    <3>2. CASE /\ toViewer # <<>>
               /\ toViewer' = Tail(toViewer)
               /\ UNCHANGED toDevice
      <4>1. \A i \in 1..Len(toViewer') : i + 1 \in 1..Len(toViewer) /\ toViewer'[i] = toViewer[i + 1]
        BY <3>2, ReadingOne DEF Typed
      <4>2. \A k \in Relevant(before) : \A i \in 1..Len(toViewer') :
               k \in DOMAIN toViewer'[i] => toViewer'[i][k] = before[k]
        BY <2>2, <4>1
      <4>3. QED
        BY <2>1, <2>2, <2>3, <3>1, <3>2, <4>2 DEF Leaving
    <3>3. CASE /\ toDevice # <<>>
               /\ \E part \in {[Head(toDevice) EXCEPT !.set = Nothing],
                               [Head(toDevice) EXCEPT !.ask = {}],
                               Do("nothing")} :
                     toDevice' = <<part>> \o Tail(toDevice)
               /\ UNCHANGED toViewer
      <4>1. PICK part \in {[Head(toDevice) EXCEPT !.set = Nothing],
                           [Head(toDevice) EXCEPT !.ask = {}],
                           Do("nothing")} :
                   toDevice' = <<part>> \o Tail(toDevice)
        BY <3>3
      <4>2. /\ Head(toDevice) = toDevice[1] /\ toDevice[1] \in Message /\ 1 \in 1..Len(toDevice)
            /\ Tail(toDevice) \in Seq(Message)
            /\ \A i \in 1..Len(Tail(toDevice)) :
                 i + 1 \in 1..Len(toDevice) /\ Tail(toDevice)[i] = toDevice[i + 1]
        BY <3>3, TailIs DEF Typed, Cable
      <4>3. DOMAIN toDevice[1].set = {} /\ toDevice[1].ask = {}
        BY <2>2, <4>2
      <4>4. part \in Message /\ DOMAIN part.set = {} /\ part.ask = {}
        <5> DEFINE h == Head(toDevice)
        <5>1. h \in Message /\ DOMAIN h.set = {} /\ h.ask = {}
          BY <4>2, <4>3
        <5>2. \/ part = [h EXCEPT !.set = Nothing] \/ part = [h EXCEPT !.ask = {}]
              \/ part = Do("nothing")
          BY <4>1
        <5> HIDE DEF h
        <5>3. CASE part = [h EXCEPT !.set = Nothing]
          BY <5>1, <5>3, NothingIs DEF Message
        <5>4. CASE part = [h EXCEPT !.ask = {}]
          BY <5>1, <5>4, KeySetsAre DEF Message
        <5>5. CASE part = Do("nothing")
          BY <5>5, NothingIs, DoIs
        <5>6. QED
          BY <5>2, <5>3, <5>4, <5>5
      <4>5. \A i \in 1..Len(toDevice') : \/ toDevice'[i] = part
                                         \/ i - 1 \in 1..Len(Tail(toDevice))
                                              /\ toDevice'[i] = Tail(toDevice)[i - 1]
        <5> DEFINE t == Tail(toDevice)
        <5>1. <<part>> \in Seq(Message) /\ Len(<<part>>) = 1 /\ <<part>>[1] = part
          BY <4>4, OneMessage
        <5>2. t \in Seq(Message) /\ Len(t) \in Nat
          BY <4>2, LenProperties
        <5>3. /\ Len(toDevice') = 1 + Len(t)
              /\ \A i \in 1..1 + Len(t) : toDevice'[i] = IF i <= 1 THEN part ELSE t[i - 1]
          <6>1. toDevice' = <<part>> \o t
            BY <4>1
          <6> DEFINE o == <<part>>
          <6>2. o \in Seq(Message) /\ Len(o) = 1 /\ o[1] = part /\ toDevice' = o \o t
            BY <5>1, <6>1
          <6> HIDE DEF o, t
          <6>3. /\ Len(o \o t) = Len(o) + Len(t)
                /\ \A i \in 1..Len(o) + Len(t) : (o \o t)[i] = IF i <= Len(o) THEN o[i] ELSE t[i - Len(o)]
            BY <5>2, <6>2, ConcatProperties
          <6>4. \A i \in 1..1 + Len(t) : i <= 1 => i = 1
            BY <5>2
          <6>5. QED
            BY <6>2, <6>3, <6>4
        <5> HIDE DEF t
        <5>4. \A i \in 1..1 + Len(t) : i <= 1 \/ i - 1 \in 1..Len(t)
          BY <5>2
        <5>5. QED
          BY <5>3, <5>4 DEF t
      <4>6. \A i \in 1..Len(toDevice') : DOMAIN toDevice'[i].set = {} /\ toDevice'[i].ask = {}
        BY <2>2, <4>2, <4>4, <4>5
      <4>7. QED
        BY <2>1, <2>2, <2>3, <3>1, <3>3, <4>6 DEF Leaving
    <3>4. QED
      BY <2>9, <3>2, <3>3 DEF Lose
  <2>10. CASE UNCHANGED vars
    BY <2>1, <2>2, <2>3, <2>10 DEF Leaving, vars, viewer, device
  <2>11. QED
    BY <1>2, <2>1, <2>2, <2>4, <2>5, <2>6, <2>7, <2>8, <2>9, <2>10 DEF Next, Connect, Close, PeriodicTimeout,
       RestoreTimeout, UserSets, ResetSettings, FinishConnection, StartProcess,
       ProcessPrintsError, ProcessEnds, ProcessFinishes, PowerCycle
<1>3. QED
  BY <1>1, <1>2

LEMMA RelevantSame ==
  ASSUME before' = before
  PROVE  Relevant(before)' = Relevant(before)
BY DEF Relevant

LEMMA RelevantIs ==
  /\ \A c : Relevant(c) \subseteq Configured /\ "auto" \in Relevant(c)
  /\ \A c : "interval" \in Configured => "interval" \in Relevant(c)
  /\ \A c, d : c["auto"] = d["auto"] => Relevant(c) = Relevant(d)
BY Entries DEF Relevant

LEMMA StoredStep ==
  ASSUME Typed, Leaving, Stored, [Next]_vars
  PROVE  Stored'
<1> SUFFICES ASSUME phase' \in {"closed", "process"} \/ (phase' = "none" /\ flasher' = "FlashFinished"),
                    before' # None
             PROVE  /\ \A k \in Configured : saved'[k] \in Valid(k)
                    /\ \A k \in Relevant(before)' : saved'[k] = before'[k]
                    /\ phase' # "none" => ~restoring'
  BY DEF Stored
<1>1. CASE FinishConnection
  <2> USE <1>1 DEF FinishConnection
  <2>1. before' = before /\ phase = "closing" /\ restoring' = restoring /\ before # None
    BY DEF history
  <2>2. /\ srcId = 1 /\ ~restoring
        /\ \A k \in Relevant(before) : before[k] \in Valid(k) /\ class[k] = before[k]
    BY <2>1 DEF Leaving
  <2>3. /\ saved' = conf'
        /\ \A k \in Configured : conf'[k] \in Valid(k) /\ (class[k] \in Valid(k) => conf'[k] = class[k])
    BY <2>2, UpdateIs
  <2>4. Relevant(before)' = Relevant(before) /\ Relevant(before) \subseteq Configured
    BY <2>1, RelevantSame, RelevantIs
  <2>5. QED
    BY <2>1, <2>2, <2>3, <2>4
<1>2. CASE ~FinishConnection
  <2>1. /\ phase \in {"closed", "process"} \/ (phase = "none" /\ flasher = "FlashFinished")
        /\ before' = before /\ saved' = saved
        /\ phase' # "none" => phase # "none" /\ restoring' = restoring
    <3>1. CASE Connect \/ Close
      BY <3>1 DEF Connect, Close
    <3>2. CASE Unplug \/ PeriodicTimeout \/ UserSets \/ ResetSettings
      BY <3>2 DEF Unplug, PeriodicTimeout, UserSets, ResetSettings, history, viewer
    <3>3. CASE HandleMessage
      BY <3>3, HearingIs DEF HandleMessage, history, Typed, Life
    <3>4. CASE RestoreTimeout
      <4>1. UNCHANGED <<phase, flasher, before, saved>> /\ (restoring' => restoring)
        BY <3>4 DEF RestoreTimeout, history
      <4>2. phase' # "none" => ~restoring
        BY <4>1 DEF Stored
      <4>3. QED
        BY <3>4, <4>1, <4>2 DEF RestoreTimeout
    <3>5. CASE Flash
      BY <3>5 DEF Flash
    <3>6. CASE StartProcess \/ ProcessPrintsError \/ ProcessEnds \/ ProcessFinishes
      BY <3>6 DEF StartProcess, ProcessPrintsError, ProcessEnds, ProcessFinishes, history
    <3>7. CASE Serve \/ Stream \/ Adjust \/ Lose \/ PowerCycle \/ UNCHANGED vars
      BY <3>7 DEF Serve, Stream, Adjust, Lose, PowerCycle, vars, viewer, history
    <3>8. QED
      BY <1>2, <3>1, <3>2, <3>3, <3>4, <3>5, <3>6, <3>7 DEF Next
  <2>2. /\ \A k \in Configured : saved[k] \in Valid(k)
        /\ \A k \in Relevant(before) : saved[k] = before[k]
        /\ phase # "none" => ~restoring
    BY <2>1 DEF Stored
  <2>3. QED
    BY <2>1, <2>2, RelevantSame
<1>3. QED
  BY <1>1, <1>2

-----------------------------------------------------------------------------
(* Across a flash: the device is there again.                              *)

\* What happens then.
Quietly == PeriodicTimeout \/ HandleMessage \/ RestoreTimeout \/ Serve \/ Stream \/ UNCHANGED vars

LEMMA BackSteps ==
  ASSUME Typed, [Next]_vars, Back'
  PROVE  \/ ProcessFinishes
         \/ Quietly /\ Back /\ UNCHANGED <<open, before, saved>>
<1>1. CASE Connect \/ Close \/ Unplug \/ UserSets \/ ResetSettings
  BY <1>1 DEF Connect, Close, Unplug, UserSets, ResetSettings, Back
<1>2. CASE PeriodicTimeout
  BY <1>2 DEF PeriodicTimeout, Quietly, Back, history
<1>3. CASE HandleMessage
  BY <1>3 DEF HandleMessage, Quietly, Back, history
<1>4. CASE RestoreTimeout
  BY <1>4 DEF RestoreTimeout, Quietly, Back, history
<1>5. CASE Flash \/ FinishConnection \/ StartProcess \/ ProcessPrintsError \/ ProcessEnds
  BY <1>5 DEF Flash, FinishConnection, StartProcess, ProcessPrintsError, ProcessEnds, Back,
     Typed, Life
<1>6. CASE Serve
  <2>1. UNCHANGED <<phase, flasher, open, before, saved>> /\ excuse \subseteq excuse'
    BY <1>6 DEF Serve, Ignore, Obey, viewer
  <2>2. QED
    BY <1>6, <2>1 DEF Quietly, Back
<1>7. CASE Stream \/ UNCHANGED vars
  BY <1>7 DEF Stream, vars, viewer, history, Quietly, Back
<1>8. CASE Adjust \/ Lose \/ PowerCycle
  BY <1>8 DEF Adjust, Lose, PowerCycle, Back
<1>9. CASE ProcessFinishes
  BY <1>9
<1>10. QED
  BY <1>1, <1>2, <1>3, <1>4, <1>5, <1>6, <1>7, <1>8, <1>9 DEF Next

\* A device that is back is as it boots, and its connection is a new one.
LEMMA Returning ==
  ASSUME Typed, Stored, ProcessFinishes, Back'
  PROVE  /\ ~restoring' /\ ~streaming' /\ srcId' = 0 /\ mode' = "application"
         /\ class' = Zero /\ dev' = DeviceBoot
         /\ toViewer' = <<>> /\ toDevice' = PreConfiguration
         /\ \A i \in 1..Len(toDevice') : DOMAIN toDevice'[i].set = {} /\ toDevice'[i].do = "nothing"
         /\ Len(toDevice') \in 2..3
         /\ toDevice'[1].ask = {"auto"} /\ toDevice'[2].ask = Profile
<1> USE DEF ProcessFinishes, ConnectAgain
<1>1. PICK opens \in BOOLEAN : Opened(opens)
  OBVIOUS
<1>2. opens /\ toDevice' = PreConfiguration /\ toViewer' = <<>>
  BY <1>1, OpenedIs DEF Back
<1>3. before # None /\ before' = before /\ phase = "process" /\ restoring' = restoring
  BY DEF Back
<1>4. ~restoring
  BY <1>3 DEF Stored
<1>5. ASSUME NEW i \in 1..Len(PreConfiguration)
      PROVE  \E K \in KeySets : PreConfiguration[i] = Ask(K)
  <2>1. ASSUME NEW n \in 2..3, NEW j \in 1..n PROVE j = 1 \/ j = 2 \/ (j = 3 /\ n = 3)
    OBVIOUS
  <2>2. i = 1 \/ i = 2 \/ (i = 3 /\ Len(PreConfiguration) = 3)
    BY <2>1, PreConfigurationIs
  <2>3. Len(PreConfiguration) = 3 => "speed" \in Configured
    BY PreConfigurationIs
  <2>4. QED
    BY <2>2, <2>3, PreConfigurationIs, KeySetsAre
<1>6. \A i \in 1..Len(PreConfiguration) :
         DOMAIN PreConfiguration[i].set = {} /\ PreConfiguration[i].do = "nothing"
  BY <1>5, AskIs, NothingIs
<1>7. PreConfiguration[1].ask = {"auto"} /\ PreConfiguration[2].ask = Profile
  BY PreConfigurationIs, AskIs, KeySetsAre
<1>8. QED
  BY <1>2, <1>3, <1>4, <1>6, <1>7, ResetLocalIs, PreConfigurationIs

LEMMA OneWritten ==
  ASSUME toDevice \in Seq(Message), open, NEW m \in Message, Write(<<m>>)
  PROVE  /\ Len(toDevice) \in Nat /\ Len(toDevice') = Len(toDevice) + 1
         /\ \A i \in 1..Len(toDevice) : toDevice'[i] = toDevice[i]
         /\ toDevice'[Len(toDevice')] = m
<1>1. toDevice' = Append(toDevice, m)
  <2>1. toDevice' = toDevice \o <<m>>
    BY DEF Write
  <2>2. toDevice \o <<m>> = Append(toDevice, m)
    BY AppendIsConcat
  <2>3. QED
    BY <2>1, <2>2
<1> DEFINE s == toDevice
           t == toDevice'
<1>2. s \in Seq(Message) /\ t = Append(s, m)
  BY <1>1
<1> HIDE DEF s, t
<1>3. QED
  BY <1>2 DEF s, t

\* Until the device is recognised nothing is set.
LEMMA UnrecognisedStep ==
  ASSUME Typed, Stored, Unrecognised, Restores, [Next]_vars
  PROVE  Unrecognised'
<1> SUFFICES ASSUME Back', srcId' = 0 PROVE Unrecognised'
  BY DEF Unrecognised
<1>1. CASE ProcessFinishes
  <2>1. /\ ~restoring' /\ ~streaming' /\ class' = Zero /\ dev' = DeviceBoot
        /\ toViewer' = <<>>
        /\ \A i \in 1..Len(toDevice') : DOMAIN toDevice'[i].set = {} /\ toDevice'[i].do = "nothing"
        /\ Len(toDevice') \in 2..3 /\ toDevice'[1].ask = {"auto"}
    BY <1>1, Returning
  <2>2. toDevice' # <<>>
    BY <2>1
  <2>3. Len(toViewer') = 0
    BY <2>1
  <2>4. Zero' = Zero /\ DeviceBoot' = DeviceBoot
    BY DEF Zero, DeviceBoot
  <2>5. QED
    BY <2>1, <2>2, <2>3, <2>4 DEF Unrecognised
<1>2. CASE Quietly /\ Back /\ UNCHANGED <<open, before, saved>>
  <2>1. srcId = 0 /\ ~HandleMessage
    <3>1. ~HandleMessage
      BY HearingIs
    <3>2. QED
      BY <1>2, <3>1 DEF Quietly, PeriodicTimeout, RestoreTimeout, Serve, Stream, vars, viewer
  <2>2. /\ ~restoring /\ ~streaming
        /\ class = Zero /\ dev = DeviceBoot
        /\ \A i \in 1..Len(toDevice) :
             DOMAIN toDevice[i].set = {} /\ toDevice[i].do = "nothing"
        /\ \A i \in 1..Len(toViewer) : \A k \in DOMAIN toViewer[i] :
             toViewer[i][k] = DeviceBoot[k]
        /\ toViewer # <<>> => DOMAIN toViewer[1] = {"auto"}
        /\ toViewer = <<>> => toDevice # <<>> /\ toDevice[1].ask = {"auto"}
    BY <1>2, <2>1 DEF Unrecognised
  <2>3. open /\ mode = "application"
    BY <1>2 DEF Back, Restores
  <2>4. CASE PeriodicTimeout
    <3>1. Ask({"auto"}) \in Message /\ DOMAIN Ask({"auto"}).set = {} /\ Ask({"auto"}).do = "nothing"
      BY KeySetsAre, AskIs, NothingIs
    <3>2. Write(<<Ask({"auto"})>>) /\ UNCHANGED <<restoring, streaming, class, dev, toViewer>>
      BY <2>3, <2>4 DEF PeriodicTimeout, device
    <3>3. /\ Len(toDevice) \in Nat /\ Len(toDevice') = Len(toDevice) + 1
          /\ \A i \in 1..Len(toDevice) : toDevice'[i] = toDevice[i]
          /\ toDevice'[Len(toDevice')] = Ask({"auto"})
      BY <2>3, <3>1, <3>2, OneWritten DEF Typed, Cable
    <3>4. \A i \in 1..Len(toDevice') : i \in 1..Len(toDevice) \/ i = Len(toDevice')
      BY <3>3
    <3>5. \A i \in 1..Len(toDevice') : DOMAIN toDevice'[i].set = {} /\ toDevice'[i].do = "nothing"
      BY <2>2, <3>1, <3>3, <3>4
    <3>6. ASSUME toDevice # <<>> PROVE 1 \in 1..Len(toDevice) /\ 1 \in 1..Len(toDevice')
      BY <3>3, <3>6, EmptySeq DEF Typed, Cable
    <3>7. toViewer' = <<>> => toDevice' # <<>> /\ toDevice'[1].ask = {"auto"}
      BY <2>2, <3>2, <3>3, <3>6
    <3>8. QED
      BY <2>2, <3>2, <3>5, <3>7 DEF Unrecognised, Zero, DeviceBoot
  <2>5. CASE Serve
    <3> DEFINE m == toDevice[1]
               n == Len(toViewer')
    <3>1. Obey(Head(toDevice))
      BY <2>3, <2>5 DEF Serve, Ignore
    <3>2. /\ Len(toDevice) \in Nat /\ 1 \in 1..Len(toDevice) /\ Len(toDevice') = Len(toDevice) - 1
          /\ \A i \in 1..Len(toDevice') : i + 1 \in 1..Len(toDevice) /\ toDevice'[i] = toDevice[i + 1]
          /\ Head(toDevice) = m
          /\ \/ \A k \in Configured : dev'[k] = dev[k]
             \/ \A k \in Configured : dev'[k] = IF k \in DOMAIN m.set THEN m.set[k] ELSE dev[k]
          /\ Len(toViewer) \in Nat
          /\ \/ m.ask = {} /\ toViewer' = toViewer
             \/ /\ m.ask # {} /\ n = Len(toViewer) + 1
                /\ \A i \in 1..Len(toViewer) : toViewer'[i] = toViewer[i]
                /\ DOMAIN toViewer'[n] = m.ask
                /\ \A k \in m.ask : toViewer'[n][k] = dev'[k]
      BY <2>3, <2>5, <3>1, ObeyIs
    <3>3. DOMAIN m.set = {} /\ m.do = "nothing"
      BY <2>2, <3>2
    <3>4. UNCHANGED <<restoring, class>> /\ ~streaming'
      BY <2>2, <2>5, <3>1, <3>2, <3>3 DEF Serve, Obey, viewer
    <3> HIDE DEF m, n
    <3>5. \A k \in Configured : dev'[k] = DeviceBoot[k]
      BY <2>2, <3>2, <3>3
    <3>6. dev' = DeviceBoot
      <4>1. dev' \in [Configured -> Values]
        BY TypedStep DEF Typed, Inv, TypeOK
      <4>2. QED
        BY <3>5, <4>1, DeviceBootValid
    <3>7. \A i \in 1..Len(toDevice') : DOMAIN toDevice'[i].set = {} /\ toDevice'[i].do = "nothing"
      BY <2>2, <3>2
    <3>8. CASE m.ask = {} /\ toViewer' = toViewer
      <4>1. toViewer # <<>>
        BY <2>2, <3>8 DEF m
      <4>2. QED
        BY <2>2, <3>4, <3>6, <3>7, <3>8, <4>1 DEF Unrecognised, Zero, DeviceBoot
    <3>9. CASE /\ m.ask # {} /\ n = Len(toViewer) + 1
               /\ \A i \in 1..Len(toViewer) : toViewer'[i] = toViewer[i]
               /\ DOMAIN toViewer'[n] = m.ask
               /\ \A k \in m.ask : toViewer'[n][k] = dev'[k]
      <4>1. \A i \in 1..n : i \in 1..Len(toViewer) \/ i = n
        BY <3>2, <3>9
      <4>2. \A i \in 1..n : \A k \in DOMAIN toViewer'[i] : toViewer'[i][k] = DeviceBoot[k]
        BY <2>2, <3>6, <3>9, <4>1
      <4>3. toViewer' # <<>> => DOMAIN toViewer'[1] = {"auto"}
        <5>1. CASE toViewer = <<>>
          <6>1. n = 1
            BY <3>9, <5>1
          <6>2. QED
            BY <2>2, <3>9, <5>1, <6>1 DEF m
        <5>2. CASE toViewer # <<>>
          <6>1. 1 \in 1..Len(toViewer)
            BY <3>2, <5>2, EmptySeq DEF Typed, Cable
          <6>2. QED
            BY <2>2, <3>9, <5>2, <6>1
        <5>3. QED
          BY <5>1, <5>2
      <4>4. toViewer' # <<>>
        BY <3>2, <3>9 DEF n
      <4>5. QED
        BY <2>2, <3>4, <3>6, <3>7, <4>2, <4>3, <4>4 DEF Unrecognised, n, Zero, DeviceBoot
    <3>10. QED
      BY <3>2, <3>8, <3>9
  <2>6. CASE UNCHANGED vars
    BY <2>2, <2>6 DEF Unrecognised, vars, viewer, device, Zero, DeviceBoot
  <2>7. CASE RestoreTimeout \/ Stream
    BY <2>2, <2>7 DEF RestoreTimeout, Stream
  <2>8. QED
    BY <1>2, <2>1, <2>4, <2>5, <2>6, <2>7 DEF Quietly
<1>3. QED
  BY <1>1, <1>2, BackSteps

\* The automatic mode of a device that was set otherwise is known.
LEMMA AutoIs ==
  ASSUME Typed, Stored, Back
  PROVE  before["auto"] \in {0, 1}
BY Entries, RelevantIs DEF Stored, Back, Valid

LEMMA ProfileComesStep ==
  ASSUME Typed, Stored, Unrecognised, ProfileComes, Restores, [Next]_vars
  PROVE  ProfileComes'
<1> SUFFICES ASSUME Back', before'["auto"] = 0, class'["length"] = 0 PROVE ProfileComes'
  BY DEF ProfileComes
<1>1. CASE ProcessFinishes
  <2>1. /\ ~streaming' /\ srcId' = 0 /\ dev' = DeviceBoot /\ toViewer' = <<>>
        /\ \A i \in 1..Len(toDevice') : DOMAIN toDevice'[i].set = {} /\ toDevice'[i].do = "nothing"
        /\ Len(toDevice') \in 2..3
        /\ toDevice'[1].ask = {"auto"} /\ toDevice'[2].ask = Profile
    BY <1>1, Returning
  <2>2. Len(toViewer') = 0 /\ dev'["auto"] = 1
    BY <2>1, DeviceBootValid
  <2>3. /\ 2 \in 1..Len(toDevice')
        /\ \A j \in 1..2 : j \in 1..Len(toDevice')
        /\ \A j \in 1..(2 - 1) : j = 1
    BY <2>1
  <2>4. \E i \in 1..Len(toDevice') :
          /\ toDevice'[i].ask = Profile
          /\ \A j \in 1..i : DOMAIN toDevice'[j].set = {}
          /\ \A j \in 1..(i - 1) : toDevice'[j].ask = {"auto"}
    <3>1. /\ toDevice'[2].ask = Profile
          /\ \A j \in 1..2 : DOMAIN toDevice'[j].set = {}
          /\ \A j \in 1..(2 - 1) : toDevice'[j].ask = {"auto"}
      BY <2>1, <2>3
    <3>2. QED
      BY <2>3, <3>1
  <2>5. QED
    BY <2>1, <2>2, <2>4 DEF ProfileComes, Profile
<1>2. CASE Quietly /\ Back /\ UNCHANGED <<open, before, saved>>
  <2>1. class["length"] = 0
    <3>1. CASE HandleMessage
      <4>1. "length" \notin DOMAIN toViewer[1]
        BY <3>1, HearingIs, Entries, ValidValues DEF Typed, Cable
      <4>2. QED
        BY <3>1, <4>1, HearingIs, Entries
    <3>2. CASE ~HandleMessage
      BY <1>2, <3>2 DEF Quietly, PeriodicTimeout, RestoreTimeout, Serve, Stream, vars, viewer
    <3>3. QED
      BY <3>1, <3>2
  <2>2. before["auto"] = 0 /\ open /\ mode = "application"
    BY <1>2 DEF Back, Restores
  <2> DEFINE Bare(i) == DOMAIN toViewer[i] = {"auto"} /\ toViewer[i]["auto"] = 1
             Whole == \E i \in 1..Len(toViewer) :
                        DOMAIN toViewer[i] = Profile /\ \A j \in 1..(i - 1) : Bare(j)
             Coming == \E i \in 1..Len(toDevice) :
                         /\ toDevice[i].ask = Profile
                         /\ \A j \in 1..i : DOMAIN toDevice[j].set = {}
                         /\ \A j \in 1..(i - 1) : toDevice[j].ask = {"auto"}
             Awaited == (\A j \in 1..Len(toViewer) : Bare(j)) /\ dev["auto"] = 1 /\ Coming
             Plain == \A i \in 1..Len(toDevice) : toDevice[i].do = "nothing"
  <2>3. ~streaming /\ Plain /\ (srcId = 1 => class["auto"] = 1 /\ restoring) /\ (Whole \/ Awaited)
    BY <1>2, <2>1, <2>2 DEF ProfileComes
  <2>4. SUFFICES /\ ~streaming' /\ Plain' /\ (srcId' = 1 => class'["auto"] = 1 /\ restoring')
                 /\ Whole' \/ Awaited'
    BY DEF ProfileComes
  <2>5. srcId \in {0, 1} /\ Len(toViewer) \in Nat /\ Len(toDevice) \in Nat
    BY LenProperties DEF Typed, Inv, TypeOK, Cable
  <2>6. ASSUME NEW ms \in Seq(Message), Write(ms), \A i \in 1..Len(ms) : ms[i].do = "nothing"
        PROVE  Plain' /\ (Coming => Coming')
    <3>1. /\ Len(toDevice') \in Nat /\ Len(toDevice') >= Len(toDevice)
          /\ \A i \in 1..Len(toDevice) : toDevice'[i] = toDevice[i]
          /\ \A i \in 1..Len(toDevice') : i > Len(toDevice) =>
               i - Len(toDevice) \in 1..Len(ms) /\ toDevice'[i] = ms[i - Len(toDevice)]
      BY <2>6, Writing DEF Typed, Cable
    <3>2. \A i \in 1..Len(toDevice') : i \in 1..Len(toDevice) \/ i > Len(toDevice)
      BY <2>5, <3>1
    <3>3. Plain'
      BY <2>3, <2>6, <3>1, <3>2
    <3>4. ASSUME Coming PROVE Coming'
      <4>1. PICK i \in 1..Len(toDevice) :
              /\ toDevice[i].ask = Profile
              /\ \A j \in 1..i : DOMAIN toDevice[j].set = {}
              /\ \A j \in 1..(i - 1) : toDevice[j].ask = {"auto"}
        BY <3>4
      <4>2. /\ i \in 1..Len(toDevice')
            /\ \A j \in 1..i : j \in 1..Len(toDevice)
            /\ \A j \in 1..(i - 1) : j \in 1..Len(toDevice)
        BY <2>5, <3>1
      <4>3. /\ toDevice'[i].ask = Profile
            /\ \A j \in 1..i : DOMAIN toDevice'[j].set = {}
            /\ \A j \in 1..(i - 1) : toDevice'[j].ask = {"auto"}
        BY <3>1, <4>1, <4>2
      <4>4. QED
        BY <4>2, <4>3 DEF Profile
    <3>5. QED
      BY <3>3, <3>4
  <2>7. CASE PeriodicTimeout
    <3>1. Ask({"auto"}) \in Message /\ Ask({"auto"}).do = "nothing"
      BY KeySetsAre, AskIs
    <3>2. Write(<<Ask({"auto"})>>) /\ UNCHANGED <<restoring, streaming, class, dev, toViewer, srcId>>
      BY <2>2, <2>7 DEF PeriodicTimeout, device
    <3>3. Plain' /\ (Coming => Coming')
      <4> DEFINE ms == <<Ask({"auto"})>>
      <4>1. ms \in Seq(Message) /\ Write(ms) /\ \A i \in 1..Len(ms) : ms[i].do = "nothing"
        BY <3>1, <3>2, OneMessage
      <4> HIDE DEF ms, Plain, Coming
      <4>2. QED
        BY <2>6, <4>1
    <3> HIDE DEF Coming, Plain
    <3>4. QED
      BY <2>3, <3>2, <3>3 DEF Profile
  <2>8. CASE RestoreTimeout
    <3>1. UNCHANGED <<streaming, class, dev, toViewer, srcId>> /\ restoring
      BY <2>8 DEF RestoreTimeout, device
    <3>2. srcId = 1
      BY <1>2, <2>5, <3>1 DEF Unrecognised
    <3>3. conf["auto"] = 0 /\ class["auto"] = 1
      <4>1. Wanted
        BY <1>2, <3>2 DEF Restores
      <4>2. QED
        BY <2>2, <2>3, <3>2, <4>1, RelevantIs DEF Wanted
    <3>4. Differing # <<>>
      BY <3>3, DifferingIs, RelevantIs
    <3> DEFINE ms == [i \in DOMAIN Differing |-> Setter(Differing[i], conf[Differing[i]])]
    <3>5. Write(ms) /\ restoring'
      BY <2>8, <3>1, <3>4 DEF RestoreTimeout
    <3>6. /\ Differing \in Seq(Configured)
          /\ \A i \in 1..Len(Differing) : conf[Differing[i]] \in Values
          /\ class \in [Configured -> Values]
      BY DifferingIs DEF Typed, Inv, TypeOK
    <3>7. /\ ms \in Seq(Message) /\ Len(ms) = Len(Differing)
          /\ \A i \in 1..Len(Differing) : ms[i] = Setter(Differing[i], conf[Differing[i]])
      BY <3>6, HonestSetters
    <3> HIDE DEF ms
    <3>8. \A i \in 1..Len(Differing) : Differing[i] \in Configured
      BY <3>6, ElementOfSeq
    <3>9. \A i \in 1..Len(ms) : ms[i].do = "nothing"
      BY <3>6, <3>7, <3>8, SetterIs
    <3>10. Plain' /\ (Coming => Coming')
      BY <2>6, <3>5, <3>7, <3>9
    <3> HIDE DEF Coming, Plain
    <3>11. QED
      BY <2>3, <3>1, <3>2, <3>5, <3>10 DEF Profile
  <2>9. CASE HandleMessage
    <3>1. /\ 1 \in 1..Len(toViewer) /\ Len(toViewer') = Len(toViewer) - 1
          /\ \A i \in 1..Len(toViewer') : i + 1 \in 1..Len(toViewer) /\ toViewer'[i] = toViewer[i + 1]
          /\ class'["length"] = IF "length" \in DOMAIN toViewer[1] THEN toViewer[1]["length"] ELSE class["length"]
          /\ class'["auto"] = IF "auto" \in DOMAIN toViewer[1] THEN toViewer[1]["auto"] ELSE class["auto"]
          /\ srcId = 1 => UNCHANGED <<conf, restoring, toDevice>>
          /\ srcId = 0 => restoring' /\ Write(<<Ask(Profile)>>)
      BY <2>9, HearingIs, Entries
    <3>2. UNCHANGED <<streaming, dev>>
      BY <2>9 DEF HandleMessage, device
    <3>3. "length" \notin DOMAIN toViewer[1]
      BY <3>1, ValidValues DEF Typed, Cable
    <3>4. Plain' /\ (Coming => Coming')
      <4>1. CASE srcId = 1
        <5>1. toDevice' = toDevice
          BY <3>1, <4>1
        <5>2. QED
          BY <2>3, <5>1 DEF Profile
      <4>2. CASE srcId = 0
        <5>1. Ask(Profile) \in Message /\ Ask(Profile).do = "nothing"
          BY KeySetsAre, AskIs
        <5> DEFINE ms == <<Ask(Profile)>>
        <5>2. ms \in Seq(Message) /\ Write(ms) /\ \A i \in 1..Len(ms) : ms[i].do = "nothing"
          BY <3>1, <4>2, <5>1, OneMessage
        <5> HIDE DEF ms, Plain, Coming
        <5>3. QED
          BY <2>6, <5>2
      <4>3. QED
        BY <2>5, <4>1, <4>2
    <3>5. restoring'
      BY <2>3, <2>5, <3>1
    <3>6. CASE Whole
      <4>1. PICK i \in 1..Len(toViewer) : DOMAIN toViewer[i] = Profile /\ \A j \in 1..(i - 1) : Bare(j)
        BY <3>6
      <4>2. i # 1
        BY <3>3, <4>1, Entries DEF Profile
      <4>3. 1 \in 1..(i - 1) /\ i - 1 \in 1..Len(toViewer')
            /\ \A j \in 1..((i - 1) - 1) : j + 1 \in 1..(i - 1) /\ j \in 1..Len(toViewer')
        BY <2>5, <3>1, <4>2
      <4>4. class'["auto"] = 1
        BY <3>1, <4>1, <4>3
      <4>5. toViewer'[i - 1] = toViewer[i] /\ \A j \in 1..((i - 1) - 1) : toViewer'[j] = toViewer[j + 1]
        BY <2>5, <3>1, <4>3
      <4>6. Whole'
        <5>1. \A j \in 1..((i - 1) - 1) : Bare(j)'
          <6> SUFFICES ASSUME NEW j \in 1..((i - 1) - 1) PROVE Bare(j)'
            OBVIOUS
          <6>1. Bare(j + 1) /\ toViewer'[j] = toViewer[j + 1]
            BY <4>1, <4>3, <4>5
          <6>2. QED
            BY <6>1
        <5>2. DOMAIN toViewer'[i - 1] = Profile
          BY <4>1, <4>5
        <5>3. QED
          BY <4>3, <5>1, <5>2 DEF Profile
      <4> HIDE DEF Plain, Whole
      <4>7. QED
        BY <2>3, <3>2, <3>4, <3>5, <4>4, <4>6
    <3>7. CASE Awaited
      <4>1. class'["auto"] = 1
        BY <3>1, <3>7
      <4>2. \A j \in 1..Len(toViewer') : Bare(j)'
        <5> SUFFICES ASSUME NEW j \in 1..Len(toViewer') PROVE Bare(j)'
          OBVIOUS
        <5>1. j + 1 \in 1..Len(toViewer) /\ toViewer'[j] = toViewer[j + 1]
          BY <3>1
        <5>2. Bare(j + 1)
          BY <3>7, <5>1
        <5>3. QED
          BY <5>1, <5>2
      <4> HIDE DEF Plain, Coming
      <4>3. QED
        BY <2>3, <3>2, <3>4, <3>5, <3>7, <4>1, <4>2
    <3>8. QED
      BY <2>3, <3>6, <3>7
  <2>10. CASE Serve
    <3> DEFINE m == toDevice[1]
               n == Len(toViewer')
    <3>1. Obey(Head(toDevice))
      BY <2>2, <2>10 DEF Serve, Ignore
    <3>2. /\ 1 \in 1..Len(toDevice) /\ Len(toDevice') = Len(toDevice) - 1
          /\ \A i \in 1..Len(toDevice') : i + 1 \in 1..Len(toDevice) /\ toDevice'[i] = toDevice[i + 1]
          /\ Head(toDevice) = m
          /\ \/ dev'["auto"] = dev["auto"]
             \/ dev'["auto"] = IF "auto" \in DOMAIN m.set THEN m.set["auto"] ELSE dev["auto"]
          /\ \/ m.ask = {} /\ toViewer' = toViewer
             \/ /\ m.ask # {} /\ n = Len(toViewer) + 1
                /\ \A i \in 1..Len(toViewer) : toViewer'[i] = toViewer[i]
                /\ DOMAIN toViewer'[n] = m.ask
                /\ \A k \in m.ask : toViewer'[n][k] = dev'[k]
      BY <2>2, <2>10, <3>1, ObeyIs, Entries
    <3>3. m.do = "nothing"
      BY <2>3, <3>2
    <3>4. UNCHANGED <<restoring, class, srcId>> /\ ~streaming'
      BY <2>3, <2>10, <3>1, <3>2, <3>3 DEF Serve, Obey, viewer
    <3> HIDE DEF m, n
    <3>5. Plain'
      BY <2>3, <3>2
    <3>6. /\ n \in Nat /\ n >= Len(toViewer)
          /\ \A i \in 1..Len(toViewer) : toViewer'[i] = toViewer[i]
      BY <2>5, <3>2 DEF n
    <3>7. CASE Whole
      <4>1. PICK i \in 1..Len(toViewer) : DOMAIN toViewer[i] = Profile /\ \A j \in 1..(i - 1) : Bare(j)
        BY <3>7
      <4>2. i \in 1..n /\ \A j \in 1..(i - 1) : j \in 1..Len(toViewer)
        BY <2>5, <3>6
      <4>3. Whole'
        BY <3>6, <4>1, <4>2 DEF n, Profile
      <4> HIDE DEF Whole, Plain
      <4>4. QED
        BY <2>3, <3>4, <3>5, <4>3
    <3>8. CASE Awaited
      <4>1. PICK i \in 1..Len(toDevice) :
              /\ toDevice[i].ask = Profile
              /\ \A j \in 1..i : DOMAIN toDevice[j].set = {}
              /\ \A j \in 1..(i - 1) : toDevice[j].ask = {"auto"}
        BY <3>8
      <4>2. 1 \in 1..i
        BY <2>5
      <4>3. DOMAIN m.set = {} /\ dev'["auto"] = 1
        BY <3>2, <3>8, <4>1, <4>2 DEF m
      <4>4. CASE i = 1
        <5>1. m.ask = Profile /\ Profile # {}
          BY <4>1, <4>4, Entries DEF m, Profile
        <5>2. /\ n = Len(toViewer) + 1 /\ DOMAIN toViewer'[n] = Profile
          BY <3>2, <5>1
        <5>3. n \in 1..n /\ \A j \in 1..(n - 1) : j \in 1..Len(toViewer)
          BY <2>5, <5>2
        <5>4. \A j \in 1..(n - 1) : Bare(j)'
          BY <3>6, <3>8, <5>3
        <5>5. Whole'
          BY <5>2, <5>3, <5>4 DEF n, Profile
        <5> HIDE DEF Whole, Plain
        <5>6. QED
          BY <2>3, <3>4, <3>5, <5>5
      <4>5. CASE i # 1
        <5>1. 1 \in 1..(i - 1)
          BY <4>5
        <5>2. m.ask = {"auto"}
          BY <4>1, <5>1 DEF m
        <5>3. n = Len(toViewer) + 1 /\ DOMAIN toViewer'[n] = {"auto"} /\ toViewer'[n]["auto"] = 1
          BY <3>2, <4>3, <5>2
        <5>4. \A j \in 1..n : j \in 1..Len(toViewer) \/ j = n
          BY <2>5, <5>3
        <5>5. \A j \in 1..n : Bare(j)'
          BY <3>6, <3>8, <5>3, <5>4
        <5>6. /\ i - 1 \in 1..Len(toDevice')
              /\ \A j \in 1..(i - 1) : j \in 1..Len(toDevice') /\ j + 1 \in 1..i
              /\ \A j \in 1..((i - 1) - 1) : j \in 1..Len(toDevice') /\ j + 1 \in 1..(i - 1)
          BY <2>5, <3>2, <4>5
        <5>7. /\ toDevice'[i - 1] = toDevice[i]
              /\ \A j \in 1..(i - 1) : toDevice'[j] = toDevice[j + 1]
              /\ \A j \in 1..((i - 1) - 1) : toDevice'[j] = toDevice[j + 1]
          BY <2>5, <3>2, <5>6
        <5>8. Coming'
          <6>1. toDevice'[i - 1].ask = Profile
            BY <4>1, <5>7
          <6>2. \A j \in 1..(i - 1) : DOMAIN toDevice'[j].set = {}
            BY <4>1, <5>6, <5>7
          <6>3. \A j \in 1..((i - 1) - 1) : toDevice'[j].ask = {"auto"}
            BY <4>1, <5>6, <5>7
          <6>4. QED
            BY <5>6, <6>1, <6>2, <6>3 DEF Profile
        <5>9. Awaited'
          BY <4>3, <5>5, <5>8 DEF n
        <5> HIDE DEF Awaited, Plain
        <5>10. QED
          BY <2>3, <3>4, <3>5, <5>9
      <4>6. QED
        BY <4>4, <4>5
    <3>9. QED
      BY <2>3, <3>7, <3>8
  <2>11. CASE Stream
    BY <2>3, <2>11 DEF Stream
  <2>12. CASE UNCHANGED vars
    BY <2>3, <2>12 DEF vars, viewer, device, Profile
  <2>13. QED
    BY <1>2, <2>7, <2>8, <2>9, <2>10, <2>11, <2>12 DEF Quietly
<1>3. QED
  BY <1>1, <1>2, BackSteps

-----------------------------------------------------------------------------
(* Across a flash: what is restored stays so.                              *)

LEMMA RightIsNotWrong == \A c, f : Right(c, f) => ~Wrong(c, f)
BY DEF Right, Wrong

LEMMA SettlesAfterWriting ==
  ASSUME Typed, NEW k, Settles(k), NEW ms \in Seq(Message), Write(ms),
         \A i \in 1..Len(ms) : k \in DOMAIN ms[i].set => ms[i].set[k] = conf[k],
         UNCHANGED <<conf, dev, class, toViewer>>
  PROVE  Settles(k)'
<1>1. /\ Len(toDevice) \in Nat /\ Len(toDevice') \in Nat
      /\ \A i \in 1..Len(toDevice) : toDevice'[i] = toDevice[i]
      /\ \A i \in 1..Len(toDevice') : i > Len(toDevice) =>
           i - Len(toDevice) \in 1..Len(ms) /\ toDevice'[i] = ms[i - Len(toDevice)]
  BY Writing, LenProperties DEF Typed, Cable
<1>2. \A i \in 1..Len(toDevice') : i \in 1..Len(toDevice) \/ i > Len(toDevice)
  BY <1>1
<1>3. \A i \in 1..Len(toDevice') : k \in DOMAIN toDevice'[i].set => toDevice'[i].set[k] = conf[k]
  BY <1>1, <1>2 DEF Settles
<1>4. QED
  BY <1>3 DEF Settles, Heard

LEMMA RangeAfterWriting ==
  ASSUME Typed, RangeSettles, NEW ms \in Seq(Message), Write(ms),
         \A i \in 1..Len(ms) : Paired(ms[i].set) =>
           /\ ~Wrong(conf, ms[i].set)
           /\ Right(conf, ms[i].set) <=> ~Wrong(conf, class),
         UNCHANGED <<conf, dev, class, toViewer>>
  PROVE  RangeSettles'
<1>1. /\ Len(toDevice) \in Nat /\ Len(toDevice') \in Nat
      /\ \A i \in 1..Len(toDevice) : toDevice'[i] = toDevice[i]
      /\ \A i \in 1..Len(toDevice') : i > Len(toDevice) =>
           i - Len(toDevice) \in 1..Len(ms) /\ toDevice'[i] = ms[i - Len(toDevice)]
  BY Writing, LenProperties DEF Typed, Cable
<1>2. \A i \in 1..Len(toDevice') : i \in 1..Len(toDevice) \/ i > Len(toDevice)
  BY <1>1
<1>3. DeviceSettles /\ ReportsSettle
  BY DEF RangeSettles
<1>4. \A i \in 1..Len(toDevice) : Paired(toDevice[i].set) =>
        /\ ~Wrong(conf, toDevice[i].set)
        /\ Right(conf, toDevice[i].set) =>
             \A j \in i..Len(toDevice) : Paired(toDevice[j].set) => Right(conf, toDevice[j].set)
        /\ Right(conf, dev) => Right(conf, toDevice[i].set)
        /\ Wrong(conf, class) => ~Right(conf, toDevice[i].set)
  BY DEF RangeSettles, SetsSettle
<1>5. \A i \in 1..Len(toDevice') : i > Len(toDevice) /\ Paired(toDevice'[i].set) =>
        /\ ~Wrong(conf, toDevice'[i].set)
        /\ Right(conf, toDevice'[i].set) <=> ~Wrong(conf, class)
  BY <1>1
<1>6. ASSUME NEW i \in 1..Len(toDevice'), Paired(toDevice'[i].set)
      PROVE  /\ ~Wrong(conf, toDevice'[i].set)
             /\ Right(conf, dev) => Right(conf, toDevice'[i].set)
             /\ Wrong(conf, class) => ~Right(conf, toDevice'[i].set)
  <2>1. CASE i \in 1..Len(toDevice)
    BY <1>1, <1>4, <1>6, <2>1
  <2>2. CASE i > Len(toDevice)
    BY <1>3, <1>5, <1>6, <2>2 DEF DeviceSettles
  <2>3. QED
    BY <1>2, <2>1, <2>2
<1>7. ASSUME NEW i \in 1..Len(toDevice'), Paired(toDevice'[i].set), Right(conf, toDevice'[i].set),
             NEW j \in i..Len(toDevice'), Paired(toDevice'[j].set)
      PROVE  Right(conf, toDevice'[j].set)
  <2>1. ~Wrong(conf, class) /\ j \in 1..Len(toDevice')
    BY <1>1, <1>6, <1>7
  <2>2. CASE j > Len(toDevice)
    BY <1>5, <1>7, <2>1, <2>2
  <2>3. CASE j \in 1..Len(toDevice)
    <3>1. i \in 1..Len(toDevice) /\ j \in i..Len(toDevice)
      BY <1>1, <2>3
    <3>2. QED
      BY <1>1, <1>4, <1>7, <3>1
  <2>4. QED
    BY <1>2, <2>1, <2>2, <2>3
<1>8. SetsSettle'
  BY <1>6, <1>7 DEF SetsSettle
<1>9. ReportsSettle' /\ DeviceSettles'
  BY <1>3 DEF ReportsSettle, DeviceSettles
<1>10. QED
  BY <1>8, <1>9 DEF RangeSettles

LEMMA DosAfterWriting ==
  ASSUME Typed, \A i \in 1..Len(toDevice) : toDevice[i].do \in {"nothing", "start"},
         NEW ms \in Seq(Message), Write(ms),
         \A i \in 1..Len(ms) : ms[i].do \in {"nothing", "start"}
  PROVE  \A i \in 1..Len(toDevice') : toDevice'[i].do \in {"nothing", "start"}
<1>1. /\ Len(toDevice) \in Nat /\ Len(toDevice') \in Nat
      /\ \A i \in 1..Len(toDevice) : toDevice'[i] = toDevice[i]
      /\ \A i \in 1..Len(toDevice') : i > Len(toDevice) =>
           i - Len(toDevice) \in 1..Len(ms) /\ toDevice'[i] = ms[i - Len(toDevice)]
  BY Writing, LenProperties DEF Typed, Cable
<1>2. \A i \in 1..Len(toDevice') : i \in 1..Len(toDevice) \/ i > Len(toDevice)
  BY <1>1
<1>3. QED
  BY <1>1, <1>2

\* What a restore sends.
LEMMA SettersAre ==
  ASSUME Typed, RestoreTimeout, Differing # <<>>
  PROVE  \E ms \in Seq(Message) :
           /\ Write(ms)
           /\ \A i \in 1..Len(ms) : \E k \in Configured :
                /\ conf[k] # class[k] /\ conf[k] \in Values
                /\ ms[i] = Setter(k, conf[k])
<1> DEFINE ms == [i \in DOMAIN Differing |-> Setter(Differing[i], conf[Differing[i]])]
<1>1. /\ Differing \in Seq(Configured)
      /\ \A i \in 1..Len(Differing) : conf[Differing[i]] \in Values /\ conf[Differing[i]] # class[Differing[i]]
      /\ class \in [Configured -> Values]
  BY DifferingIs DEF Typed, Inv, TypeOK
<1>2. /\ ms \in Seq(Message) /\ Len(ms) = Len(Differing)
      /\ \A i \in 1..Len(Differing) : ms[i] = Setter(Differing[i], conf[Differing[i]])
  BY <1>1, HonestSetters
<1>3. Write(ms)
  BY DEF RestoreTimeout
<1> HIDE DEF ms
<1>4. \A i \in 1..Len(Differing) : Differing[i] \in Configured
  BY <1>1, ElementOfSeq
<1>5. QED
  BY <1>1, <1>2, <1>3, <1>4

\* One that is recognised is still as it booted, and so are its reports.
LEMMA RestoreBegins ==
  ASSUME Typed, Stored, Unrecognised, Restores, Back, HandleMessage, srcId = 0,
         before' = before
  PROVE  /\ Wanted' /\ restoring'
         /\ \A k \in Relevant(before) \ {"length", "start"} : Settles(k)'
         /\ RangeSettles'
<1>1. /\ class = Zero /\ dev = DeviceBoot
      /\ \A i \in 1..Len(toDevice) : DOMAIN toDevice[i].set = {}
      /\ \A i \in 1..Len(toViewer) : \A k \in DOMAIN toViewer[i] : toViewer[i][k] = DeviceBoot[k]
      /\ toViewer # <<>> => DOMAIN toViewer[1] = {"auto"}
  BY DEF Unrecognised
<1>2. /\ Len(toViewer) \in Nat /\ 1 \in 1..Len(toViewer) /\ Len(toViewer') = Len(toViewer) - 1
      /\ \A i \in 1..Len(toViewer') : i + 1 \in 1..Len(toViewer) /\ toViewer'[i] = toViewer[i + 1]
      /\ \A k \in Configured : class'[k] = IF k \in DOMAIN toViewer[1] THEN toViewer[1][k]
                                                                      ELSE class[k]
      /\ conf' = Loaded /\ restoring' /\ Write(<<Ask(Profile)>>)
  BY HearingIs
<1>3. dev' = dev
  BY DEF HandleMessage, device
<1>4. DOMAIN toViewer[1] = {"auto"} /\ toViewer[1]["auto"] = DeviceBoot["auto"]
  BY <1>1, <1>2 DEF HandleMessage
<1>5. /\ class'["auto"] = DeviceBoot["auto"]
      /\ \A k \in Configured : k # "auto" => class'[k] = 0
  BY <1>1, <1>2, <1>4, Entries, ZeroAndNone
<1>6. \A i \in 1..Len(toViewer') : \A k \in DOMAIN toViewer'[i] : toViewer'[i][k] = DeviceBoot[k]
  BY <1>1, <1>2
<1>7. \A i \in 1..Len(toDevice') : DOMAIN toDevice'[i].set = {}
  <2>1. Ask(Profile) \in Message /\ DOMAIN Ask(Profile).set = {}
    BY KeySetsAre, AskIs, NothingIs
  <2>2. open
    BY DEF Back
  <2>3. /\ Len(toDevice) \in Nat /\ Len(toDevice') = Len(toDevice) + 1
        /\ \A i \in 1..Len(toDevice) : toDevice'[i] = toDevice[i]
        /\ toDevice'[Len(toDevice')] = Ask(Profile)
    BY <1>2, <2>1, <2>2, OneWritten DEF Typed, Cable
  <2>4. \A i \in 1..Len(toDevice') : i \in 1..Len(toDevice) \/ i = Len(toDevice')
    BY <2>3
  <2>5. QED
    BY <1>1, <2>1, <2>3, <2>4
<1>8. /\ \A k \in Configured : saved[k] \in Valid(k)
      /\ \A k \in Relevant(before) : saved[k] = before[k]
  BY DEF Back, Stored
<1>9. saved # None
  BY <1>8, Entries, ZeroAndNone, ValidValues DEF Values
<1>10. /\ \A k \in Configured : conf'[k] \in Valid(k)
       /\ \A k \in Relevant(before) : conf'[k] = before[k]
  BY <1>2, <1>8, <1>9, LoadedIs, RelevantIs
<1>11. Wanted'
  BY <1>10, RelevantSame DEF Wanted
<1>12. ASSUME NEW k \in Relevant(before) \ {"length", "start"} PROVE Settles(k)'
  <2>1. k \in Configured
    BY RelevantIs
  <2>2. ASSUME Heard(k)', class'[k] = conf'[k] PROVE dev'[k] = conf'[k]
    <3>1. CASE k = "auto"
      BY <1>1, <1>3, <1>5, <2>2, <3>1
    <3>2. CASE k = "gain"
      BY <1>5, <2>2, <3>2, Entries DEF Heard
    <3>3. CASE k \in {"interval", "speed"}
      <4>1. class'[k] = 0 /\ conf'[k] \in Valid(k)
        BY <1>5, <1>10, <2>1, <3>3
      <4>2. 0 \notin Valid(k)
        BY <3>3 DEF Valid
      <4>3. QED
        BY <2>2, <4>1, <4>2
    <3>4. QED
      BY <2>1, <3>1, <3>2, <3>3, Entries
  <2>3. \A i \in 1..Len(toViewer') : k \in DOMAIN toViewer'[i] => toViewer'[i][k] = dev'[k]
    BY <1>1, <1>3, <1>6
  <2>4. \A i \in 1..Len(toViewer') : \A j \in i..Len(toViewer') : j \in 1..Len(toViewer')
    BY <1>2
  <2>5. QED
    BY <1>7, <2>2, <2>3, <2>4 DEF Settles
<1>13. RangeSettles'
  <2>1. SetsSettle'
    BY <1>7 DEF SetsSettle, Paired
  <2>2. /\ class'["length"] = 0 /\ class'["start"] = 0
        /\ conf'["length"] # 0 /\ dev'["start"] = 0
    BY <1>1, <1>3, <1>5, <1>10, Entries, ValidValues DEF DeviceBoot, Default
  <2>3. /\ ~Right(conf', class')
        /\ ~Wrong(conf', class') => ~Wrong(conf', dev')
        /\ Wrong(conf', class') => ~Right(conf', dev')
    BY <2>2 DEF Right, Wrong
  <2>4. DeviceSettles'
    BY <2>3 DEF DeviceSettles
  <2>5. ASSUME NEW i \in 1..Len(toViewer'), Paired(toViewer'[i])
        PROVE  /\ Right(conf', toViewer'[i]) <=> Right(conf', dev')
               /\ Wrong(conf', toViewer'[i]) <=> Wrong(conf', dev')
    BY <1>1, <1>3, <1>6, <2>5 DEF Paired, Right, Wrong
  <2>6. \A i \in 1..Len(toViewer') : \A j \in i..Len(toViewer') : j \in 1..Len(toViewer')
    BY <1>2
  <2>7. ReportsSettle'
    BY <2>3, <2>5, <2>6 DEF ReportsSettle
  <2>8. QED
    BY <2>1, <2>4, <2>7 DEF RangeSettles
<1>14. QED
  BY <1>2, <1>11, <1>12, <1>13

LEMMA RestoreHears ==
  ASSUME Typed, Stored, ProfileComes, Restores, Back, HandleMessage, srcId = 1,
         before' = before
  PROVE  /\ \A k \in Relevant(before) \ {"length", "start"} : Settles(k)'
         /\ before["auto"] = 0 => RangeSettles'
<1>1. /\ Len(toViewer) \in Nat /\ 1 \in 1..Len(toViewer) /\ Len(toViewer') = Len(toViewer) - 1
      /\ \A i \in 1..Len(toViewer') : i + 1 \in 1..Len(toViewer) /\ toViewer'[i] = toViewer[i + 1]
      /\ toViewer[1] \in Parts
      /\ \A k \in Configured : class'[k] = IF k \in DOMAIN toViewer[1] THEN toViewer[1][k]
                                                                      ELSE class[k]
      /\ UNCHANGED <<conf, restoring, toDevice>>
  BY HearingIs
<1>2. dev' = dev
  BY DEF HandleMessage, device
<1>3. /\ \A k \in Relevant(before) \ {"length", "start"} : Settles(k)
      /\ before["auto"] = 0 => RangeSettles
  BY DEF Restores
<1>4. \A i \in 1..Len(toViewer') : \A j \in i..Len(toViewer') :
         j \in 1..Len(toViewer') /\ j + 1 \in (i + 1)..Len(toViewer) /\ j + 1 \in 1..Len(toViewer)
  BY <1>1
<1>5. ASSUME NEW k \in Relevant(before) \ {"length", "start"} PROVE Settles(k)'
  <2>1. k \in Configured /\ Settles(k)
    BY <1>3, RelevantIs
  <2>2. \A i \in 1..Len(toDevice') : k \in DOMAIN toDevice'[i].set => toDevice'[i].set[k] = conf'[k]
    BY <1>1, <2>1 DEF Settles
  <2>3. \A i \in 1..Len(toViewer') :
           k \in DOMAIN toViewer'[i] /\ toViewer'[i][k] = conf'[k] =>
             /\ dev'[k] = conf'[k]
             /\ \A j \in i..Len(toViewer') : k \in DOMAIN toViewer'[j] => toViewer'[j][k] = conf'[k]
    <3>1. ASSUME NEW i \in 1..Len(toViewer'), k \in DOMAIN toViewer'[i], toViewer'[i][k] = conf[k]
          PROVE  /\ dev[k] = conf[k]
                 /\ \A j \in i..Len(toViewer') : k \in DOMAIN toViewer'[j] => toViewer'[j][k] = conf[k]
      <4>1. i + 1 \in 1..Len(toViewer) /\ toViewer'[i] = toViewer[i + 1]
        BY <1>1
      <4>2. /\ dev[k] = conf[k]
            /\ \A j \in (i + 1)..Len(toViewer) : k \in DOMAIN toViewer[j] => toViewer[j][k] = conf[k]
        BY <2>1, <3>1, <4>1 DEF Settles
      <4>3. \A j \in i..Len(toViewer') : j + 1 \in (i + 1)..Len(toViewer) /\ toViewer'[j] = toViewer[j + 1]
        BY <1>1, <1>4
      <4>4. QED
        BY <4>2, <4>3
    <3>2. QED
      BY <1>1, <1>2, <3>1
  <2>4. ASSUME Heard(k)', class'[k] = conf'[k]
        PROVE  /\ dev[k] = conf[k]
               /\ \A j \in 1..Len(toViewer) : k \in DOMAIN toViewer[j] => toViewer[j][k] = conf[k]
    <3>1. CASE k \in DOMAIN toViewer[1]
      BY <1>1, <2>1, <2>4, <3>1 DEF Settles
    <3>2. CASE k \notin DOMAIN toViewer[1]
      <4>1. class[k] = conf[k]
        BY <1>1, <2>1, <2>4, <3>2
      <4>2. Heard(k)
        <5>1. SUFFICES ASSUME k = "gain", class["length"] = 0 PROVE FALSE
          BY DEF Heard
        <5>2. "length" \in DOMAIN toViewer[1]
          BY <1>1, <2>4, <5>1, Entries DEF Heard
        <5>3. before["auto"] = 0
          BY <5>1, AutoIs DEF Relevant
        <5>4. \/ \E i \in 1..Len(toViewer) :
                   /\ DOMAIN toViewer[i] = Profile
                   /\ \A j \in 1..(i - 1) : DOMAIN toViewer[j] = {"auto"}
              \/ \A j \in 1..Len(toViewer) : DOMAIN toViewer[j] = {"auto"}
          BY <5>1, <5>3 DEF ProfileComes
        <5>5. DOMAIN toViewer[1] = Profile \/ DOMAIN toViewer[1] = {"auto"}
          <6>1. CASE \A j \in 1..Len(toViewer) : DOMAIN toViewer[j] = {"auto"}
            BY <1>1, <6>1
          <6>2. ASSUME NEW i \in 1..Len(toViewer), DOMAIN toViewer[i] = Profile,
                       \A j \in 1..(i - 1) : DOMAIN toViewer[j] = {"auto"}
                PROVE  DOMAIN toViewer[1] = Profile \/ DOMAIN toViewer[1] = {"auto"}
            <7>1. i = 1 \/ 1 \in 1..(i - 1)
              BY <1>1
            <7>2. QED
              BY <6>2, <7>1
          <6>3. QED
            BY <5>4, <6>1, <6>2
        <5>6. QED
          BY <2>1, <3>2, <5>1, <5>2, <5>5 DEF Profile
      <4>3. QED
        BY <2>1, <4>1, <4>2 DEF Settles
    <3>3. QED
      BY <3>1, <3>2
  <2>5. Heard(k)' /\ class'[k] = conf'[k] =>
           /\ dev'[k] = conf'[k]
           /\ \A j \in 1..Len(toViewer') : k \in DOMAIN toViewer'[j] => toViewer'[j][k] = conf'[k]
    BY <1>1, <1>2, <2>4
  <2>6. QED
    BY <2>2, <2>3, <2>5 DEF Settles
<1>6. ASSUME before["auto"] = 0 PROVE RangeSettles'
  <2>1. /\ \A i \in 1..Len(toDevice) : Paired(toDevice[i].set) =>
             /\ ~Wrong(conf, toDevice[i].set)
             /\ Right(conf, toDevice[i].set) =>
                  \A j \in i..Len(toDevice) : Paired(toDevice[j].set) => Right(conf, toDevice[j].set)
             /\ Right(conf, dev) => Right(conf, toDevice[i].set)
             /\ Wrong(conf, class) => ~Right(conf, toDevice[i].set)
    BY <1>3, <1>6 DEF RangeSettles, SetsSettle
  <2>2. \A i \in 1..Len(toViewer) : Paired(toViewer[i]) =>
          /\ Right(conf, toViewer[i]) =>
               /\ Right(conf, dev)
               /\ \A j \in i..Len(toViewer) : Paired(toViewer[j]) => Right(conf, toViewer[j])
          /\ ~Wrong(conf, toViewer[i]) =>
               /\ ~Wrong(conf, dev)
               /\ \A j \in i..Len(toViewer) : Paired(toViewer[j]) => ~Wrong(conf, toViewer[j])
          /\ Right(conf, class) => Right(conf, toViewer[i])
          /\ ~Wrong(conf, class) => ~Wrong(conf, toViewer[i])
          /\ Wrong(conf, class) => ~Right(conf, toViewer[i])
    BY <1>3, <1>6 DEF RangeSettles, ReportsSettle
  <2>3. /\ Right(conf, class) => Right(conf, dev)
        /\ ~Wrong(conf, class) => ~Wrong(conf, dev)
        /\ Wrong(conf, class) => ~Right(conf, dev)
    BY <1>3, <1>6 DEF RangeSettles, DeviceSettles
  <2>4. \/ /\ Right(conf, class') <=> Right(conf, class)
           /\ Wrong(conf, class') <=> Wrong(conf, class)
        \/ /\ Paired(toViewer[1])
           /\ Right(conf, class') <=> Right(conf, toViewer[1])
           /\ Wrong(conf, class') <=> Wrong(conf, toViewer[1])
    <3>1. "length" \in DOMAIN toViewer[1] <=> "start" \in DOMAIN toViewer[1]
      BY <1>1, PartIs
    <3>2. QED
      BY <1>1, <3>1, Entries DEF Right, Wrong, Paired
  <2>5. /\ Right(conf, class') => Right(conf, dev)
        /\ ~Wrong(conf, class') => ~Wrong(conf, dev)
        /\ Wrong(conf, class') => Wrong(conf, class)
        /\ Right(conf, class') => \A j \in 1..Len(toViewer) : Paired(toViewer[j]) => Right(conf, toViewer[j])
        /\ ~Wrong(conf, class') => \A j \in 1..Len(toViewer) : Paired(toViewer[j]) => ~Wrong(conf, toViewer[j])
    BY <1>1, <2>2, <2>3, <2>4
  <2>6. SetsSettle'
    <3>1. /\ toDevice' = toDevice /\ conf' = conf /\ dev' = dev
      BY <1>1, <1>2
    <3>2. QED
      BY <2>1, <2>5, <3>1 DEF SetsSettle
  <2>7. DeviceSettles'
    BY <1>1, <1>2, <2>3, <2>5 DEF DeviceSettles
  <2>8. ASSUME NEW i \in 1..Len(toViewer'), Paired(toViewer'[i])
        PROVE  /\ Right(conf, toViewer'[i]) =>
                    /\ Right(conf, dev)
                    /\ \A j \in i..Len(toViewer') : Paired(toViewer'[j]) => Right(conf, toViewer'[j])
               /\ ~Wrong(conf, toViewer'[i]) =>
                    /\ ~Wrong(conf, dev)
                    /\ \A j \in i..Len(toViewer') : Paired(toViewer'[j]) => ~Wrong(conf, toViewer'[j])
               /\ Right(conf, class') => Right(conf, toViewer'[i])
               /\ ~Wrong(conf, class') => ~Wrong(conf, toViewer'[i])
               /\ Wrong(conf, class') => ~Right(conf, toViewer'[i])
    <3>1. i + 1 \in 1..Len(toViewer) /\ toViewer'[i] = toViewer[i + 1] /\ Paired(toViewer[i + 1])
      BY <1>1, <2>8
    <3>2. \A j \in i..Len(toViewer') : j + 1 \in (i + 1)..Len(toViewer) /\ toViewer'[j] = toViewer[j + 1]
      BY <1>1, <1>4
    <3>3. QED
      BY <2>2, <2>5, <3>1, <3>2
  <2>9. ReportsSettle'
    BY <1>1, <1>2, <2>8 DEF ReportsSettle
  <2>10. QED
    BY <2>6, <2>7, <2>9 DEF RangeSettles
<1>7. QED
  BY <1>5, <1>6

LEMMA RestoreIsObeyed ==
  ASSUME Typed, Restores, Back, Serve, Obey(Head(toDevice)), srcId = 1, before' = before
  PROVE  /\ \A k \in Relevant(before) \ {"length", "start"} : Settles(k)'
         /\ before["auto"] = 0 => RangeSettles'
         /\ ~restoring => Restored'
<1> DEFINE m == toDevice[1]
<1>1. open /\ UNCHANGED <<class, conf, restoring>>
  BY DEF Serve, Back, viewer
<1>2. /\ Len(toDevice) \in Nat /\ 1 \in 1..Len(toDevice) /\ Len(toDevice') = Len(toDevice) - 1
      /\ \A i \in 1..Len(toDevice') : i + 1 \in 1..Len(toDevice) /\ toDevice'[i] = toDevice[i + 1]
      /\ m \in Message
      /\ \/ \A k \in Configured : dev'[k] = dev[k]
         \/ \A k \in Configured : dev'[k] = IF k \in DOMAIN m.set THEN m.set[k] ELSE dev[k]
      /\ Len(toViewer) \in Nat
      /\ \/ m.ask = {} /\ toViewer' = toViewer
         \/ /\ m.ask # {} /\ Len(toViewer') = Len(toViewer) + 1
            /\ \A i \in 1..Len(toViewer) : toViewer'[i] = toViewer[i]
            /\ DOMAIN toViewer'[Len(toViewer')] = m.ask
            /\ \A k \in m.ask : toViewer'[Len(toViewer')][k] = dev'[k]
  BY <1>1, ObeyIs
<1> HIDE DEF m
<1>3. /\ \A k \in Relevant(before) \ {"length", "start"} : Settles(k)
      /\ before["auto"] = 0 => RangeSettles
      /\ Wanted /\ (~restoring => Restored)
  BY DEF Restores
\* A report is an old one, or tells what the device is set to.
<1>4. /\ Len(toViewer') \in Nat /\ Len(toViewer') >= Len(toViewer)
      /\ \A i \in 1..Len(toViewer) : toViewer'[i] = toViewer[i]
      /\ \A i \in 1..Len(toViewer') :
           \/ i \in 1..Len(toViewer)
           \/ /\ i = Len(toViewer')
              /\ \A k \in DOMAIN toViewer'[i] : toViewer'[i][k] = dev'[k]
  BY <1>2
<1>5. \A i \in 1..Len(toDevice') : \A j \in i..Len(toDevice') :
         j + 1 \in (i + 1)..Len(toDevice) /\ toDevice'[j] = toDevice[j + 1]
  BY <1>2
<1>6. \A i \in 1..Len(toViewer') : \A j \in i..Len(toViewer') :
         /\ j \in 1..Len(toViewer')
         /\ j \in 1..Len(toViewer) => i \in 1..Len(toViewer) /\ j \in i..Len(toViewer)
  BY <1>2, <1>4
<1>7. ASSUME NEW k \in Relevant(before) \ {"length", "start"}
      PROVE  Settles(k)' /\ (dev[k] = conf[k] => dev'[k] = conf[k])
  <2>1. k \in Configured
    BY RelevantIs
  <2>2. /\ \A i \in 1..Len(toDevice) :
             k \in DOMAIN toDevice[i].set => toDevice[i].set[k] = conf[k]
        /\ \A i \in 1..Len(toViewer) :
             k \in DOMAIN toViewer[i] /\ toViewer[i][k] = conf[k] =>
               /\ dev[k] = conf[k]
               /\ \A j \in i..Len(toViewer) : k \in DOMAIN toViewer[j] => toViewer[j][k] = conf[k]
        /\ Heard(k) /\ class[k] = conf[k] =>
             /\ dev[k] = conf[k]
             /\ \A j \in 1..Len(toViewer) : k \in DOMAIN toViewer[j] => toViewer[j][k] = conf[k]
    BY <1>3 DEF Settles
  <2>3. dev[k] = conf[k] => dev'[k] = conf[k]
    BY <1>2, <2>1, <2>2 DEF m
  <2>4. \A i \in 1..Len(toDevice') : k \in DOMAIN toDevice'[i].set => toDevice'[i].set[k] = conf[k]
    BY <1>2, <2>2
  <2>5. ASSUME NEW i \in 1..Len(toViewer'), k \in DOMAIN toViewer'[i], toViewer'[i][k] = conf[k]
        PROVE  /\ dev'[k] = conf[k]
               /\ \A j \in i..Len(toViewer') : k \in DOMAIN toViewer'[j] => toViewer'[j][k] = conf[k]
    <3>1. dev'[k] = conf[k]
      BY <1>4, <2>2, <2>3, <2>5
    <3>2. ASSUME NEW j \in i..Len(toViewer'), k \in DOMAIN toViewer'[j] PROVE toViewer'[j][k] = conf[k]
      <4>1. CASE j \in 1..Len(toViewer)
        BY <1>4, <1>6, <2>2, <2>5, <3>2, <4>1
      <4>2. CASE j \notin 1..Len(toViewer)
        BY <1>4, <1>6, <3>1, <3>2, <4>2
      <4>3. QED
        BY <4>1, <4>2
    <3>3. QED
      BY <3>1, <3>2
  <2>6. ASSUME Heard(k), class[k] = conf[k]
        PROVE  /\ dev'[k] = conf[k]
               /\ \A j \in 1..Len(toViewer') : k \in DOMAIN toViewer'[j] => toViewer'[j][k] = conf[k]
    BY <1>4, <2>2, <2>3, <2>6
  <2>7. Heard(k)' <=> Heard(k)
    BY <1>1 DEF Heard
  <2>8. QED
    BY <1>1, <2>3, <2>4, <2>5, <2>6, <2>7 DEF Settles
<1>8. ASSUME before["auto"] = 0
      PROVE  RangeSettles' /\ (Right(conf, dev) => Right(conf, dev'))
  <2>1. \A i \in 1..Len(toDevice) : Paired(toDevice[i].set) =>
          /\ ~Wrong(conf, toDevice[i].set)
          /\ Right(conf, toDevice[i].set) =>
               \A j \in i..Len(toDevice) : Paired(toDevice[j].set) => Right(conf, toDevice[j].set)
          /\ Right(conf, dev) => Right(conf, toDevice[i].set)
          /\ Wrong(conf, class) => ~Right(conf, toDevice[i].set)
    BY <1>3, <1>8 DEF RangeSettles, SetsSettle
  <2>2. \A i \in 1..Len(toViewer) : Paired(toViewer[i]) =>
          /\ Right(conf, toViewer[i]) =>
               /\ Right(conf, dev)
               /\ \A j \in i..Len(toViewer) : Paired(toViewer[j]) => Right(conf, toViewer[j])
          /\ ~Wrong(conf, toViewer[i]) =>
               /\ ~Wrong(conf, dev)
               /\ \A j \in i..Len(toViewer) : Paired(toViewer[j]) => ~Wrong(conf, toViewer[j])
          /\ Right(conf, class) => Right(conf, toViewer[i])
          /\ ~Wrong(conf, class) => ~Wrong(conf, toViewer[i])
          /\ Wrong(conf, class) => ~Right(conf, toViewer[i])
    BY <1>3, <1>8 DEF RangeSettles, ReportsSettle
  <2>3. /\ Right(conf, class) => Right(conf, dev)
        /\ ~Wrong(conf, class) => ~Wrong(conf, dev)
        /\ Wrong(conf, class) => ~Right(conf, dev)
    BY <1>3, <1>8 DEF RangeSettles, DeviceSettles
  <2>4. \/ /\ Right(conf, dev') <=> Right(conf, dev)
           /\ Wrong(conf, dev') <=> Wrong(conf, dev)
        \/ /\ Paired(m.set)
           /\ Right(conf, dev') <=> Right(conf, m.set)
           /\ Wrong(conf, dev') <=> Wrong(conf, m.set)
    <3>1. "length" \in DOMAIN m.set <=> "start" \in DOMAIN m.set
      BY <1>2, PartIs DEF Message
    <3>2. QED
      BY <1>2, <3>1, Entries DEF Right, Wrong, Paired
  <2>5. Paired(m.set) =>
          /\ ~Wrong(conf, m.set)
          /\ Right(conf, m.set) =>
               \A j \in 1..Len(toDevice) : Paired(toDevice[j].set) => Right(conf, toDevice[j].set)
          /\ Right(conf, dev) => Right(conf, m.set)
          /\ Wrong(conf, class) => ~Right(conf, m.set)
    BY <1>2, <2>1 DEF m
  <2>6. /\ Right(conf, dev) => Right(conf, dev')
        /\ ~Wrong(conf, dev) => ~Wrong(conf, dev')
        /\ Wrong(conf, class) => ~Right(conf, dev')
        /\ Right(conf, dev') => \A j \in 1..Len(toDevice) : Paired(toDevice[j].set) => Right(conf, toDevice[j].set)
    BY <2>1, <2>3, <2>4, <2>5
  <2>7. SetsSettle'
    <3>1. ASSUME NEW i \in 1..Len(toDevice'), Paired(toDevice'[i].set)
          PROVE  /\ ~Wrong(conf, toDevice'[i].set)
                 /\ Right(conf, toDevice'[i].set) =>
                      \A j \in i..Len(toDevice') : Paired(toDevice'[j].set) => Right(conf, toDevice'[j].set)
                 /\ Right(conf, dev') => Right(conf, toDevice'[i].set)
                 /\ Wrong(conf, class) => ~Right(conf, toDevice'[i].set)
      <4>1. i + 1 \in 1..Len(toDevice) /\ toDevice'[i] = toDevice[i + 1] /\ Paired(toDevice[i + 1].set)
        BY <1>2, <3>1
      <4>2. QED
        BY <1>5, <2>1, <2>6, <4>1
    <3>2. QED
      BY <1>1, <3>1 DEF SetsSettle
  <2>8. DeviceSettles'
    BY <1>1, <2>3, <2>6 DEF DeviceSettles
  <2>9. ASSUME NEW i \in 1..Len(toViewer'), Paired(toViewer'[i]), i \notin 1..Len(toViewer)
        PROVE  /\ Right(conf, toViewer'[i]) <=> Right(conf, dev')
               /\ Wrong(conf, toViewer'[i]) <=> Wrong(conf, dev')
    BY <1>4, <2>9 DEF Paired, Right, Wrong
  <2>10. ASSUME NEW i \in 1..Len(toViewer'), Paired(toViewer'[i])
         PROVE  /\ Right(conf, toViewer'[i]) => Right(conf, dev')
                /\ ~Wrong(conf, toViewer'[i]) => ~Wrong(conf, dev')
                /\ Right(conf, class) => Right(conf, toViewer'[i])
                /\ ~Wrong(conf, class) => ~Wrong(conf, toViewer'[i])
                /\ Wrong(conf, class) => ~Right(conf, toViewer'[i])
    <3>1. CASE i \in 1..Len(toViewer)
      BY <1>4, <2>2, <2>6, <2>10, <3>1
    <3>2. CASE i \notin 1..Len(toViewer)
      BY <2>3, <2>6, <2>9, <2>10, <3>2
    <3>3. QED
      BY <3>1, <3>2
  <2>11. ASSUME NEW i \in 1..Len(toViewer'), Paired(toViewer'[i]),
                NEW j \in i..Len(toViewer'), Paired(toViewer'[j])
         PROVE  /\ Right(conf, toViewer'[i]) => Right(conf, toViewer'[j])
                /\ ~Wrong(conf, toViewer'[i]) => ~Wrong(conf, toViewer'[j])
    <3>1. CASE j \in 1..Len(toViewer)
      <4>1. i \in 1..Len(toViewer) /\ j \in i..Len(toViewer)
        BY <1>6, <3>1
      <4>2. QED
        BY <1>4, <2>2, <2>11, <3>1, <4>1
    <3>2. CASE j \notin 1..Len(toViewer)
      BY <1>6, <2>9, <2>10, <2>11, <3>2
    <3>3. QED
      BY <3>1, <3>2
  <2>12. ReportsSettle'
    BY <1>1, <2>10, <2>11 DEF ReportsSettle
  <2>13. QED
    BY <2>6, <2>7, <2>8, <2>12 DEF RangeSettles
<1>9. ASSUME ~restoring PROVE Restored'
  <2>1. \A k \in Relevant(before) : dev[k] = before[k] /\ conf[k] = before[k]
    BY <1>3, <1>9 DEF Restored, Wanted
  <2>2. \A k \in Relevant(before) \ {"length", "start"} : dev'[k] = before[k]
    BY <1>7, <2>1
  <2>3. ASSUME NEW k \in Relevant(before) \cap {"length", "start"} PROVE dev'[k] = before[k]
    <3>1. before["auto"] # 1
      BY DEF Relevant
    <3>2. before["auto"] = 0 /\ "length" \in Relevant(before) /\ "start" \in Relevant(before)
      <4>1. before["auto"] = conf["auto"] /\ conf["auto"] \in {0, 1}
        BY <1>3, <2>1, RelevantIs, Entries DEF Wanted, Valid
      <4>2. QED
        BY <3>1, <4>1, Entries DEF Relevant
    <3>3. Right(conf, dev)
      BY <2>1, <3>2 DEF Right
    <3>4. Right(conf, dev')
      BY <1>8, <3>2, <3>3
    <3>5. QED
      BY <2>1, <3>4 DEF Right
  <2>4. QED
    BY <2>2, <2>3, RelevantSame DEF Restored
<1>10. QED
  BY <1>7, <1>8, <1>9

LEMMA RestoreIsStreamed ==
  ASSUME Typed, Restores, Back, Stream, srcId = 1, before' = before
  PROVE  /\ \A k \in Relevant(before) \ {"length", "start"} : Settles(k)'
         /\ before["auto"] = 0 => RangeSettles'
<1> DEFINE f == [k \in Profile |-> dev[k]]
<1>1. toViewer' = <<f>> /\ UNCHANGED <<class, conf, dev, toDevice>>
  BY DEF Stream, viewer, device
<1>2. \A k \in DOMAIN f : f[k] = dev[k]
  OBVIOUS
<1> HIDE DEF f
<1>3. Len(toViewer') = 1 /\ toViewer'[1] = f
  BY <1>1
<1>4. /\ \A k \in Relevant(before) \ {"length", "start"} : Settles(k)
      /\ before["auto"] = 0 => RangeSettles
  BY DEF Restores
<1>5. \A i \in 1..Len(toViewer') : toViewer'[i] = f
  BY <1>3
<1>6. \A i \in 1..Len(toViewer') : \A j \in i..Len(toViewer') : j \in 1..Len(toViewer')
  BY <1>3
<1>7. ASSUME NEW k \in Relevant(before) \ {"length", "start"} PROVE Settles(k)'
  <2>1. Settles(k)
    BY <1>4
  <2>2. QED
    BY <1>1, <1>2, <1>5, <1>6, <2>1 DEF Settles, Heard
<1>8. ASSUME before["auto"] = 0 PROVE RangeSettles'
  <2>1. SetsSettle /\ DeviceSettles
    BY <1>4, <1>8 DEF RangeSettles
  <2>2. SetsSettle' /\ DeviceSettles'
    BY <1>1, <2>1 DEF SetsSettle, DeviceSettles
  <2>3. Paired(f) => /\ Right(conf, f) <=> Right(conf, dev)
                     /\ Wrong(conf, f) <=> Wrong(conf, dev)
    BY <1>2 DEF Paired, Right, Wrong
  <2>4. ReportsSettle'
    BY <1>1, <1>5, <1>6, <2>1, <2>3 DEF ReportsSettle, DeviceSettles
  <2>5. QED
    BY <2>2, <2>4 DEF RangeSettles
<1>9. QED
  BY <1>7, <1>8

LEMMA RestoreSends ==
  ASSUME Typed, Stored, Unrecognised, Restores, Back, RestoreTimeout, before' = before
  PROVE  /\ srcId = 1
         /\ \A i \in 1..Len(toDevice') : toDevice'[i].do \in {"nothing", "start"}
         /\ \A k \in Relevant(before) \ {"length", "start"} : Settles(k)'
         /\ before["auto"] = 0 => RangeSettles'
         /\ ~restoring' => Restored'
<1>1. restoring /\ open /\ UNCHANGED <<conf, dev, class, toViewer>>
  BY DEF RestoreTimeout, Back, device
<1>2. srcId = 1
  BY <1>1 DEF Unrecognised, Typed, Inv, TypeOK
<1>3. /\ \A i \in 1..Len(toDevice) : toDevice[i].do \in {"nothing", "start"}
      /\ \A k \in Relevant(before) \ {"length", "start"} : Settles(k)
      /\ before["auto"] = 0 => RangeSettles
      /\ Wanted
  BY <1>2 DEF Restores
<1>4. CASE Differing = <<>>
  <2> DEFINE ms == <<Do("start")>>
  <2>1. Do("start") \in Message /\ DOMAIN Do("start").set = {} /\ Do("start").do = "start"
    BY DoIs, NothingIs
  <2>2. /\ ms \in Seq(Message) /\ Write(ms)
        /\ \A i \in 1..Len(ms) : DOMAIN ms[i].set = {} /\ ms[i].do = "start"
    BY <1>4, <2>1, OneMessage DEF RestoreTimeout
  <2> HIDE DEF ms
  <2>3. \A i \in 1..Len(ms) : ~Paired(ms[i].set)
    BY <2>2 DEF Paired
  <2>4. \A i \in 1..Len(toDevice') : toDevice'[i].do \in {"nothing", "start"}
    BY <1>3, <2>2, DosAfterWriting
  <2>5. ASSUME NEW k \in Relevant(before) \ {"length", "start"} PROVE Settles(k)'
    BY <1>1, <1>3, <2>2, SettlesAfterWriting
  <2>6. before["auto"] = 0 => RangeSettles'
    BY <1>1, <1>3, <2>2, <2>3, RangeAfterWriting
  <2>7. Restored'
    <3>1. conf["auto"] = before["auto"] /\ Relevant(conf) = Relevant(before)
      BY <1>3, RelevantIs DEF Wanted
    <3>2. \A k \in Relevant(before) : class[k] = conf[k] /\ conf[k] = before[k] /\ conf[k] \in Valid(k)
      BY <1>3, <1>4, <3>1, DifferingIs, RelevantIs DEF Wanted
    <3>3. ASSUME NEW k \in Relevant(before) \ {"length", "start"} PROVE dev[k] = before[k]
      <4>1. Heard(k)
        <5>1. SUFFICES ASSUME k = "gain" PROVE class["length"] # 0
          BY DEF Heard
        <5>2. "length" \in Relevant(before)
          BY <5>1, Entries DEF Relevant
        <5>3. QED
          BY <3>2, <5>2, ValidValues
      <4>2. QED
        BY <1>3, <3>2, <4>1 DEF Settles
    <3>4. ASSUME NEW k \in Relevant(before) \cap {"length", "start"} PROVE dev[k] = before[k]
      <4>1. before["auto"] = 0 /\ "length" \in Relevant(before) /\ "start" \in Relevant(before)
        BY AutoIs, Entries DEF Relevant
      <4>2. Right(conf, class)
        BY <3>2, <4>1 DEF Right
      <4>3. Right(conf, dev)
        BY <1>3, <4>1, <4>2 DEF RangeSettles, DeviceSettles
      <4>4. QED
        BY <3>2, <4>3 DEF Right
    <3>5. QED
      BY <1>1, <3>3, <3>4, RelevantSame DEF Restored
  <2>8. QED
    BY <1>2, <2>4, <2>5, <2>6, <2>7
<1>5. CASE Differing # <<>>
  <2>1. PICK ms \in Seq(Message) :
           /\ Write(ms)
           /\ \A i \in 1..Len(ms) : \E k \in Configured :
                /\ conf[k] # class[k] /\ conf[k] \in Values
                /\ ms[i] = Setter(k, conf[k])
    BY <1>5, SettersAre
  <2>2. class \in [Configured -> Values]
    BY DEF Typed, Inv, TypeOK
  <2>3. ASSUME NEW i \in 1..Len(ms)
        PROVE  /\ ms[i].do = "nothing"
               /\ \A k \in DOMAIN ms[i].set : k \notin {"length", "start"} => ms[i].set[k] = conf[k]
               /\ Paired(ms[i].set) =>
                    /\ ~Wrong(conf, ms[i].set)
                    /\ Right(conf, ms[i].set) <=> ~Wrong(conf, class)
    <3>1. PICK k \in Configured :
             /\ conf[k] # class[k] /\ conf[k] \in Values
             /\ ms[i] = Setter(k, conf[k])
      BY <2>1
    <3>2. /\ ms[i].do = "nothing" /\ DOMAIN ms[i].set = Together(k)
          /\ \A j \in Together(k) : ms[i].set[j] = IF j = k THEN conf[k] ELSE class[j]
      BY <2>2, <3>1, SetterIs
    <3>3. CASE k \in {"length", "start"}
      BY <3>1, <3>2, <3>3 DEF Together, Paired, Right, Wrong
    <3>4. CASE k \notin {"length", "start"}
      BY <3>2, <3>4 DEF Together, Paired
    <3>5. QED
      BY <3>3, <3>4
  <2>4. \A i \in 1..Len(toDevice') : toDevice'[i].do \in {"nothing", "start"}
    BY <1>3, <2>1, <2>3, DosAfterWriting
  <2>5. ASSUME NEW k \in Relevant(before) \ {"length", "start"} PROVE Settles(k)'
    <3>1. Settles(k) /\ \A i \in 1..Len(ms) : k \in DOMAIN ms[i].set => ms[i].set[k] = conf[k]
      BY <1>3, <2>3
    <3>2. QED
      BY <1>1, <2>1, <3>1, SettlesAfterWriting
  <2>6. before["auto"] = 0 => RangeSettles'
    BY <1>1, <1>3, <2>1, <2>3, RangeAfterWriting
  <2>7. restoring'
    BY <1>1, <1>5 DEF RestoreTimeout
  <2>8. QED
    BY <1>2, <2>4, <2>5, <2>6, <2>7
<1>6. QED
  BY <1>4, <1>5

LEMMA RestoresStep ==
  ASSUME Typed, Stored, Unrecognised, ProfileComes, Restores, [Next]_vars
  PROVE  Restores'
<1> SUFFICES ASSUME Back' PROVE Restores'
  BY DEF Restores
<1>1. CASE ProcessFinishes
  BY <1>1, Returning DEF Restores
<1>2. CASE Quietly /\ Back /\ UNCHANGED <<open, before, saved>>
  <2>1. /\ mode = "application" /\ open /\ before' = before
        /\ \A i \in 1..Len(toDevice) : toDevice[i].do \in {"nothing", "start"}
        /\ srcId = 1 =>
             /\ Wanted
             /\ \A k \in Relevant(before) \ {"length", "start"} : Settles(k)
             /\ before["auto"] = 0 => RangeSettles
             /\ ~restoring => Restored
    BY <1>2 DEF Restores, Back
  <2>2. Relevant(before)' = Relevant(before)
    BY <2>1, RelevantSame
  <2>3. CASE PeriodicTimeout
    <3> DEFINE ms == <<Ask({"auto"})>>
    <3>1. Ask({"auto"}) \in Message /\ DOMAIN Ask({"auto"}).set = {} /\ Ask({"auto"}).do = "nothing"
      BY KeySetsAre, AskIs, NothingIs
    <3>2. /\ ms \in Seq(Message) /\ Write(ms)
          /\ \A i \in 1..Len(ms) : DOMAIN ms[i].set = {} /\ ms[i].do = "nothing"
      BY <2>1, <2>3, <3>1, OneMessage DEF PeriodicTimeout
    <3>3. UNCHANGED <<conf, dev, class, toViewer, srcId, restoring, mode>>
      BY <2>3 DEF PeriodicTimeout, device
    <3> HIDE DEF ms
    <3>4. \A i \in 1..Len(ms) : ~Paired(ms[i].set)
      BY <3>2 DEF Paired
    <3>5. \A i \in 1..Len(toDevice') : toDevice'[i].do \in {"nothing", "start"}
      BY <2>1, <3>2, DosAfterWriting
    <3>6. ASSUME srcId = 1, NEW k \in Relevant(before) \ {"length", "start"} PROVE Settles(k)'
      BY <2>1, <3>2, <3>3, <3>6, SettlesAfterWriting
    <3>7. srcId = 1 /\ before["auto"] = 0 => RangeSettles'
      BY <2>1, <3>2, <3>3, <3>4, RangeAfterWriting
    <3>8. /\ Wanted => Wanted'
          /\ Restored => Restored'
      BY <2>1, <2>2, <3>3 DEF Wanted, Restored
    <3>9. QED
      BY <2>1, <2>2, <3>3, <3>5, <3>6, <3>7, <3>8 DEF Restores
  <2>4. CASE HandleMessage
    <3>1. UNCHANGED <<mode, dev>> /\ srcId' = 1 /\ srcId \in {0, 1}
      BY <2>4, HearingIs DEF HandleMessage, device, Typed, Inv, TypeOK
    <3>2. CASE srcId = 0
      <4>1. \A i \in 1..Len(toDevice') : toDevice'[i].do \in {"nothing", "start"}
        <5> DEFINE ms == <<Ask(Profile)>>
        <5>1. Ask(Profile) \in Message /\ Ask(Profile).do = "nothing"
          BY KeySetsAre, AskIs
        <5>2. ms \in Seq(Message) /\ Write(ms) /\ \A i \in 1..Len(ms) : ms[i].do = "nothing"
          BY <2>4, <3>2, <5>1, HearingIs, OneMessage
        <5> HIDE DEF ms
        <5>3. QED
          BY <2>1, <5>2, DosAfterWriting
      <4>2. /\ Wanted' /\ restoring' /\ RangeSettles'
            /\ \A k \in Relevant(before) \ {"length", "start"} : Settles(k)'
        BY <1>2, <2>1, <2>4, <3>2, RestoreBegins
      <4>3. QED
        BY <2>1, <2>2, <3>1, <4>1, <4>2 DEF Restores
    <3>3. CASE srcId = 1
      <4>1. UNCHANGED <<conf, restoring, toDevice>>
        BY <2>4, <3>3, HearingIs
      <4>2. /\ \A k \in Relevant(before) \ {"length", "start"} : Settles(k)'
            /\ before["auto"] = 0 => RangeSettles'
        BY <1>2, <2>1, <2>4, <3>3, RestoreHears
      <4>3. Wanted' /\ (~restoring => Restored')
        BY <2>1, <2>2, <3>1, <3>3, <4>1 DEF Wanted, Restored
      <4>4. QED
        BY <2>1, <2>2, <3>1, <4>1, <4>2, <4>3 DEF Restores
    <3>4. QED
      BY <3>1, <3>2, <3>3
  <2>5. CASE RestoreTimeout
    <3>1. /\ srcId = 1
          /\ \A i \in 1..Len(toDevice') : toDevice'[i].do \in {"nothing", "start"}
          /\ \A k \in Relevant(before) \ {"length", "start"} : Settles(k)'
          /\ before["auto"] = 0 => RangeSettles'
          /\ ~restoring' => Restored'
      BY <1>2, <2>1, <2>5, RestoreSends
    <3>2. UNCHANGED <<conf, mode>>
      BY <2>5 DEF RestoreTimeout, device
    <3>3. Wanted'
      BY <2>1, <2>2, <3>1, <3>2 DEF Wanted
    <3>4. QED
      BY <2>1, <2>2, <3>1, <3>2, <3>3 DEF Restores
  <2>6. CASE Serve
    <3>1. Obey(Head(toDevice))
      BY <2>1, <2>6 DEF Serve, Ignore
    <3>2. /\ 1 \in 1..Len(toDevice) /\ Head(toDevice) = toDevice[1]
          /\ \A i \in 1..Len(toDevice') : i + 1 \in 1..Len(toDevice) /\ toDevice'[i] = toDevice[i + 1]
      BY <2>1, <2>6, <3>1, ObeyIs
    <3>3. \A i \in 1..Len(toDevice') : toDevice'[i].do \in {"nothing", "start"}
      BY <2>1, <3>2
    <3>4. mode' = "application" /\ UNCHANGED <<srcId, conf, restoring>>
      BY <2>1, <2>6, <3>1, <3>2 DEF Serve, Obey, viewer
    <3>5. CASE srcId = 1
      <4>1. /\ \A k \in Relevant(before) \ {"length", "start"} : Settles(k)'
            /\ before["auto"] = 0 => RangeSettles'
            /\ ~restoring => Restored'
        BY <1>2, <2>1, <2>6, <3>1, <3>5, RestoreIsObeyed
      <4>2. Wanted'
        BY <2>1, <2>2, <3>4, <3>5 DEF Wanted
      <4>3. QED
        BY <2>1, <2>2, <3>3, <3>4, <4>1, <4>2 DEF Restores
    <3>6. CASE srcId # 1
      BY <3>3, <3>4, <3>6 DEF Restores
    <3>7. QED
      BY <3>5, <3>6
  <2>7. CASE Stream
    <3>1. UNCHANGED <<srcId, conf, restoring, toDevice, mode, dev>>
      BY <2>7 DEF Stream, viewer, device
    <3>2. CASE srcId = 1
      <4>1. /\ \A k \in Relevant(before) \ {"length", "start"} : Settles(k)'
            /\ before["auto"] = 0 => RangeSettles'
        BY <1>2, <2>1, <2>7, <3>2, RestoreIsStreamed
      <4>2. Wanted' /\ (~restoring => Restored')
        BY <2>1, <2>2, <3>1, <3>2 DEF Wanted, Restored
      <4>3. QED
        BY <2>1, <2>2, <3>1, <4>1, <4>2 DEF Restores
    <3>3. CASE srcId # 1
      BY <2>1, <3>1, <3>3 DEF Restores
    <3>4. QED
      BY <3>2, <3>3
  <2>8. CASE UNCHANGED vars
    <3>1. UNCHANGED <<srcId, conf, restoring, toDevice, toViewer, mode, dev, class>>
      BY <2>8 DEF vars, viewer, device
    <3>2. /\ Wanted => Wanted'
          /\ Restored => Restored'
          /\ \A k : Settles(k) => Settles(k)'
      BY <2>1, <2>2, <3>1 DEF Wanted, Restored, Settles, Heard
    <3>3. RangeSettles => RangeSettles'
      BY <3>1 DEF RangeSettles, SetsSettle, ReportsSettle, DeviceSettles
    <3>4. QED
      BY <2>1, <2>2, <3>1, <3>2, <3>3 DEF Restores
  <2>9. QED
    BY <1>2, <2>3, <2>4, <2>5, <2>6, <2>7, <2>8 DEF Quietly
<1>3. QED
  BY <1>1, <1>2, BackSteps

\* For any entries and any bounds a device whose restore has ended after a
\* firmware update is set as it was.
THEOREM RestoredIsKept == Spec => []FlashKeepsConfiguration
<1>1. Init => IInv
  BY InitTyped, InitInformed, InitLeaving DEF IInv
<1>2. IInv /\ [Next]_vars => IInv'
  BY TypedStep, InformedStep, LeavingStep, StoredStep, UnrecognisedStep, ProfileComesStep,
     RestoresStep DEF IInv
<1>3. IInv => FlashKeepsConfiguration
  <2>1. SUFFICES ASSUME IInv, before # None, flasher = "FlashFinished", phase = "none",
                        open, srcId = 1, ~restoring, excuse \cap {"lost", "adjusted"} = {}
                 PROVE  \A k \in Relevant(before) : dev[k] = before[k]
    BY DEF FlashKeepsConfiguration
  <2>2. Back
    BY <2>1 DEF Back
  <2>3. QED
    BY <2>1, <2>2 DEF IInv, Restores, Restored
<1>4. QED
  BY <1>1, <1>2, <1>3, PTL DEF Spec

=============================================================================
