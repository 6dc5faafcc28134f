--------------------------- MODULE ConnectionProofs ---------------------------
(***************************************************************************)
(* Proofs about Connection, for any configurations, any number of          *)
(* connections, of halves of messages, of logs and of changes of the       *)
(* world; and about the thread of Playback, which plays what a log holds,  *)
(* for logs of any length with any times and any number of calls.          *)
(*                                                                         *)
(* The inductive invariant of Connection is ConnectionInv.  What a parser  *)
(* finds in a log is said with a trace: what it holds and how many         *)
(* messages it has counted after each half.  A whole log has a trace that  *)
(* ends, at the end of the first day, in the number that was seen; a       *)
(* parser that records or plays a log is always where its trace is.        *)
(***************************************************************************)
EXTENDS Connection, Playback, SequenceTheorems, WellFoundedInduction, TLAPS

Sensors == {"PING1D", "PING360"}
Held == {"empty", "head"}
Words == STRING \cup {"r"}   \* STRING, of which the provers do not know "r"
Link == [type : LinkTypes, args : Seq(Words), device : DeviceTypes]
Pack == [half : {"head", "tail"}, dated : BOOLEAN]
File == [device : Sensors, header : BOOLEAN, packs : Seq(Pack), disk : Nat,
         seen : Nat, whole : BOOLEAN]

\* What a parser holds and has counted after none, one, two ... halves.
Trace(held, count, packs) ==
  /\ held \in [Nat -> Held] /\ count \in [Nat -> Nat]
  /\ held[0] = "empty" /\ count[0] = 0
  /\ \A i \in 1..Len(packs) :
       /\ held[i] = Holds(held[i - 1], packs[i].half)
       /\ count[i] = Counts(held[i - 1], count[i - 1], packs[i].half)

DatedUpTo(packs, d) == \A i \in 1..Len(packs) : packs[i].dated <=> i <= d

\* The number in a log is what a parser counts up to the end of the first day.
Told(packs, n) ==
  \E held \in [Nat -> Held], count \in [Nat -> Nat], d \in 0..Len(packs) :
    Trace(held, count, packs) /\ DatedUpTo(packs, d) /\ n = count[d]

FileOK(file) ==
  /\ file \in File
  /\ file.disk <= Len(file.packs)
  /\ file.packs # <<>> => file.header
  /\ file.whole => Told(file.packs, file.seen)

\* After k halves of a log the parser is where the trace is.
InStep(packs, k, b, n) ==
  \A held, count : Trace(held, count, packs) => held[k] = b /\ count[k] = n

Typed ==
  /\ running \in BOOLEAN /\ connected \in BOOLEAN /\ open \in BOOLEAN
  /\ wired \in BOOLEAN /\ recording \in BOOLEAN /\ old \in BOOLEAN
  /\ flashing \in BOOLEAN /\ writable \in BOOLEAN /\ hurried \in BOOLEAN
  /\ device \in DeviceTypes /\ conf \in Link
  /\ buffer \in Held /\ seen \in Nat /\ position \in Nat
  /\ present \subseteq Places
  /\ connects \in Nat

\* Files of which no more than one, o, may not be wholly on the disk.
Stored(fs, o) ==
  /\ fs \in Seq(File) /\ o \in 0..Len(fs)
  /\ \A f \in 1..Len(fs) : FileOK(fs[f])
  /\ \A f \in 1..Len(fs) : f # o => fs[f].disk = Len(fs[f].packs)

FilesOK ==
  /\ Stored(files, log)
  /\ Len(files) <= connects /\ connects <= MaxConnects

\* The settings in memory, or on the disk while there is no application,
\* remember every link that was used.
Covers(cs, U) == \A c \in U : \E i \in 1..Len(cs) : SameLink(cs[i], c)

Memory ==
  /\ last \in Seq(Link) /\ saved \in Seq(Link) /\ used \subseteq Link
  /\ Covers(IF running THEN last ELSE saved, used)

Writing ==
  recording =>
    /\ connected /\ log = Len(files) /\ log # 0 /\ conf.type # "File"
    /\ files[log].device = device
    /\ ~old /\ files[log].whole =>
         /\ DatedUpTo(files[log].packs, Len(files[log].packs))
         /\ InStep(files[log].packs, Len(files[log].packs), buffer, seen)

Plays(f) ==
  /\ conf.args[1] = LogNames[f]
  /\ open => /\ ~hurried => device = files[f].device
             /\ files[f].whole => /\ position <= Playable(files[f])
                                  /\ InStep(files[f].packs, position, buffer, seen)

Playing ==
  conf.type = "File" => log = 0 /\ ~recording /\ \E f \in 1..Len(files) : Plays(f)

Sensing ==
  /\ flashing => conf.type = "Serial"
  /\ conf.type # "None" => device \in Sensors

ConnectionInv == Typed /\ FilesOK /\ Memory /\ Writing /\ Playing /\ Sensing

-----------------------------------------------------------------------------
LEMMA SmallestNat ==
  ASSUME NEW T \in SUBSET Nat, T # {}
  PROVE  \E m \in T : \A k \in T : m <= k
<1> DEFINE R == {ss \in Nat \X Nat : ss[1] < ss[2]}
<1>1. IsWellFoundedOn(R, Nat)
  BY NatLessThanWellFounded DEF OpToRel
<1>2. PICK m \in T : \A k \in T : ~(<<k, m>> \in R)
  BY <1>1, WFMin
<1>3. ASSUME NEW k \in T PROVE m <= k
  <2>1. <<k, m>> \in Nat \X Nat /\ ~(<<k, m>> \in R)
    BY <1>2
  <2>2. ~(k < m)
    BY <2>1
  <2>3. QED
    BY <2>2
<1>4. QED
  BY <1>3

\* Induction over the length of a list: a set of numbers that holds 0 and
\* goes on as long as the list does holds its length.
LEMMA ReachesTheEnd ==
  ASSUME NEW n \in Nat, NEW S, 0 \in S,
         \A k \in 0..n : k < n /\ k \in S => k + 1 \in S
  PROVE  n \in S
<1> DEFINE T == {k \in Nat : k <= n /\ k \notin S}
<1>1. ASSUME T # {} PROVE FALSE
  <2>1. PICK m \in T : \A k \in T : m <= k
    BY <1>1, SmallestNat
  <2>2. m # 0 /\ m - 1 \in 0..n /\ m - 1 < n /\ (m - 1) + 1 = m
    BY <2>1
  <2>3. m - 1 \in S
    BY <2>1, <2>2
  <2>4. QED
    BY <2>1, <2>2, <2>3
<1>2. QED
  BY <1>1

-----------------------------------------------------------------------------
(* The links that the settings save.                                       *)

\* The list that is saved, link after link.
Kept(kept, c) ==
  IF kept # <<>> /\ SameLink(kept[Len(kept)], c) THEN kept ELSE Append(kept, c)

OneByOne(f, cs, n) ==
  DOMAIN f = 0..n /\ f[0] = <<>> /\ \A k \in 1..n : f[k] = Kept(f[k - 1], cs[k])

LEMMA KeptFunction ==
  ASSUME NEW cs \in Seq(Link)
  PROVE  \E f : OneByOne(f, cs, Len(cs))
<1> DEFINE S == {n \in Nat : \E f : OneByOne(f, cs, n)}
<1>1. 0 \in S
  <2>1. OneByOne([k \in 0..0 |-> <<>>], cs, 0)
    BY DEF OneByOne
  <2>2. QED
    BY <2>1
<1>2. ASSUME NEW n \in 0..Len(cs), n < Len(cs), n \in S PROVE n + 1 \in S
  <2>1. n \in Nat /\ n + 1 \in Nat /\ n \in 0..n /\ n + 1 \in 0..(n + 1) /\ 0 \in 0..n
    OBVIOUS
  <2>2. PICK f : OneByOne(f, cs, n)
    BY <1>2
  <2> DEFINE g == [k \in 0..(n + 1) |-> IF k \in 0..n THEN f[k] ELSE Kept(f[n], cs[n + 1])]
  <2>3. DOMAIN g = 0..(n + 1) /\ g[0] = <<>>
    BY <2>1, <2>2 DEF OneByOne
  <2>4. ASSUME NEW k \in 1..(n + 1) PROVE g[k] = Kept(g[k - 1], cs[k])
    <3>1. k - 1 \in 0..n /\ k \in 0..(n + 1) /\ k - 1 \in 0..(n + 1)
      BY <2>1
    <3>2. g[k - 1] = f[k - 1]
      BY <3>1
    <3>3. CASE k = n + 1
      <4>1. k \notin 0..n /\ k - 1 = n
        BY <2>1, <3>3
      <4>2. g[k] = Kept(f[n], cs[n + 1])
        BY <3>1, <3>3, <4>1
      <4>3. QED
        BY <3>2, <3>3, <4>1, <4>2
    <3>4. CASE k # n + 1
      <4>1. k \in 1..n /\ k \in 0..n
        BY <2>1, <3>4
      <4>2. g[k] = f[k] /\ f[k] = Kept(f[k - 1], cs[k])
        BY <2>2, <3>1, <4>1 DEF OneByOne
      <4>3. QED
        BY <3>2, <4>2
    <3>5. QED
      BY <3>3, <3>4
  <2>5. OneByOne(g, cs, n + 1)
    BY <2>3, <2>4, Zenon DEF OneByOne
  <2>6. QED
    BY <2>1, <2>5
<1>3. Len(cs) \in S
  <2>1. Len(cs) \in Nat
    OBVIOUS
  <2> HIDE DEF S
  <2>2. QED
    BY <1>1, <1>2, <2>1, ReachesTheEnd
<1>4. QED
  BY <1>3

\* The recursion in Saved has a solution, and Saved is where it ends.
LEMMA SavedIsTheLast ==
  ASSUME NEW cs \in Seq(Link)
  PROVE  \E f : OneByOne(f, cs, Len(cs)) /\ Saved(cs) = f[Len(cs)]
<1> DEFINE Step(f, i) ==
             IF i = 0 THEN <<>>
             ELSE IF f[i - 1] # <<>> /\ SameLink(Last(f[i - 1]), cs[i]) THEN f[i - 1]
             ELSE Append(f[i - 1], cs[i])
           Solves(f) == f = [i \in 0..Len(cs) |-> Step(f, i)]
           kept == CHOOSE f : Solves(f)
<1>0. Len(cs) \in Nat /\ Len(cs) \in 0..Len(cs) /\ 0 \in 0..Len(cs)
  OBVIOUS
<1>1. \A f, i : i # 0 => Step(f, i) = Kept(f[i - 1], cs[i])
  BY DEF Kept, Last
<1>2. \E f : Solves(f)
  <2>1. PICK g : OneByOne(g, cs, Len(cs))
    BY KeptFunction
  <2> DEFINE f == [i \in 0..Len(cs) |-> g[i]]
  <2>2. ASSUME NEW i \in 0..Len(cs) PROVE f[i] = Step(f, i)
    <3>1. CASE i = 0
      BY <1>0, <2>1, <3>1 DEF OneByOne
    <3>2. CASE i # 0
      <4>1. i \in 1..Len(cs) /\ i - 1 \in 0..Len(cs)
        BY <1>0, <3>2
      <4>2. f[i] = Kept(f[i - 1], cs[i])
        BY <2>1, <4>1 DEF OneByOne
      <4>3. QED
        BY <1>1, <3>2, <4>2, Zenon
    <3>3. QED
      BY <3>1, <3>2
  <2> DEFINE h == [i \in 0..Len(cs) |-> Step(f, i)]
  <2>3. f = h
    <3>1. \A i \in 0..Len(cs) : g[i] = Step(f, i)
      BY <2>2
    <3> HIDE DEF Step
    <3>2. QED
      BY <3>1
  <2>4. QED
    BY <2>3
<1>3. Solves(kept)
  BY <1>2
<1>4. OneByOne(kept, cs, Len(cs))
  <2>1. DOMAIN kept = 0..Len(cs)
    BY <1>3
  <2>2. kept[0] = <<>>
    BY <1>0, <1>3
  <2>3. ASSUME NEW k \in 1..Len(cs) PROVE kept[k] = Kept(kept[k - 1], cs[k])
    <3>1. k \in 0..Len(cs) /\ k # 0
      BY <1>0
    <3>2. kept[k] = Step(kept, k)
      <4> HIDE DEF Step, kept
      <4>1. QED
        BY <1>3, <3>1
    <3>3. QED
      BY <1>1, <3>1, <3>2, Zenon
  <2>4. QED
    BY <2>1, <2>2, <2>3, Zenon DEF OneByOne
<1>5. Saved(cs) = kept[Len(cs)]
  BY DEF Saved
<1>6. QED
  BY <1>4, <1>5, Zenon

LEMMA SameLinkReflexive == \A c : SameLink(c, c)
BY DEF SameLink

LEMMA SameLinkTransitive ==
  \A a, b, c : SameLink(a, b) /\ SameLink(b, c) => SameLink(a, c)
BY DEF SameLink

\* One step of std::unique() forgets nothing and covers its own link.
LEMMA KeptCovers ==
  ASSUME NEW kept \in Seq(Link), NEW c \in Link, NEW U, Covers(kept, U)
  PROVE  Kept(kept, c) \in Seq(Link) /\ Covers(Kept(kept, c), U \cup {c})
<1>1. CASE kept # <<>> /\ SameLink(kept[Len(kept)], c)
  <2>1. Len(kept) \in 1..Len(kept)
    BY <1>1, EmptySeq
  <2>2. Kept(kept, c) = kept
    BY <1>1 DEF Kept
  <2>3. QED
    BY <1>1, <2>1, <2>2 DEF Covers
<1>2. CASE ~(kept # <<>> /\ SameLink(kept[Len(kept)], c))
  <2>1. Kept(kept, c) = Append(kept, c)
    BY <1>2 DEF Kept
  <2>2. /\ Append(kept, c) \in Seq(Link) /\ Len(Append(kept, c)) = Len(kept) + 1
        /\ Len(kept) \in Nat /\ Append(kept, c)[Len(kept) + 1] = c
        /\ \A i \in 1..Len(kept) : Append(kept, c)[i] = kept[i]
    OBVIOUS
  <2>3. ASSUME NEW d \in U \cup {c}
        PROVE  \E i \in 1..(Len(kept) + 1) : SameLink(Append(kept, c)[i], d)
    <3>1. CASE d \in U
      <4>1. PICK i \in 1..Len(kept) : SameLink(kept[i], d)
        BY <3>1 DEF Covers
      <4>2. QED
        BY <2>2, <4>1
    <3>2. CASE d = c
      BY <2>2, <3>2, SameLinkReflexive
    <3>3. QED
      BY <3>1, <3>2
  <2>4. QED
    BY <2>1, <2>2, <2>3 DEF Covers
<1>3. QED
  BY <1>1, <1>2

\* What is saved covers what was remembered.
LEMMA SavedCovers ==
  ASSUME NEW cs \in Seq(Link), NEW U, Covers(cs, U)
  PROVE  Saved(cs) \in Seq(Link) /\ Covers(Saved(cs), U)
<1>1. PICK f : OneByOne(f, cs, Len(cs)) /\ Saved(cs) = f[Len(cs)]
  BY SavedIsTheLast
<1> DEFINE Upto(k) == {cs[i] : i \in 1..k}
           S == {k \in 0..Len(cs) : f[k] \in Seq(Link) /\ Covers(f[k], Upto(k))}
<1>2. 0 \in S
  <2>1. f[0] = <<>> /\ 0 \in 0..Len(cs) /\ Upto(0) = {}
    BY <1>1 DEF OneByOne
  <2>2. f[0] \in Seq(Link)
    BY <2>1, EmptySeq
  <2>3. Covers(f[0], Upto(0))
    <3> HIDE DEF Upto
    <3>1. QED
      BY <2>1 DEF Covers
  <2>4. QED
    BY <2>1, <2>2, <2>3
<1>3. ASSUME NEW k \in 0..Len(cs), k < Len(cs), k \in S PROVE k + 1 \in S
  <2>1. k + 1 \in 1..Len(cs) /\ (k + 1) - 1 = k /\ cs[k + 1] \in Link
    BY <1>3
  <2>2. f[k + 1] = Kept(f[k], cs[k + 1])
    BY <1>1, <2>1 DEF OneByOne
  <2>3. f[k + 1] \in Seq(Link) /\ Covers(f[k + 1], Upto(k) \cup {cs[k + 1]})
    BY <1>3, <2>1, <2>2, KeptCovers
  <2>4. Upto(k + 1) \subseteq Upto(k) \cup {cs[k + 1]}
    BY <2>1
  <2>5. Covers(f[k + 1], Upto(k + 1))
    <3> HIDE DEF Upto
    <3>1. QED
      BY <2>3, <2>4 DEF Covers
  <2>6. QED
    BY <2>1, <2>3, <2>5
<1>4. Len(cs) \in S
  <2>1. Len(cs) \in Nat
    OBVIOUS
  <2> HIDE DEF S
  <2>2. QED
    BY <1>2, <1>3, <2>1, ReachesTheEnd
<1>5. f[Len(cs)] \in Seq(Link) /\ Covers(f[Len(cs)], Upto(Len(cs)))
  BY <1>4
<1>6. ASSUME NEW c \in U PROVE \E i \in 1..Len(Saved(cs)) : SameLink(Saved(cs)[i], c)
  <2>1. PICK j \in 1..Len(cs) : SameLink(cs[j], c)
    BY DEF Covers
  <2>2. cs[j] \in Upto(Len(cs))
    BY <2>1
  <2>3. PICK i \in 1..Len(f[Len(cs)]) : SameLink(f[Len(cs)][i], cs[j])
    BY <1>5, <2>2, Zenon DEF Covers
  <2>4. SameLink(f[Len(cs)][i], c)
    BY <2>1, <2>3, SameLinkTransitive
  <2>5. QED
    BY <1>1, <2>4
<1>7. QED
  BY <1>1, <1>5, <1>6 DEF Covers

-----------------------------------------------------------------------------
(* Files.                                                                  *)

LEMMA FileFacts ==
  ASSUME NEW file \in File
  PROVE  /\ file.device \in Sensors /\ file.header \in BOOLEAN
         /\ file.packs \in Seq(Pack) /\ file.disk \in Nat /\ file.seen \in Nat
         /\ file.whole \in BOOLEAN /\ Len(file.packs) \in Nat
BY DEF File

\* A log that is closed is on the disk.
LEMMA FlushedFile ==
  ASSUME NEW file, FileOK(file)
  PROVE  /\ FileOK(Flushed(file))
         /\ Flushed(file).disk = Len(Flushed(file).packs)
         /\ Flushed(file).packs = file.packs /\ Flushed(file).whole = file.whole
         /\ Flushed(file).seen = file.seen /\ Flushed(file).device = file.device
<1>1. /\ Flushed(file) \in File /\ Flushed(file).disk = Len(file.packs)
      /\ Flushed(file).packs = file.packs /\ Flushed(file).whole = file.whole
      /\ Flushed(file).seen = file.seen /\ Flushed(file).device = file.device
      /\ Flushed(file).header = file.header
  BY DEF Flushed, FileOK, File
<1>2. QED
  BY <1>1, FileFacts DEF FileOK

\* The parser holds nothing but a first half, and counts upwards.
LEMMA HeldType ==
  \A b, half, n : Holds(b, half) \in Held /\ (n \in Nat => Counts(b, n, half) \in Nat)
BY DEF Holds, Counts, Held

\* Nothing has been parsed of a log before its first half.
LEMMA TraceOfNothing ==
  /\ DatedUpTo(<<>>, 0) /\ Told(<<>>, 0)
  /\ \A packs : InStep(packs, 0, "empty", 0)
<1> DEFINE held == [i \in Nat |-> "empty"]
           count == [i \in Nat |-> 0]
<1>1. Trace(held, count, <<>>) /\ count[0] = 0 /\ 0 \in 0..Len(<<>>)
  <2>1. held \in [Nat -> Held] /\ count \in [Nat -> Nat] /\ held[0] = "empty" /\ count[0] = 0
    BY DEF Held
  <2>2. Len(<<>>) = 0 /\ 1..0 = {} /\ 0 \in 0..0
    BY EmptySeq
  <2> HIDE DEF held, count
  <2>3. QED
    BY <2>1, <2>2 DEF Trace
<1>2. DatedUpTo(<<>>, 0)
  BY EmptySeq DEF DatedUpTo
<1>3. Told(<<>>, 0)
  <2>1. held \in [Nat -> Held] /\ count \in [Nat -> Nat]
    BY <1>1, Zenon DEF Trace
  <2> HIDE DEF held, count
  <2>2. QED
    BY <1>1, <1>2, <2>1, Zenon DEF Told
<1>4. QED
  BY <1>2, <1>3 DEF InStep, Trace

\* A trace goes on with every half that is written ...
Extends(h, c, held, count, packs, p) ==
  /\ Trace(h, c, Append(packs, p))
  /\ \A i \in 0..Len(packs) : h[i] = held[i] /\ c[i] = count[i]
  /\ c[Len(packs) + 1] = Counts(held[Len(packs)], count[Len(packs)], p.half)

LEMMA TraceGoesOn ==
  ASSUME NEW packs \in Seq(Pack), NEW p \in Pack, NEW held, NEW count,
         Trace(held, count, packs)
  PROVE  \E h \in [Nat -> Held], c \in [Nat -> Nat] : Extends(h, c, held, count, packs, p)
<1> DEFINE n == Len(packs)
           q == Append(packs, p)
           h == [held EXCEPT ![n + 1] = Holds(held[n], p.half)]
           c == [count EXCEPT ![n + 1] = Counts(held[n], count[n], p.half)]
<1>1. n \in Nat /\ n + 1 \in Nat /\ held \in [Nat -> Held] /\ count \in [Nat -> Nat]
  BY DEF Trace
<1>2. Len(q) = n + 1 /\ q[n + 1] = p /\ \A i \in 1..n : q[i] = packs[i]
  OBVIOUS
<1>3. h \in [Nat -> Held] /\ c \in [Nat -> Nat]
  BY <1>1, HeldType
<1>4. /\ \A i \in 0..n : h[i] = held[i] /\ c[i] = count[i]
      /\ h[n + 1] = Holds(held[n], p.half)
      /\ c[n + 1] = Counts(held[n], count[n], p.half)
  <2>1. n + 1 \notin 0..n /\ \A i \in 0..n : i \in Nat
    BY <1>1
  <2>2. QED
    BY <1>1, <2>1
<1> HIDE DEF h, c, q, n
<1>5. ASSUME NEW i \in 1..Len(q)
      PROVE  h[i] = Holds(h[i - 1], q[i].half) /\ c[i] = Counts(h[i - 1], c[i - 1], q[i].half)
  <2>1. CASE i = n + 1
    <3>1. i - 1 = n /\ n \in 0..n
      BY <1>1, <2>1
    <3>2. h[i - 1] = held[n] /\ c[i - 1] = count[n] /\ q[i] = p
      BY <1>2, <1>4, <2>1, <3>1
    <3>3. QED
      BY <1>4, <2>1, <3>2
  <2>2. CASE i # n + 1
    <3>1. i \in 1..n /\ i \in 0..n /\ i - 1 \in 0..n
      <4>1. Len(q) = n + 1
        BY <1>2
      <4>2. i \in 1..(n + 1)
        BY <4>1
      <4>3. QED
        BY <1>1, <2>2, <4>2
    <3>2. /\ held[i] = Holds(held[i - 1], packs[i].half)
          /\ count[i] = Counts(held[i - 1], count[i - 1], packs[i].half)
      BY <3>1 DEF Trace, n
    <3>3. /\ h[i] = held[i] /\ h[i - 1] = held[i - 1]
          /\ c[i] = count[i] /\ c[i - 1] = count[i - 1] /\ q[i] = packs[i]
      BY <1>2, <1>4, <3>1
    <3>4. QED
      BY <3>2, <3>3
  <2>3. QED
    BY <2>1, <2>2
<1>6. Trace(h, c, q)
  <2>1. 0 \in 0..n
    BY <1>1
  <2>2. h[0] = "empty" /\ c[0] = 0
    BY <1>4, <2>1 DEF Trace
  <2>3. QED
    BY <1>3, <1>5, <2>2, Zenon DEF Trace
<1>7. Extends(h, c, held, count, packs, p)
  BY <1>4, <1>6 DEF n, q, Extends
<1>8. QED
  BY <1>3, <1>7, Zenon

\* ... and is a trace of what was written before.
LEMMA TraceOfPrefix ==
  ASSUME NEW packs \in Seq(Pack), NEW p \in Pack, NEW held, NEW count,
         Trace(held, count, Append(packs, p))
  PROVE  /\ Trace(held, count, packs)
         /\ held[Len(packs) + 1] = Holds(held[Len(packs)], p.half)
         /\ count[Len(packs) + 1] = Counts(held[Len(packs)], count[Len(packs)], p.half)
<1> DEFINE q == Append(packs, p)
           n == Len(packs)
<1>1. /\ n \in Nat /\ Len(q) = n + 1 /\ q[n + 1] = p /\ (n + 1) - 1 = n
      /\ \A i \in 1..n : q[i] = packs[i] /\ i \in 1..(n + 1)
      /\ n + 1 \in 1..(n + 1)
  OBVIOUS
<1>2. \A i \in 1..(n + 1) : /\ held[i] = Holds(held[i - 1], q[i].half)
                            /\ count[i] = Counts(held[i - 1], count[i - 1], q[i].half)
  BY <1>1, Zenon DEF Trace
<1>3. \A i \in 1..n : /\ held[i] = Holds(held[i - 1], packs[i].half)
                      /\ count[i] = Counts(held[i - 1], count[i - 1], packs[i].half)
  <2> HIDE DEF q
  <2>1. QED
    BY <1>1, <1>2, Zenon
<1>4. /\ held[n + 1] = Holds(held[n], p.half)
      /\ count[n + 1] = Counts(held[n], count[n], p.half)
  <2> HIDE DEF q
  <2>1. /\ held[n + 1] = Holds(held[(n + 1) - 1], q[n + 1].half)
        /\ count[n + 1] = Counts(held[(n + 1) - 1], count[(n + 1) - 1], q[n + 1].half)
    BY <1>1, <1>2, Zenon
  <2>2. QED
    BY <1>1, <2>1
<1>5. QED
  BY <1>3, <1>4, Zenon DEF Trace

\* A parser that was in step with a log still is when both have got a half.
LEMMA InStepWrites ==
  ASSUME NEW packs \in Seq(Pack), NEW p \in Pack, NEW b, NEW n,
         InStep(packs, Len(packs), b, n)
  PROVE  InStep(Append(packs, p), Len(packs) + 1, Holds(b, p.half), Counts(b, n, p.half))
<1>1. ASSUME NEW held, NEW count, Trace(held, count, Append(packs, p))
      PROVE  /\ held[Len(packs) + 1] = Holds(b, p.half)
             /\ count[Len(packs) + 1] = Counts(b, n, p.half)
  <2>1. held[Len(packs)] = b /\ count[Len(packs)] = n
    BY <1>1, TraceOfPrefix DEF InStep
  <2>2. QED
    BY <1>1, <2>1, TraceOfPrefix
<1>2. QED
  BY <1>1, Zenon DEF InStep

LEMMA InStepPlays ==
  ASSUME NEW packs \in Seq(Pack), NEW k \in Nat, k < Len(packs), NEW b, NEW n,
         InStep(packs, k, b, n)
  PROVE  InStep(packs, k + 1, Holds(b, packs[k + 1].half), Counts(b, n, packs[k + 1].half))
<1>1. k + 1 \in 1..Len(packs) /\ (k + 1) - 1 = k
  OBVIOUS
<1>2. ASSUME NEW held, NEW count, Trace(held, count, packs)
      PROVE  /\ held[k + 1] = Holds(b, packs[k + 1].half)
             /\ count[k + 1] = Counts(b, n, packs[k + 1].half)
  <2>1. held[k] = b /\ count[k] = n
    BY <1>2, Zenon DEF InStep
  <2>2. /\ held[k + 1] = Holds(held[(k + 1) - 1], packs[k + 1].half)
        /\ count[k + 1] = Counts(held[(k + 1) - 1], count[(k + 1) - 1], packs[k + 1].half)
    BY <1>1, <1>2, Zenon DEF Trace
  <2>3. QED
    BY <1>1, <2>1, <2>2
<1>3. QED
  BY <1>2, Zenon DEF InStep

\* What is written on the first day is counted, and nothing after it.
LEMMA ToldToday ==
  ASSUME NEW packs \in Seq(Pack), NEW p \in Pack, p.dated = TRUE, NEW m, Told(packs, m),
         DatedUpTo(packs, Len(packs)), NEW b, NEW n, InStep(packs, Len(packs), b, n)
  PROVE  /\ Told(Append(packs, p), Counts(b, n, p.half))
         /\ DatedUpTo(Append(packs, p), Len(packs) + 1)
<1>1. /\ Len(packs) \in Nat /\ Len(Append(packs, p)) = Len(packs) + 1
      /\ Append(packs, p)[Len(packs) + 1] = p
      /\ \A i \in 1..Len(packs) : Append(packs, p)[i] = packs[i]
  OBVIOUS
<1>2. DatedUpTo(Append(packs, p), Len(packs) + 1)
  BY <1>1 DEF DatedUpTo
<1>3. PICK held, count : Trace(held, count, packs)
  BY Zenon DEF Told
<1>4. held[Len(packs)] = b /\ count[Len(packs)] = n
  BY <1>3, Zenon DEF InStep
<1>5. PICK h \in [Nat -> Held], c \in [Nat -> Nat] : Extends(h, c, held, count, packs, p)
  BY <1>3, TraceGoesOn, Zenon
<1>6. Len(packs) + 1 \in 0..Len(Append(packs, p))
  BY <1>1
<1>7. Trace(h, c, Append(packs, p)) /\ Counts(b, n, p.half) = c[Len(packs) + 1]
  BY <1>4, <1>5, Zenon DEF Extends
<1>8. DatedUpTo(Append(packs, p), Len(packs) + 1)
  BY <1>2
<1>9. QED
  BY <1>6, <1>7, <1>8, Zenon DEF Told

LEMMA ToldLater ==
  ASSUME NEW packs \in Seq(Pack), NEW p \in Pack, p.dated = FALSE, NEW m, Told(packs, m)
  PROVE  Told(Append(packs, p), m)
<1>0. \A i \in 1..(Len(packs) + 1) : i # Len(packs) + 1 => i \in 1..Len(packs)
  OBVIOUS
<1>1. /\ Len(packs) \in Nat /\ Len(Append(packs, p)) = Len(packs) + 1
      /\ Append(packs, p)[Len(packs) + 1] = p
      /\ \A i \in 1..Len(packs) : Append(packs, p)[i] = packs[i]
  OBVIOUS
<1>2. PICK held \in [Nat -> Held], count \in [Nat -> Nat], d \in 0..Len(packs) :
        Trace(held, count, packs) /\ DatedUpTo(packs, d) /\ m = count[d]
  BY Zenon DEF Told
<1>3. PICK h \in [Nat -> Held], c \in [Nat -> Nat] : Extends(h, c, held, count, packs, p)
  BY <1>2, TraceGoesOn, Zenon
<1>4. DatedUpTo(Append(packs, p), d) /\ d \in 0..Len(Append(packs, p))
  <2>1. ASSUME NEW i \in 1..(Len(packs) + 1) PROVE Append(packs, p)[i].dated <=> i <= d
    <3>1. CASE i = Len(packs) + 1
      <4>1. ~(i <= d)
        BY <1>1, <3>1
      <4>2. QED
        BY <1>1, <3>1, <4>1
    <3>2. CASE i # Len(packs) + 1
      <4>1. i \in 1..Len(packs)
        BY <1>0, <3>2, Zenon
      <4>2. QED
        BY <1>1, <1>2, <4>1 DEF DatedUpTo
    <3>3. QED
      BY <3>1, <3>2
  <2>2. DatedUpTo(Append(packs, p), d)
    BY <1>1, <2>1, Zenon DEF DatedUpTo
  <2>3. d \in 0..Len(Append(packs, p))
    BY <1>1
  <2>4. QED
    BY <2>2, <2>3
<1>5. Trace(h, c, Append(packs, p)) /\ m = c[d]
  BY <1>2, <1>3, Zenon DEF Extends
<1>6. QED
  BY <1>4, <1>5, Zenon DEF Told

\* A log is played up to the end of its first day.
LEMMA PlayableDays ==
  ASSUME NEW file \in File, file.disk = Len(file.packs),
         NEW d \in 0..Len(file.packs), DatedUpTo(file.packs, d)
  PROVE  Playable(file) = d
<1> DEFINE n == Len(file.packs)
           First(i) == ~file.packs[i].dated /\ \A j \in 1..(i - 1) : file.packs[j].dated
<1>1. n \in Nat /\ \A i \in 1..n : file.packs[i].dated <=> i <= d
  BY FileFacts DEF DatedUpTo
<1>2. CASE d = n
  <2>1. ~ \E i \in 1..file.disk : ~file.packs[i].dated
    BY <1>1, <1>2
  <2>2. QED
    BY <1>2, <2>1 DEF Playable
<1>3. CASE d # n
  <2>1. d + 1 \in 1..n /\ ~file.packs[d + 1].dated
    BY <1>1, <1>3
  <2>2. First(d + 1)
    BY <1>1, <2>1
  <2>3. ASSUME NEW i \in 1..n, First(i) PROVE i = d + 1
    <3>1. i > d
      BY <1>1, <2>3
    <3>2. ~(d + 1 < i)
      <4>1. d + 1 < i => d + 1 \in 1..(i - 1)
        BY <2>1, <2>3
      <4>2. QED
        BY <2>1, <2>3, <4>1
    <3>3. QED
      BY <3>1, <3>2
  <2>4. (CHOOSE i \in 1..n : First(i)) = d + 1
    <3> HIDE DEF First
    <3>1. QED
      BY <2>1, <2>2, <2>3
  <2>5. Playable(file) = (CHOOSE i \in 1..n : First(i)) - 1
    BY <2>1 DEF Playable
  <2> DEFINE first == CHOOSE i \in 1..n : First(i)
  <2>6. QED
    <3> HIDE DEF first
    <3>1. first = d + 1 /\ Playable(file) = first - 1
      BY <2>4, <2>5, Zenon DEF first
    <3>2. QED
      BY <3>1
<1>4. QED
  BY <1>2, <1>3

-----------------------------------------------------------------------------
\* A new log is empty and all of it on the disk.
LEMMA NewFileOK ==
  ASSUME NEW d \in Sensors
  PROVE  /\ FileOK(NewFile(d)) /\ NewFile(d).device = d /\ NewFile(d).packs = <<>>
         /\ NewFile(d).disk = Len(NewFile(d).packs)
<1>1. /\ NewFile(d) \in File /\ NewFile(d).device = d /\ NewFile(d).packs = <<>>
      /\ NewFile(d).disk = 0 /\ NewFile(d).seen = 0
  BY EmptySeq DEF NewFile, File
<1>2. Len(<<>>) = 0
  BY EmptySeq
<1>3. QED
  BY <1>1, <1>2, TraceOfNothing DEF FileOK

\* Closing a log changes nothing that a reader sees of it in the end.
Alike(fs, gs) ==
  /\ Len(gs) = Len(fs)
  /\ \A f \in 1..Len(fs) : /\ gs[f].device = fs[f].device /\ gs[f].packs = fs[f].packs
                            /\ gs[f].whole = fs[f].whole /\ gs[f].seen = fs[f].seen

LEMMA FlushedOne ==
  ASSUME NEW fs, NEW o, Stored(fs, o), o # 0, NEW gs, gs = [fs EXCEPT ![o] = Flushed(@)]
  PROVE  Stored(gs, 0) /\ Alike(fs, gs)
<1>1. fs \in Seq(File) /\ o \in 1..Len(fs) /\ Len(fs) \in Nat
  BY DEF Stored
<1>2. /\ \A f \in 1..Len(fs) : FileOK(fs[f])
      /\ \A f \in 1..Len(fs) : f # o => fs[f].disk = Len(fs[f].packs)
  BY DEF Stored
<1>3. FileOK(Flushed(fs[o])) /\ Flushed(fs[o]) \in File
  BY <1>1, <1>2, FlushedFile DEF FileOK
<1>4. /\ gs \in Seq(File) /\ Len(gs) = Len(fs) /\ gs[o] = Flushed(fs[o])
      /\ \A f \in 1..Len(fs) : f # o => gs[f] = fs[f]
  BY <1>1, <1>3
<1>5. ASSUME NEW f \in 1..Len(fs)
      PROVE  /\ FileOK(gs[f]) /\ gs[f].disk = Len(gs[f].packs)
             /\ gs[f].device = fs[f].device /\ gs[f].packs = fs[f].packs
             /\ gs[f].whole = fs[f].whole /\ gs[f].seen = fs[f].seen
  <2>1. CASE f = o
    BY <1>1, <1>2, <1>4, <2>1, FlushedFile
  <2>2. CASE f # o
    BY <1>2, <1>4, <2>2
  <2>3. QED
    BY <2>1, <2>2
<1>6. QED
  BY <1>1, <1>4, <1>5 DEF Stored, Alike

LEMMA ClosedLog ==
  ASSUME NEW fs, NEW o, Stored(fs, o)
  PROVE  Stored(Closed(fs, o), 0) /\ Alike(fs, Closed(fs, o))
<1>1. CASE o = 0
  BY <1>1 DEF Closed, Stored, Alike
<1>2. CASE o # 0
  BY <1>2, FlushedOne DEF Closed
<1>3. QED
  BY <1>1, <1>2

-----------------------------------------------------------------------------
(* Connections.                                                            *)

\* A parser that is cleared is where the trace of any log begins.
LEMMA NewLog ==
  ASSUME NEW fs, NEW o, Stored(fs, o), NEW d \in Sensors,
         device' = d, connected' = TRUE, conf'.type # "File",
         buffer' = "empty", seen' = 0, buffer \in Held, old \in BOOLEAN, writable \in BOOLEAN,
         ConnectLinkLog(d, fs, o)
  PROVE  /\ Stored(files', log') /\ Len(files') <= Len(fs) + 1
         /\ recording' \in BOOLEAN /\ old' \in BOOLEAN /\ Writing'
<1>1. CASE o # 0 /\ ~LogIsOpen(fs[o])
  <2>1. files' = fs /\ log' = o /\ recording' = FALSE /\ old' = old
    BY <1>1 DEF ConnectLinkLog
  <2>2. Len(fs) \in Nat
    BY DEF Stored
  <2>3. Len(files') <= Len(fs) + 1
    BY <2>1, <2>2
  <2>4. Stored(files', log') /\ Writing'
    BY <2>1, Zenon DEF Writing
  <2>5. recording' \in BOOLEAN
    BY <2>1
  <2>6. QED
    BY <2>1, <2>3, <2>4, <2>5
<1>2. CASE ~(o # 0 /\ ~LogIsOpen(fs[o]))
  <2> DEFINE gs == Closed(fs, o)
             n == Len(fs) + 1
  <2>1. /\ files' = Append(gs, NewFile(d)) /\ log' = Len(files')
        /\ recording' = writable /\ old' = FALSE
    <3>1. LogIsOpen(NewFile(d)) = writable
      <4>1. NewFile(d).header = FALSE
        BY DEF NewFile
      <4>2. QED
        BY <4>1, Zenon DEF LogIsOpen
    <3>2. QED
      BY <1>2, <3>1, Zenon DEF ConnectLinkLog
  <2>2. Stored(gs, 0) /\ Len(gs) = Len(fs)
    BY ClosedLog DEF Alike
  <2>3. gs \in Seq(File) /\ NewFile(d) \in File /\ Len(fs) \in Nat
    BY <2>2, NewFileOK DEF Stored, FileOK
  <2> HIDE DEF gs
  <2>4. /\ files' \in Seq(File) /\ Len(files') = n /\ files'[n] = NewFile(d)
        /\ \A f \in 1..Len(fs) : files'[f] = gs[f]
    BY <2>1, <2>2, <2>3
  <2>5. ASSUME NEW f \in 1..n PROVE FileOK(files'[f]) /\ files'[f].disk = Len(files'[f].packs)
    <3>1. CASE f = n
      BY <2>4, <3>1, NewFileOK
    <3>2. CASE f # n
      <4>1. f \in 1..Len(gs)
        BY <2>2, <2>3, <3>2
      <4>2. FileOK(gs[f]) /\ (f # 0 => gs[f].disk = Len(gs[f].packs)) /\ f # 0
        BY <2>2, <4>1 DEF Stored
      <4>3. QED
        BY <2>2, <2>4, <4>1, <4>2
    <3>3. QED
      BY <3>1, <3>2
  <2>6. Stored(files', log')
    BY <2>1, <2>3, <2>4, <2>5 DEF Stored
  <2>7. n # 0 /\ n <= Len(fs) + 1
    BY <2>3
  <2>8. Writing'
    <3>1. files'[log'] = NewFile(d) /\ log' = Len(files') /\ log' # 0
      BY <2>1, <2>4, <2>7
    <3>2. files'[log'].packs = <<>> /\ files'[log'].device = d /\ Len(files'[log'].packs) = 0
      BY <3>1, NewFileOK, EmptySeq
    <3>3. InStep(files'[log'].packs, 0, buffer', seen') /\ DatedUpTo(files'[log'].packs, 0)
      BY <3>2, TraceOfNothing
    <3>4. QED
      BY <3>1, <3>2, <3>3, Zenon DEF Writing
  <2>9. QED
    BY <2>1, <2>4, <2>6, <2>7, <2>8
<1>3. QED
  BY <1>1, <1>2

\* The invariant of the link, the parser and the logs after a connection.
Linked(c, fs) ==
  /\ conf' = c /\ open' \in BOOLEAN /\ wired' \in BOOLEAN /\ connected' \in BOOLEAN
  /\ buffer' \in Held /\ seen' = 0 /\ position' = 0
  /\ recording' \in BOOLEAN /\ old' \in BOOLEAN
  /\ Stored(files', log') /\ Len(files') <= Len(fs) + 1
  /\ Writing' /\ Playing'

LEMMA ConnectedLink ==
  ASSUME NEW c \in Link, NEW fs, NEW o, Stored(fs, o), NEW d \in Sensors,
         device' = d, buffer \in Held, old \in BOOLEAN, writable \in BOOLEAN,
         c.type = "File" => /\ o = 0
                            /\ \E f \in 1..Len(fs) : /\ c.args[1] = LogNames[f]
                                                     /\ ~hurried' => d = fs[f].device,
         SensorConnectLink(c, d, fs, o)
  PROVE  Linked(c, fs)
<1>1. /\ conf' = c /\ open' = Opens(c, fs) /\ connected' = Opens(c, fs)
      /\ position' = 0 /\ seen' = 0
  BY DEF SensorConnectLink
<1>2. Opens(c, fs) \in BOOLEAN
  BY DEF Opens
<1>3. wired' \in BOOLEAN
  BY DEF SensorConnectLink
<1>4. Len(fs) \in Nat /\ Len(fs) <= Len(fs) + 1
  BY DEF Stored
<1>5. c.type = "File" /\ files' = fs /\ log' = o /\ recording' = FALSE
        /\ (open' => buffer' = "empty") => Playing'
  <2> SUFFICES ASSUME c.type = "File", files' = fs, log' = o, recording' = FALSE,
                      open' => buffer' = "empty"
               PROVE  Playing'
    OBVIOUS
  <2>1. PICK f \in 1..Len(fs) : c.args[1] = LogNames[f] /\ (~hurried' => d = fs[f].device)
    OBVIOUS
  <2>2. open' => InStep(files'[f].packs, position', buffer', seen')
    BY <1>1, TraceOfNothing
  <2>3. files'[f].whole => position' <= Playable(files'[f])
    <3> SUFFICES ASSUME files'[f].whole PROVE position' <= Playable(files'[f])
      OBVIOUS
    <3>1. FileOK(fs[f]) /\ fs[f].disk = Len(fs[f].packs) /\ fs[f] \in File
      BY DEF Stored, FileOK
    <3>2. PICK n \in 0..Len(fs[f].packs) : DatedUpTo(fs[f].packs, n)
      BY <3>1, Zenon DEF FileOK, Told
    <3>3. Playable(fs[f]) = n
      BY <3>1, <3>2, PlayableDays
    <3>4. QED
      BY <1>1, <3>3
  <2>4. Plays(f)'
    BY <1>1, <2>1, <2>2, <2>3, Zenon DEF Plays
  <2>5. QED
    BY <2>1, <2>4, Zenon DEF Playing
<1>6. c.type # "File" => Playing'
  BY <1>1 DEF Playing
<1>7. CASE ~Opens(c, fs)
  <2>1. files' = fs /\ log' = o /\ recording' = FALSE /\ old' = old /\ buffer' = buffer
    BY <1>7 DEF SensorConnectLink
  <2>2. Writing'
    BY <2>1 DEF Writing
  <2>3. Playing'
    BY <1>1, <1>5, <1>6, <1>7, <2>1
  <2>4. QED
    BY <1>1, <1>2, <1>3, <1>4, <2>1, <2>2, <2>3, Zenon DEF Linked
<1>8. CASE Opens(c, fs) /\ c.type = "File"
  <2>1. /\ files' = fs /\ log' = o /\ recording' = FALSE /\ old' = old
        /\ buffer' = "empty"
    BY <1>8 DEF SensorConnectLink, ClearBuffer
  <2>2. Writing' /\ Playing' /\ buffer' \in Held
    BY <1>5, <1>8, <2>1 DEF Writing, Held
  <2>3. QED
    BY <1>1, <1>2, <1>3, <1>4, <2>1, <2>2, Zenon DEF Linked
<1>9. CASE Opens(c, fs) /\ c.type # "File"
  <2>1. ConnectLinkLog(d, fs, o) /\ buffer' = "empty"
    BY <1>9 DEF SensorConnectLink, ClearBuffer
  <2>2. connected' = TRUE /\ conf'.type # "File"
    BY <1>1, <1>9
  <2>3. /\ Stored(files', log') /\ Len(files') <= Len(fs) + 1
        /\ recording' \in BOOLEAN /\ old' \in BOOLEAN /\ Writing'
    BY <1>1, <2>1, <2>2, NewLog
  <2>4. buffer' \in Held
    BY <2>1 DEF Held
  <2>5. QED
    BY <1>1, <1>2, <1>3, <1>6, <1>9, <2>3, <2>4, Zenon DEF Linked
<1>10. QED
  BY <1>7, <1>8, <1>9

LEMMA NoLinkType == NoLink \in Link /\ NoLink.type = "None"
<1>1. <<>> \in Seq(Words)
  OBVIOUS
<1>2. QED
  BY <1>1 DEF NoLink, Link, LinkTypes, DeviceTypes

LEMMA SensorTypes ==
  /\ Sensors \subseteq DeviceTypes
  /\ \A t : SensorOf(t) \in Sensors /\ (t \in Sensors => SensorOf(t) = t)
BY DEF Sensors, DeviceTypes, SensorOf

\* A new sensor leaves the log that was written closed and complete.
LEMMA SensorReplaced ==
  ASSUME Typed, FilesOK, NEW c \in Link, NEW d \in Sensors, NewSensor(c, d),
         c.type = "File" => \E f \in 1..Len(files) : /\ c.args[1] = LogNames[f]
                                                     /\ ~hurried' => d = files[f].device,
         connects' = connects + 1, connects < MaxConnects, hurried' \in BOOLEAN,
         UNCHANGED <<running, world>>
  PROVE  Typed' /\ FilesOK' /\ Writing' /\ Playing' /\ Sensing'
<1> DEFINE fs == Closed(files, log)
<1>1. Stored(fs, 0) /\ Alike(files, fs)
  BY ClosedLog DEF FilesOK
<1>2. device' = d /\ flashing' = FALSE
  BY DEF NewSensor
<1>3. /\ connects \in Nat /\ connects' \in Nat /\ MaxConnects \in Nat
      /\ connects' <= MaxConnects /\ Len(files) <= connects
  BY ConnectionAssumption DEF Typed, FilesOK, ConnectionAssumption
<1>4. Len(fs) = Len(files) /\ Len(files) \in Nat
  BY <1>1 DEF Alike, FilesOK, Stored
<1>5. buffer \in Held /\ old \in BOOLEAN /\ writable \in BOOLEAN
  BY Zenon DEF Typed
<1>6. CASE IsValid(c)
  <2>1. SensorConnectLink(c, d, fs, 0)
    BY <1>6 DEF NewSensor
  <2>2. c.type = "File" => \E f \in 1..Len(fs) : /\ c.args[1] = LogNames[f]
                                                 /\ ~hurried' => d = fs[f].device
    <3> SUFFICES ASSUME c.type = "File"
                 PROVE  \E f \in 1..Len(fs) : /\ c.args[1] = LogNames[f]
                                              /\ ~hurried' => d = fs[f].device
      OBVIOUS
    <3>1. PICK f \in 1..Len(files) : c.args[1] = LogNames[f] /\ (~hurried' => d = files[f].device)
      OBVIOUS
    <3>2. f \in 1..Len(fs) /\ fs[f].device = files[f].device
      BY <1>1, <1>4, Zenon DEF Alike
    <3> HIDE DEF fs
    <3>3. QED
      BY <3>1, <3>2
  <2> HIDE DEF fs
  <2>3. Linked(c, fs)
    BY <1>1, <1>2, <1>5, <2>1, <2>2, ConnectedLink
  <2>4. Len(files') <= connects'
    <3>1. Len(files') <= Len(fs) + 1 /\ Len(files') \in Nat
      BY <2>3 DEF Linked, Stored
    <3>2. QED
      BY <1>3, <1>4, <3>1
  <2>5. FilesOK'
    BY <1>3, <2>3, <2>4, Zenon DEF FilesOK, Linked
  <2>6. device' \in DeviceTypes /\ seen' \in Nat /\ position' \in Nat
    BY <1>2, <2>3, SensorTypes DEF Linked
  <2>7. Typed'
    BY <1>2, <1>3, <2>3, <2>6, Zenon DEF Typed, Linked, world
  <2>8. Sensing'
    BY <1>2 DEF Sensing
  <2>9. QED
    BY <2>3, <2>5, <2>7, <2>8 DEF Linked
<1>7. CASE ~IsValid(c)
  <2>1. /\ conf' = NoLink /\ open' = TRUE /\ wired' = FALSE /\ connected' = FALSE
        /\ buffer' = "empty" /\ seen' = 0 /\ position' = 0
        /\ files' = fs /\ log' = 0 /\ recording' = FALSE /\ old' = old
    BY <1>7 DEF NewSensor
  <2> HIDE DEF fs
  <2>2. Len(files') <= connects'
    BY <1>3, <1>4, <2>1
  <2>3. FilesOK'
    BY <1>1, <1>3, <2>1, <2>2 DEF FilesOK
  <2>4. device' \in DeviceTypes /\ buffer' \in Held /\ seen' \in Nat /\ position' \in Nat
    BY <1>2, <2>1, SensorTypes DEF Held
  <2>5. Typed'
    BY <1>2, <1>3, <2>1, <2>4, NoLinkType, Zenon DEF Typed, world
  <2>6. Writing' /\ Playing'
    BY <2>1, NoLinkType DEF Writing, Playing
  <2>7. Sensing'
    BY <1>2 DEF Sensing
  <2>8. QED
    BY <2>3, <2>5, <2>6, <2>7
<1>8. QED
  BY <1>6, <1>7

\* A new link is remembered, in memory until the application ends.
LEMMA LinkRemembered ==
  ASSUME Typed, Memory, running = TRUE, running' = TRUE, NEW c \in Link,
         \/ UNCHANGED <<last, used>>
         \/ last' = Append(last, c) /\ used' = used \cup {c},
         UNCHANGED saved
  PROVE  Memory'
<1>1. last \in Seq(Link) /\ saved \in Seq(Link) /\ used \subseteq Link /\ Covers(last, used)
  BY DEF Memory
<1>2. CASE UNCHANGED <<last, used>>
  BY <1>1, <1>2 DEF Memory
<1>3. CASE last' = Append(last, c) /\ used' = used \cup {c}
  <2>1. /\ Append(last, c) \in Seq(Link) /\ Len(Append(last, c)) = Len(last) + 1
        /\ Len(last) \in Nat /\ Append(last, c)[Len(last) + 1] = c
        /\ \A i \in 1..Len(last) : Append(last, c)[i] = last[i]
    BY <1>1
  <2>2. ASSUME NEW d \in used \cup {c}
        PROVE  \E i \in 1..(Len(last) + 1) : SameLink(Append(last, c)[i], d)
    <3>1. CASE d \in used
      <4>1. PICK i \in 1..Len(last) : SameLink(last[i], d)
        BY <1>1, <3>1 DEF Covers
      <4>2. QED
        BY <2>1, <4>1
    <3>2. CASE d = c
      BY <2>1, <3>2, SameLinkReflexive
    <3>3. QED
      BY <3>1, <3>2
  <2>3. Covers(Append(last, c), used \cup {c})
    BY <2>1, <2>2 DEF Covers
  <2>4. QED
    BY <1>1, <1>3, <2>1, <2>3 DEF Memory
<1>4. QED
  BY <1>2, <1>3

LEMMA WordsOf == Seq(STRING) \subseteq Seq(Words)
<1>1. ASSUME NEW s \in Seq(STRING) PROVE s \in Seq(Words)
  <2>1. \A i \in 1..Len(s) : s[i] \in STRING
    OBVIOUS
  <2>2. \A i \in 1..Len(s) : s[i] \in Words
    BY <2>1, Zenon DEF Words
  <2>3. s = [i \in 1..Len(s) |-> s[i]] /\ Len(s) \in Nat
    OBVIOUS
  <2>4. QED
    BY <2>2, <2>3
<1>2. QED
  BY <1>1

LEMMA DirectlyKeeps ==
  ASSUME ConnectionInv, NEW c \in Configurations, ConnectLinkDirectly(c)
  PROVE  ConnectionInv'
<1>1. c \in Link /\ c.type # "File"
  BY ConnectionAssumption, WordsOf DEF ConnectionAssumption, Link
<1>2. /\ running = TRUE /\ running' = TRUE
  <2>1. running /\ running \in BOOLEAN /\ running' = running
    BY Zenon DEF ConnectLinkDirectly, Connecting, ConnectionInv, Typed
  <2>2. QED
    BY <2>1
<1>3. /\ connects' = connects + 1 /\ connects < MaxConnects /\ hurried' \in BOOLEAN
      /\ UNCHANGED <<running, world>> /\ NewSensor(c, SensorOf(c.device))
  BY DEF ConnectLinkDirectly, Connecting
<1>4. Typed' /\ FilesOK' /\ Writing' /\ Playing' /\ Sensing'
  BY <1>1, <1>3, SensorTypes, SensorReplaced DEF ConnectionInv
<1>5. \/ UNCHANGED <<last, used>>
      \/ last' = Append(last, c) /\ used' = used \cup {c}
  BY DEF ConnectLinkDirectly
<1>6. Memory'
  BY <1>1, <1>2, <1>5, LinkRemembered DEF ConnectionInv, ConnectLinkDirectly
<1>7. QED
  BY <1>4, <1>6 DEF ConnectionInv

LEMMA PairOfNames ==
  ASSUME NEW S, NEW n \in S, NEW m \in S
  PROVE  <<n, m>> \in Seq(S) /\ <<n, m>>[1] = n
OBVIOUS

LEMMA PlayLogKeeps ==
  ASSUME ConnectionInv, NEW f \in DOMAIN files, PlayLogFile(f)
  PROVE  ConnectionInv'
<1> DEFINE type == IF HasHeader(files[f]) THEN files[f].device ELSE "UNKNOWN"
           c == [type |-> "File", args |-> <<LogNames[f], "r">>, device |-> type]
<1>1. /\ f \in 1..Len(files) /\ files[f] \in File /\ files[f].device \in Sensors
      /\ f \in 1..Len(LogNames)
  <2>1. files \in Seq(File) /\ Len(files) <= connects /\ connects <= MaxConnects
    BY DEF ConnectionInv, FilesOK, Stored
  <2>2. connects \in Nat /\ MaxConnects \in Nat /\ Len(LogNames) >= MaxConnects
        /\ LogNames \in Seq(STRING)
    BY ConnectionAssumption DEF ConnectionAssumption, ConnectionInv, Typed
  <2>3. f \in 1..Len(files)
    BY <2>1
  <2>4. f \in 1..Len(LogNames)
    BY <2>1, <2>2, <2>3
  <2>5. files[f] \in File
    BY <2>1, <2>3
  <2>6. QED
    BY <2>3, <2>4, <2>5, FileFacts
<1>2. LogNames[f] \in STRING
  BY <1>1, ConnectionAssumption DEF ConnectionAssumption
<1>3. type \in DeviceTypes /\ (HasHeader(files[f]) => SensorOf(type) = files[f].device)
  BY <1>1, SensorTypes DEF DeviceTypes
<1>4. <<LogNames[f], "r">> \in Seq(Words) /\ <<LogNames[f], "r">>[1] = LogNames[f]
  <2>1. "r" \in Words /\ LogNames[f] \in Words
    BY <1>2, Zenon DEF Words
  <2>2. QED
    BY <2>1, PairOfNames, Zenon
<1>5. PlayAs(f, type)
  BY DEF PlayLogFile
<1> HIDE DEF type
<1>6. c \in Link /\ c.type = "File" /\ c.args[1] = LogNames[f]
  BY <1>3, <1>4 DEF Link, LinkTypes
<1>7. /\ connects' = connects + 1 /\ connects < MaxConnects
      /\ hurried' = ~HasHeader(files[f])
      /\ UNCHANGED <<running, world, settings>> /\ NewSensor(c, SensorOf(type))
  BY <1>5 DEF PlayAs, Connecting
<1> HIDE DEF c
<1>8. hurried' \in BOOLEAN /\ (~hurried' => HasHeader(files[f]))
  BY <1>7 DEF HasHeader
<1>9. \E g \in 1..Len(files) : /\ c.args[1] = LogNames[g]
                               /\ ~hurried' => SensorOf(type) = files[g].device
  BY <1>1, <1>3, <1>6, <1>8, Zenon
<1>10. Typed' /\ FilesOK' /\ Writing' /\ Playing' /\ Sensing'
  BY <1>6, <1>7, <1>8, <1>9, SensorTypes, SensorReplaced DEF ConnectionInv
<1>11. Memory'
  BY <1>7 DEF ConnectionInv, Memory, settings
<1>12. QED
  BY <1>10, <1>11 DEF ConnectionInv

LEMMA AgainKeeps == ConnectionInv /\ ConnectAgain => ConnectionInv'
<1> SUFFICES ASSUME ConnectionInv, ConnectAgain PROVE ConnectionInv'
  OBVIOUS
<1>1. /\ connects' = connects + 1 /\ connects < MaxConnects /\ flashing
      /\ SensorConnectLink(conf, device, files, log) /\ flashing' = FALSE
      /\ UNCHANGED <<running, device, world, settings, hurried>>
  BY DEF ConnectAgain, Connecting
<1>2. conf.type = "Serial" /\ device \in Sensors /\ conf \in Link
  BY <1>1 DEF ConnectionInv, Sensing, Typed
<1>3. Stored(files, log) /\ buffer \in Held /\ old \in BOOLEAN /\ writable \in BOOLEAN
  BY Zenon DEF ConnectionInv, FilesOK, Typed
<1>4. Linked(conf, files)
  BY <1>1, <1>2, <1>3, ConnectedLink
<1>5. /\ connects \in Nat /\ connects' \in Nat /\ connects' <= MaxConnects
      /\ Len(files) <= connects /\ Len(files) \in Nat
  BY <1>1, ConnectionAssumption
  DEF ConnectionInv, Typed, FilesOK, Stored, ConnectionAssumption
<1>6. Len(files') <= connects'
  <2>1. Len(files') <= Len(files) + 1 /\ Len(files') \in Nat
    BY <1>4 DEF Linked, Stored
  <2>2. QED
    BY <1>1, <1>5, <2>1
<1>7. FilesOK'
  BY <1>4, <1>5, <1>6, Zenon DEF FilesOK, Linked
<1>8. seen' \in Nat /\ position' \in Nat
  BY <1>4 DEF Linked
<1>9. Typed'
  BY <1>1, <1>2, <1>4, <1>5, <1>8, Zenon DEF ConnectionInv, Typed, Linked, world
<1>10. Memory'
  BY <1>1 DEF ConnectionInv, Memory, settings
<1>11. Sensing'
  BY <1>1, <1>2 DEF Sensing
<1>12. QED
  BY <1>4, <1>7, <1>9, <1>10, <1>11 DEF ConnectionInv, Linked

-----------------------------------------------------------------------------
(* What changes without a connection.                                      *)

LEMMA WritingFrame ==
  ASSUME Writing, UNCHANGED <<recording, connected, log, conf, device, files, buffer, seen>>,
         old' = old \/ old' = TRUE
  PROVE  Writing'
<1>1. CASE old' = old
  BY <1>1, Zenon DEF Writing
<1>2. CASE old' = TRUE
  BY <1>2, Zenon DEF Writing
<1>3. QED
  BY <1>1, <1>2

LEMMA FlashClosesKeeps == ConnectionInv /\ FlashCloses => ConnectionInv'
<1> SUFFICES ASSUME ConnectionInv, FlashCloses PROVE ConnectionInv'
  OBVIOUS
<1> USE DEF FlashCloses, ConnectionInv, parsing, logging, world, settings, bounds
<1>1. Typed'
  BY Zenon DEF Typed
<1>2. FilesOK'
  BY Zenon DEF FilesOK
<1>3. Memory'
  BY Zenon DEF Memory
<1>4. Writing'
  BY WritingFrame, Zenon
<1>5. Playing' /\ Sensing'
  BY DEF Playing, Sensing
<1>6. QED
  BY <1>1, <1>2, <1>3, <1>4, <1>5, Zenon

LEMMA PortErrorKeeps == ConnectionInv /\ PortError => ConnectionInv'
<1> SUFFICES ASSUME ConnectionInv, PortError PROVE ConnectionInv'
  OBVIOUS
<1> USE DEF PortError, ConnectionInv, parsing, logging, world, settings, bounds
<1>1. Typed'
  BY Zenon DEF Typed
<1>2. FilesOK'
  BY Zenon DEF FilesOK
<1>3. Memory'
  BY Zenon DEF Memory
<1>4. Writing'
  BY WritingFrame, Zenon
<1>5. Playing' /\ Sensing'
  BY DEF Playing, Sensing
<1>6. QED
  BY <1>1, <1>2, <1>3, <1>4, <1>5, Zenon

LEMMA StateTimeoutKeeps == ConnectionInv /\ StateTimeout => ConnectionInv'
<1> SUFFICES ASSUME ConnectionInv, StateTimeout PROVE ConnectionInv'
  OBVIOUS
<1> USE DEF StateTimeout, ConnectionInv, parsing, logging, world, settings, bounds
<1>1. Typed'
  BY Zenon DEF Typed
<1>2. FilesOK'
  BY Zenon DEF FilesOK
<1>3. Memory'
  BY Zenon DEF Memory
<1>4. Writing'
  BY WritingFrame, Zenon
<1>5. Playing' /\ Sensing'
  BY DEF Playing, Sensing
<1>6. QED
  BY <1>1, <1>2, <1>3, <1>4, <1>5, Zenon

LEMMA DayPassesKeeps == ConnectionInv /\ DayPasses => ConnectionInv'
<1> SUFFICES ASSUME ConnectionInv, DayPasses PROVE ConnectionInv'
  OBVIOUS
<1> USE DEF DayPasses, ConnectionInv, link, parsing, world, settings, bounds
<1>1. Typed'
  BY Zenon DEF Typed
<1>2. FilesOK'
  BY Zenon DEF FilesOK
<1>3. Memory'
  BY Zenon DEF Memory
<1>4. Writing'
  BY WritingFrame, Zenon
<1>5. Playing' /\ Sensing'
  <2>1. recording
    BY Zenon
  <2>2. QED
    BY <2>1, Zenon DEF Playing, Sensing
<1>6. QED
  BY <1>1, <1>2, <1>3, <1>4, <1>5, Zenon

LEMMA ChangeKeeps == ConnectionInv /\ ChangeOfWorld => ConnectionInv'
<1> SUFFICES ASSUME ConnectionInv, ChangeOfWorld PROVE ConnectionInv'
  OBVIOUS
<1>1. present' \subseteq Places /\ writable' \in BOOLEAN
  <2>1. present \subseteq Places /\ writable \in BOOLEAN
    BY Zenon DEF ConnectionInv, Typed
  <2>2. QED
    BY <2>1 DEF ChangeOfWorld
<1> USE DEF ChangeOfWorld, ConnectionInv, sensor, link, logging, parsing, settings
<1>2. Typed'
  BY <1>1, Zenon DEF Typed
<1>3. FilesOK'
  BY Zenon DEF FilesOK
<1>4. Memory'
  BY Zenon DEF Memory
<1>5. Writing'
  BY WritingFrame, Zenon
<1>6. Playing' /\ Sensing'
  BY Zenon DEF Playing, Plays, Sensing
<1>7. QED
  BY <1>2, <1>3, <1>4, <1>5, <1>6, Zenon

LEMMA RestartKeeps == ConnectionInv /\ Restart => ConnectionInv'
<1> SUFFICES ASSUME ConnectionInv, Restart PROVE ConnectionInv'
  OBVIOUS
<1>1. running = FALSE /\ running' = TRUE
  <2>1. running \in BOOLEAN /\ ~running /\ running' = TRUE
    BY Zenon DEF ConnectionInv, Typed, Restart
  <2>2. QED
    BY <2>1
<1> USE DEF Restart, ConnectionInv, sensor, link, logging, parsing, world, bounds
<1>2. Typed'
  BY Zenon DEF Typed
<1>3. FilesOK'
  BY Zenon DEF FilesOK
<1>4. Memory'
  BY <1>1 DEF Memory
<1>5. Writing'
  BY WritingFrame, Zenon
<1>6. Playing' /\ Sensing'
  BY Zenon DEF Playing, Plays, Sensing
<1>7. QED
  BY <1>2, <1>3, <1>4, <1>5, <1>6, Zenon

LEMMA StutterKeeps == ConnectionInv /\ UNCHANGED vars => ConnectionInv'
<1> SUFFICES ASSUME ConnectionInv, UNCHANGED vars PROVE ConnectionInv'
  OBVIOUS
<1> USE DEF vars, ConnectionInv, sensor, link, logging, parsing, settings, world, bounds
<1>1. Typed'
  BY Zenon DEF Typed
<1>2. FilesOK'
  BY Zenon DEF FilesOK
<1>3. Memory'
  BY Zenon DEF Memory
<1>4. Writing'
  BY WritingFrame, Zenon
<1>5. Playing' /\ Sensing'
  BY Zenon DEF Playing, Plays, Sensing
<1>6. QED
  BY <1>1, <1>2, <1>3, <1>4, <1>5, Zenon

-----------------------------------------------------------------------------
(* The parser and the files.                                               *)

\* The names of logs differ, so that the link finds its file.
LEMMA PlayedIs ==
  ASSUME ConnectionInv, NEW f \in 1..Len(files), Plays(f)
  PROVE  Played = files[f]
<1>1. Len(files) <= Len(LogNames) /\ LogNames \in Seq(STRING)
      /\ Len(files) \in Nat
      /\ \A i, j \in DOMAIN LogNames : LogNames[i] = LogNames[j] => i = j
  <2>1. /\ connects \in Nat /\ MaxConnects \in Nat /\ Len(files) \in Nat
        /\ Len(files) <= connects /\ connects <= MaxConnects
        /\ Len(LogNames) >= MaxConnects /\ LogNames \in Seq(STRING)
    BY ConnectionAssumption
    DEF ConnectionInv, Typed, FilesOK, Stored, ConnectionAssumption
  <2>2. Len(files) <= Len(LogNames)
    BY <2>1
  <2>3. QED
    BY <2>1, <2>2, ConnectionAssumption DEF ConnectionAssumption
<1>2. f \in DOMAIN LogNames
  BY <1>1
<1>3. LogNames[f] = conf.args[1]
  BY Zenon DEF Plays
<1>4. FileOf(conf) = f
  BY <1>1, <1>2, <1>3, Zenon DEF FileOf
<1>5. QED
  BY <1>4 DEF Played

LEMMA PlayKeeps == ConnectionInv /\ Play => ConnectionInv'
<1> SUFFICES ASSUME ConnectionInv, Play PROVE ConnectionInv'
  OBVIOUS
<1> DEFINE half == Played.packs[position + 1].half
<1>1. /\ conf.type = "File" /\ open /\ position < Playable(Played)
      /\ position' = position + 1
      /\ buffer' = Holds(buffer, half) /\ seen' = Counts(buffer, seen, half)
      /\ UNCHANGED <<running, device, connected, link, logging, flashing, files,
                     world, settings, hurried, bounds>>
  BY DEF Play, ParseBuffer
<1>2. position \in Nat /\ position' \in Nat /\ seen \in Nat
  BY <1>1 DEF ConnectionInv, Typed
<1> HIDE DEF half
<1>3. buffer' \in Held /\ seen' \in Nat
  BY <1>1, <1>2, HeldType
<1>4. Typed'
  BY <1>1, <1>2, <1>3, Zenon DEF ConnectionInv, Typed, link, logging, world, bounds
<1>5. FilesOK'
  BY <1>1, Zenon DEF ConnectionInv, FilesOK, logging, bounds
<1>6. Memory'
  BY <1>1, Zenon DEF ConnectionInv, Memory, settings
<1>7. log = 0 /\ ~recording /\ \E f \in 1..Len(files) : Plays(f)
  BY <1>1, Zenon DEF ConnectionInv, Playing
<1>8. Writing'
  BY <1>1, <1>7, Zenon DEF Writing, logging
<1>9. PICK f \in 1..Len(files) : Plays(f)
  BY <1>7
<1>10. FileOK(files[f]) /\ files[f].disk = Len(files[f].packs) /\ files[f] \in File
  BY <1>7 DEF ConnectionInv, FilesOK, Stored, FileOK
<1>11. Played = files[f]
  BY <1>9, PlayedIs
<1>12. ASSUME files[f].whole
       PROVE  /\ position + 1 <= Playable(files[f])
              /\ InStep(files[f].packs, position + 1, buffer', seen')
  <2>1. InStep(files[f].packs, position, buffer, seen)
    BY <1>1, <1>9, <1>12, Zenon DEF Plays
  <2>2. PICK d \in 0..Len(files[f].packs) : DatedUpTo(files[f].packs, d)
    BY <1>10, <1>12, Zenon DEF FileOK, Told
  <2>3. Playable(files[f]) = d /\ Len(files[f].packs) \in Nat /\ files[f].packs \in Seq(Pack)
    BY <1>10, <2>2, PlayableDays, FileFacts
  <2>4. position < d /\ position < Len(files[f].packs) /\ position + 1 <= d
    BY <1>1, <1>2, <1>11, <2>3
  <2>5. InStep(files[f].packs, position + 1, buffer', seen')
    BY <1>1, <1>2, <1>11, <2>1, <2>3, <2>4, InStepPlays DEF half
  <2>6. QED
    BY <2>3, <2>4, <2>5
<1>13. Plays(f)'
  <2>1. conf' = conf /\ files' = files /\ device' = device /\ hurried' = hurried /\ open' = open
    BY <1>1 DEF link
  <2>2. position' = position + 1
    BY <1>1
  <2>3. QED
    BY <1>9, <1>12, <2>1, <2>2, Zenon DEF Plays
<1>14. Playing'
  BY <1>1, <1>7, <1>13, Zenon DEF Playing, logging
<1>15. Sensing'
  BY <1>1, Zenon DEF ConnectionInv, Sensing, link
<1>16. QED
  BY <1>4, <1>5, <1>6, <1>8, <1>14, <1>15, Zenon DEF ConnectionInv

Exchanged(fs, o, g, gs) == gs = [fs EXCEPT ![o] = g]

\* The log that is written may change, as long as it stays a log.
LEMMA LogChanged ==
  ASSUME NEW fs, NEW o, Stored(fs, o), o # 0, NEW g, FileOK(g),
         NEW gs, Exchanged(fs, o, g, gs)
  PROVE  Stored(gs, o) /\ Len(gs) = Len(fs) /\ gs[o] = g
<1>1. /\ fs \in Seq(File) /\ o \in 1..Len(fs) /\ o \in 0..Len(fs) /\ g \in File
      /\ \A f \in 1..Len(fs) : FileOK(fs[f])
      /\ \A f \in 1..Len(fs) : f # o => fs[f].disk = Len(fs[f].packs)
  BY DEF Stored, FileOK
<1>2. /\ gs \in Seq(File) /\ Len(gs) = Len(fs) /\ gs[o] = g
      /\ \A f \in 1..Len(fs) : f # o => gs[f] = fs[f]
  BY <1>1 DEF Exchanged
<1>3. QED
  BY <1>1, <1>2, Zenon DEF Stored

\* A gap: what comes while the folder cannot be written to is not in the log.
LEMMA GapKeeps ==
  ASSUME NEW file, FileOK(file)
  PROVE  /\ FileOK([file EXCEPT !.whole = FALSE])
         /\ [file EXCEPT !.whole = FALSE].whole = FALSE
         /\ [file EXCEPT !.whole = FALSE].device = file.device
<1>1. file \in File
  BY DEF FileOK
<1>2. /\ [file EXCEPT !.whole = FALSE] \in File
      /\ [file EXCEPT !.whole = FALSE].whole = FALSE
      /\ [file EXCEPT !.whole = FALSE].device = file.device
      /\ [file EXCEPT !.whole = FALSE].disk = file.disk
      /\ [file EXCEPT !.whole = FALSE].packs = file.packs
      /\ [file EXCEPT !.whole = FALSE].header = file.header
  BY <1>1 DEF File
<1>3. QED
  BY <1>2, Zenon DEF FileOK

\* A log gets the half that the parser gets.
LEMMA LongerFile ==
  ASSUME NEW file, FileOK(file), NEW half \in {"head", "tail"}, old \in BOOLEAN, seen' \in Nat,
         buffer' = Holds(buffer, half), seen' = Counts(buffer, seen, half),
         ~old /\ file.whole => /\ DatedUpTo(file.packs, Len(file.packs))
                              /\ InStep(file.packs, Len(file.packs), buffer, seen)
  PROVE  /\ FileOK(Longer(file, half)) /\ Longer(file, half).device = file.device
         /\ ~old /\ Longer(file, half).whole =>
              /\ DatedUpTo(Longer(file, half).packs, Len(Longer(file, half).packs))
              /\ InStep(Longer(file, half).packs, Len(Longer(file, half).packs),
                        buffer', seen')
<1> DEFINE p == [half |-> half, dated |-> ~old]
           g == Longer(file, half)
           n == Len(file.packs)
<1>1. file \in File /\ file.packs \in Seq(Pack) /\ n \in Nat /\ file.disk <= n
      /\ file.disk \in Nat /\ file.seen \in Nat
  BY FileFacts DEF FileOK
<1>2. p \in Pack /\ p.half = half /\ p.dated = ~old
  BY DEF Pack
<1> HIDE DEF p
<1>3. Append(file.packs, p) \in Seq(Pack) /\ Len(Append(file.packs, p)) = n + 1
  BY <1>1, <1>2
<1>4. /\ g.device = file.device /\ g.disk = file.disk /\ g.whole = file.whole
      /\ g.header = TRUE /\ g.packs = Append(file.packs, p)
      /\ g.seen = (IF old THEN file.seen ELSE seen')
  BY <1>1 DEF Longer, WithHeader, File, p
<1>5. g \in File
  <2> DEFINE q == Append(file.packs, p)
             m == IF old THEN file.seen ELSE seen'
  <2>1. q \in Seq(Pack) /\ m \in Nat
    BY <1>1, <1>3
  <2>2. g = [[file EXCEPT !.header = TRUE] EXCEPT !.packs = q, !.seen = m]
    BY <1>1 DEF Longer, WithHeader, File, p
  <2> HIDE DEF q, m, g
  <2>3. QED
    BY <1>1, <2>1, <2>2 DEF File
<1> HIDE DEF g
<1>6. CASE old
  <2>1. file.whole => Told(g.packs, g.seen)
    <3>1. p.dated = FALSE
      BY <1>2, <1>6
    <3>2. g.seen = file.seen
      BY <1>4, <1>6
    <3>3. file.whole => Told(file.packs, file.seen)
      BY Zenon DEF FileOK
    <3>4. QED
      BY <1>1, <1>2, <1>4, <3>1, <3>2, <3>3, ToldLater
  <2>2. g.disk <= Len(g.packs)
    BY <1>1, <1>3, <1>4
  <2>3. FileOK(g)
    BY <1>4, <1>5, <2>1, <2>2, Zenon DEF FileOK
  <2>4. QED
    BY <1>4, <1>6, <2>3 DEF g
<1>7. CASE ~old
  <2>1. file.whole => /\ Told(g.packs, g.seen) /\ DatedUpTo(g.packs, Len(g.packs))
                      /\ InStep(g.packs, Len(g.packs), buffer', seen')
    <3> SUFFICES ASSUME file.whole
                 PROVE  /\ Told(g.packs, g.seen) /\ DatedUpTo(g.packs, Len(g.packs))
                        /\ InStep(g.packs, Len(g.packs), buffer', seen')
      OBVIOUS
    <3>1. p.dated = TRUE /\ g.seen = seen'
      BY <1>2, <1>4, <1>7
    <3>2. Told(file.packs, file.seen)
      BY Zenon DEF FileOK
    <3>3. DatedUpTo(file.packs, n) /\ InStep(file.packs, n, buffer, seen)
      BY <1>7
    <3>4. /\ Told(Append(file.packs, p), Counts(buffer, seen, p.half))
          /\ DatedUpTo(Append(file.packs, p), n + 1)
      BY <1>1, <1>2, <3>1, <3>2, <3>3, ToldToday
    <3>5. InStep(Append(file.packs, p), n + 1, Holds(buffer, p.half), Counts(buffer, seen, p.half))
      BY <1>1, <1>2, <3>3, InStepWrites
    <3>6. QED
      BY <1>2, <1>3, <1>4, <3>1, <3>4, <3>5
  <2>2. g.disk <= Len(g.packs)
    BY <1>1, <1>3, <1>4
  <2>3. FileOK(g)
    BY <1>4, <1>5, <2>1, <2>2, Zenon DEF FileOK
  <2>4. QED
    BY <1>4, <1>7, <2>1, <2>3 DEF g
<1>8. QED
  BY <1>6, <1>7

LEMMA ReceiveKeeps == ConnectionInv /\ Receive => ConnectionInv'
<1> SUFFICES ASSUME ConnectionInv, Receive PROVE ConnectionInv'
  OBVIOUS
<1>1. PICK half \in {"head", "tail"} : ParseBuffer(half) /\ files' = Written(half)
  BY DEF Receive
<1>2. /\ conf.type # "File"
      /\ UNCHANGED <<running, device, connected, link, logging, position, flashing,
                     world, settings, hurried, connects, changes>>
  BY DEF Receive
<1>3. buffer' = Holds(buffer, half) /\ seen' = Counts(buffer, seen, half)
  BY <1>1 DEF ParseBuffer
<1>4. seen \in Nat /\ old \in BOOLEAN /\ writable \in BOOLEAN /\ recording \in BOOLEAN
  BY Zenon DEF ConnectionInv, Typed
<1>5. buffer' \in Held /\ seen' \in Nat
  BY <1>3, <1>4, HeldType
<1>6. Typed'
  BY <1>2, <1>5, Zenon DEF ConnectionInv, Typed, link, logging, world
<1>7. Memory'
  BY <1>2, Zenon DEF ConnectionInv, Memory, settings
<1>8. Playing' /\ Sensing'
  BY <1>2, Zenon DEF ConnectionInv, Playing, Sensing, link
<1>9. Stored(files, log) /\ Len(files) <= connects /\ connects <= MaxConnects
  BY Zenon DEF ConnectionInv, FilesOK
<1>10. CASE ~recording
  <2>1. files' = files
    BY <1>1, <1>10 DEF Written
  <2>2. FilesOK'
    BY <1>2, <1>9, <2>1, Zenon DEF FilesOK, logging
  <2>3. Writing'
    BY <1>2, <1>10, Zenon DEF Writing, logging
  <2>4. QED
    BY <1>6, <1>7, <1>8, <2>2, <2>3, Zenon DEF ConnectionInv
<1>11. CASE recording
  <2>1. /\ connected /\ log = Len(files) /\ log # 0 /\ files[log].device = device
        /\ ~old /\ files[log].whole =>
             /\ DatedUpTo(files[log].packs, Len(files[log].packs))
             /\ InStep(files[log].packs, Len(files[log].packs), buffer, seen)
    BY <1>11, Zenon DEF ConnectionInv, Writing
  <2>2. FileOK(files[log])
    <3>1. log \in 1..Len(files)
      BY <1>9, <2>1 DEF Stored
    <3>2. QED
      BY <1>9, <3>1 DEF Stored
  <2> DEFINE Follows(g) ==
               /\ FileOK(g) /\ g.device = device
               /\ ~old /\ g.whole => /\ DatedUpTo(g.packs, Len(g.packs))
                                     /\ InStep(g.packs, Len(g.packs), buffer', seen')
  <2>3. \E g : Follows(g) /\ files' = [files EXCEPT ![log] = g]
    <3>1. CASE writable
      <4>1. files' = [files EXCEPT ![log] = Longer(files[log], half)]
        BY <1>1, <1>11, <3>1 DEF Written
      <4>2. Follows(Longer(files[log], half))
        BY <1>3, <1>4, <1>5, <2>1, <2>2, LongerFile
      <4> HIDE DEF Follows
      <4>3. QED
        BY <4>1, <4>2, Zenon
    <3>2. CASE ~writable
      <4> DEFINE g == [files[log] EXCEPT !.whole = FALSE]
      <4>1. files' = [files EXCEPT ![log] = g]
        BY <1>1, <1>11, <3>2 DEF Written
      <4>2. FileOK(g) /\ g.whole = FALSE /\ g.device = device
        BY <2>1, <2>2, GapKeeps
      <4> HIDE DEF g
      <4>3. Follows(g)
        BY <4>2
      <4> HIDE DEF Follows
      <4>4. QED
        BY <4>1, <4>3, Zenon
    <3>3. QED
      BY <1>4, <3>1, <3>2
  <2>4. PICK g : Follows(g) /\ files' = [files EXCEPT ![log] = g]
    BY <2>3, Zenon
  <2>5. Stored(files', log) /\ Len(files') = Len(files) /\ files'[log] = g
    <3>1. FileOK(g) /\ log # 0 /\ Stored(files, log)
      BY <1>9, <2>1, <2>4
    <3>2. Exchanged(files, log, g, files')
      BY <2>4 DEF Exchanged
    <3> HIDE DEF Follows
    <3>3. QED
      BY <3>1, <3>2, LogChanged
  <2>6. FilesOK'
    BY <1>2, <1>9, <2>5, Zenon DEF FilesOK, logging
  <2>7. Writing'
    BY <1>2, <2>1, <2>4, <2>5, Zenon DEF Writing, logging, link
  <2>8. QED
    BY <1>6, <1>7, <1>8, <2>6, <2>7, Zenon DEF ConnectionInv
<1>12. QED
  BY <1>4, <1>10, <1>11

LEMMA FlushKeeps == ConnectionInv /\ Flush => ConnectionInv'
<1> SUFFICES ASSUME ConnectionInv, Flush PROVE ConnectionInv'
  OBVIOUS
<1>1. /\ log # 0 /\ files' = [files EXCEPT ![log] = Flushed(@)]
      /\ UNCHANGED <<running, sensor, world, settings, hurried, bounds>>
  BY DEF Flush
<1>2. Stored(files, log)
  BY Zenon DEF ConnectionInv, FilesOK
<1>3. Stored(files', 0) /\ Alike(files, files')
  BY <1>1, <1>2, FlushedOne
<1>4. Len(files') = Len(files) /\ log' = log
  BY <1>1, <1>3, Zenon DEF Alike, sensor, logging
<1>5. Stored(files', log')
  <2>1. log' \in 0..Len(files') /\ \A f \in 1..Len(files') : f # 0
    BY <1>2, <1>4 DEF Stored
  <2>2. QED
    BY <1>3, <2>1, Zenon DEF Stored
<1>6. FilesOK'
  BY <1>1, <1>4, <1>5, Zenon DEF ConnectionInv, FilesOK, bounds
<1>7. Typed'
  BY <1>1, Zenon DEF ConnectionInv, Typed, sensor, link, logging, parsing, world, bounds
<1>8. Memory'
  BY <1>1, Zenon DEF ConnectionInv, Memory, settings
<1>9. log \in 1..Len(files)
  BY <1>1, <1>2 DEF Stored
<1>10. /\ files'[log].device = files[log].device /\ files'[log].packs = files[log].packs
       /\ files'[log].whole = files[log].whole
  BY <1>3, <1>9, Zenon DEF Alike
<1>11. Writing'
  BY <1>1, <1>4, <1>10, Zenon DEF ConnectionInv, Writing, sensor, link, logging, parsing
<1>12. Playing' /\ Sensing'
  BY <1>1, Zenon DEF ConnectionInv, Playing, Sensing, sensor, link
<1>13. QED
  BY <1>6, <1>7, <1>8, <1>11, <1>12, Zenon DEF ConnectionInv

-----------------------------------------------------------------------------
(* The end of the application.                                             *)

\* All files change alike and none is written any more.
LEMMA AllChanged ==
  ASSUME NEW fs, NEW o, Stored(fs, o), NEW gs, DOMAIN gs = DOMAIN fs,
         \A f \in 1..Len(fs) : FileOK(gs[f]),
         \A f \in 1..Len(fs) : gs[f].disk = Len(gs[f].packs),
         gs = [f \in DOMAIN gs |-> gs[f]]
  PROVE  Stored(gs, 0) /\ Len(gs) = Len(fs)
<1>1. fs \in Seq(File) /\ Len(fs) \in Nat /\ DOMAIN fs = 1..Len(fs)
  BY DEF Stored
<1>2. ASSUME NEW f \in 1..Len(fs)
      PROVE  FileOK(gs[f]) /\ gs[f] \in File /\ gs[f].disk = Len(gs[f].packs)
  <2>2. FileOK(gs[f]) /\ gs[f].disk = Len(gs[f].packs)
    BY Zenon
  <2>3. gs[f] \in File
    BY <2>2, Zenon DEF FileOK
  <2>4. QED
    BY <2>2, <2>3
<1>3. gs \in Seq(File) /\ Len(gs) = Len(fs) /\ 0 \in 0..Len(gs)
  <2>1. gs \in [1..Len(fs) -> File]
    BY <1>1, <1>2
  <2>2. QED
    BY <1>1, <2>1
<1>4. QED
  BY <1>2, <1>3 DEF Stored

\* A log that a crash cuts is a log still; a whole one has lost nothing.
LEMMA CutFile ==
  ASSUME NEW file, FileOK(file)
  PROVE  FileOK(Cut(file)) /\ Cut(file).disk = Len(Cut(file).packs)
<1> DEFINE g == Cut(file)
           q == SubSeq(file.packs, 1, file.disk)
           h == file.header /\ file.disk > 0
           w == file.whole /\ file.disk = Len(file.packs)
<1>1. /\ file \in File /\ file.packs \in Seq(Pack) /\ file.disk \in Nat
      /\ file.disk <= Len(file.packs) /\ Len(file.packs) \in Nat
  BY FileFacts DEF FileOK
<1>2. q \in Seq(Pack) /\ Len(q) = file.disk
  <2>1. \A i \in 1..file.disk : file.packs[i] \in Pack
    BY <1>1
  <2>2. /\ q \in Seq(Pack)
        /\ Len(q) = IF 1 <= file.disk THEN file.disk - 1 + 1 ELSE 0
    BY <1>1, <2>1, SubSeqProperties
  <2>3. QED
    BY <1>1, <2>2
<1>3. g = [file EXCEPT !.packs = q, !.header = h, !.whole = w]
  BY DEF Cut
<1>4. h \in BOOLEAN /\ w \in BOOLEAN
  OBVIOUS
<1> HIDE DEF q, h, w, g
<1>5. /\ g \in File /\ g.packs = q /\ g.header = h /\ g.whole = w
      /\ g.disk = file.disk /\ g.seen = file.seen
  BY <1>1, <1>2, <1>3, <1>4 DEF File
<1>6. g.packs # <<>> => g.header
  <2> SUFFICES ASSUME q # <<>> PROVE h
    BY <1>5
  <2>1. Len(q) # 0
    BY <1>2, EmptySeq
  <2>2. file.disk > 0 /\ Len(file.packs) # 0
    BY <1>1, <1>2, <2>1
  <2>3. file.packs # <<>>
    BY <2>2, EmptySeq
  <2>4. file.header
    BY <2>3, Zenon DEF FileOK
  <2>5. QED
    BY <2>2, <2>4 DEF h
<1>7. g.whole => Told(g.packs, g.seen)
  <2> SUFFICES ASSUME w PROVE Told(q, file.seen)
    BY <1>5
  <2>1. file.whole /\ file.disk = Len(file.packs)
    BY DEF w
  <2>2. q = file.packs
    BY <1>1, <2>1, SubSeqFull DEF q
  <2>3. QED
    BY <2>1, <2>2, Zenon DEF FileOK
<1>8. g.disk <= Len(g.packs) /\ g.disk = Len(g.packs)
  BY <1>1, <1>2, <1>5
<1>9. QED
  BY <1>5, <1>6, <1>7, <1>8, Zenon DEF FileOK, g

\* Without a sensor nothing is written or played.
LEMMA NoSensorKeeps ==
  ASSUME NoSensor, Stored(files', 0), Len(files') = Len(files), Typed, FilesOK,
         running' \in BOOLEAN, UNCHANGED <<world, hurried, bounds>>
  PROVE  Typed' /\ FilesOK' /\ Writing' /\ Playing' /\ Sensing'
<1>1. /\ device' = "UNKNOWN" /\ connected' = FALSE
      /\ conf' = NoLink /\ open' = TRUE /\ wired' = FALSE
      /\ buffer' = "empty" /\ seen' = 0 /\ position' = 0 /\ flashing' = FALSE
      /\ log' = 0 /\ recording' = FALSE /\ old' = FALSE
  BY Zenon DEF NoSensor
<1>2. device' \in DeviceTypes /\ buffer' \in Held /\ 0 \in Nat
  BY <1>1 DEF DeviceTypes, Held
<1>3. Typed'
  BY <1>1, <1>2, NoLinkType, Zenon DEF Typed, world, bounds
<1>4. FilesOK'
  BY <1>1, Zenon DEF FilesOK, bounds
<1>5. Writing' /\ Playing' /\ Sensing'
  BY <1>1, NoLinkType DEF Writing, Playing, Sensing
<1>6. QED
  BY <1>3, <1>4, <1>5

LEMMA ExitKeeps == ConnectionInv /\ Exit => ConnectionInv'
<1> SUFFICES ASSUME ConnectionInv, Exit PROVE ConnectionInv'
  OBVIOUS
<1>1. /\ running /\ running' = FALSE /\ saved' = Saved(last) /\ last' = <<>>
      /\ files' = [f \in DOMAIN files |-> Flushed(files[f])]
      /\ NoSensor /\ UNCHANGED <<world, used, hurried, bounds>>
  BY DEF Exit
<1>2. Stored(files, log)
  BY Zenon DEF ConnectionInv, FilesOK
<1>3. Stored(files', 0) /\ Len(files') = Len(files)
  <2>1. \A f \in 1..Len(files) : files'[f] = Flushed(files[f])
    <3>1. DOMAIN files = 1..Len(files)
      BY <1>2 DEF Stored
    <3>2. QED
      BY <1>1, <3>1
  <2>2. DOMAIN files' = DOMAIN files /\ files' = [f \in DOMAIN files' |-> files'[f]]
    BY <1>1
  <2>3. ASSUME NEW f \in 1..Len(files)
        PROVE  FileOK(files'[f]) /\ files'[f].disk = Len(files'[f].packs)
    <3>1. FileOK(files[f])
      BY <1>2 DEF Stored
    <3>2. QED
      BY <2>1, <3>1, FlushedFile
  <2>4. QED
    BY <1>2, <2>2, <2>3, AllChanged
<1>4. Typed' /\ FilesOK' /\ Writing' /\ Playing' /\ Sensing'
  BY <1>1, <1>3, NoSensorKeeps DEF ConnectionInv
<1>5. last \in Seq(Link) /\ Covers(last, used) /\ used \subseteq Link
  BY <1>1 DEF ConnectionInv, Memory
<1>6. Saved(last) \in Seq(Link) /\ Covers(Saved(last), used)
  BY <1>5, SavedCovers
<1>7. Memory'
  <2>1. last' \in Seq(Link)
    BY <1>1, EmptySeq
  <2>2. QED
    BY <1>1, <1>5, <1>6, <2>1 DEF Memory
<1>8. QED
  BY <1>4, <1>7 DEF ConnectionInv

LEMMA CrashKeeps == ConnectionInv /\ Crash => ConnectionInv'
<1> SUFFICES ASSUME ConnectionInv, Crash PROVE ConnectionInv'
  OBVIOUS
<1>1. /\ running' = FALSE /\ last' = <<>> /\ used' = ToSet(saved)
      /\ files' = [f \in DOMAIN files |-> Cut(files[f])]
      /\ NoSensor /\ UNCHANGED <<world, saved, hurried, bounds>>
  BY DEF Crash
<1>2. Stored(files, log)
  BY Zenon DEF ConnectionInv, FilesOK
<1>3. Stored(files', 0) /\ Len(files') = Len(files)
  <2>1. \A f \in 1..Len(files) : files'[f] = Cut(files[f])
    <3>1. DOMAIN files = 1..Len(files)
      BY <1>2 DEF Stored
    <3>2. QED
      BY <1>1, <3>1
  <2>2. DOMAIN files' = DOMAIN files /\ files' = [f \in DOMAIN files' |-> files'[f]]
    BY <1>1
  <2>3. ASSUME NEW f \in 1..Len(files)
        PROVE  FileOK(files'[f]) /\ files'[f].disk = Len(files'[f].packs)
    <3>1. FileOK(files[f])
      BY <1>2 DEF Stored
    <3>2. QED
      BY <2>1, <3>1, CutFile
  <2>4. QED
    BY <1>2, <2>2, <2>3, AllChanged
<1>4. Typed' /\ FilesOK' /\ Writing' /\ Playing' /\ Sensing'
  BY <1>1, <1>3, NoSensorKeeps DEF ConnectionInv
<1>5. saved \in Seq(Link) /\ DOMAIN saved = 1..Len(saved)
  BY DEF ConnectionInv, Memory
<1>6. used' = {saved[i] : i \in 1..Len(saved)}
  BY <1>1, <1>5 DEF ToSet
<1>7. used' \subseteq Link /\ Covers(saved, used')
  <2>1. used' \subseteq Link
    BY <1>5, <1>6
  <2>2. ASSUME NEW c \in used' PROVE \E i \in 1..Len(saved) : SameLink(saved[i], c)
    BY <1>6, SameLinkReflexive
  <2>3. QED
    BY <2>1, <2>2, Zenon DEF Covers
<1>8. Memory'
  <2>1. last' \in Seq(Link)
    BY <1>1, EmptySeq
  <2>2. QED
    BY <1>1, <1>5, <1>7, <2>1 DEF Memory
<1>9. QED
  BY <1>4, <1>8 DEF ConnectionInv

-----------------------------------------------------------------------------
LEMMA ConnectionBegins == Init => ConnectionInv
<1> SUFFICES ASSUME Init PROVE ConnectionInv
  OBVIOUS
<1>1. <<>> \in Seq(Link) /\ <<>> \in Seq(File) /\ Len(<<>>) = 0
  BY EmptySeq
<1>2. Typed
  <2>1. device \in DeviceTypes /\ buffer \in Held /\ present \subseteq Places
    BY DEF Init, DeviceTypes, Held
  <2>2. /\ running = TRUE /\ connected = FALSE /\ conf = NoLink /\ open = TRUE
        /\ wired = FALSE /\ recording = FALSE /\ old = FALSE /\ flashing = FALSE
        /\ writable = TRUE /\ hurried = FALSE
    BY DEF Init
  <2>3. seen \in Nat /\ position \in Nat /\ connects \in Nat
    BY DEF Init
  <2>4. QED
    BY <2>1, <2>2, <2>3, NoLinkType, Zenon DEF Typed
<1>3. FilesOK
  <2>1. files = <<>> /\ log = 0 /\ connects = 0 /\ MaxConnects \in Nat
    BY ConnectionAssumption DEF Init, ConnectionAssumption
  <2>2. QED
    BY <1>1, <2>1 DEF FilesOK, Stored
<1>4. Memory
  BY <1>1 DEF Init, Memory, Covers
<1>5. Writing /\ Playing /\ Sensing
  BY NoLinkType DEF Init, Writing, Playing, Sensing
<1>6. QED
  BY <1>2, <1>3, <1>4, <1>5 DEF ConnectionInv

\* The inductive invariant of the connections, whatever the user connects,
\* whatever is plugged, reached, writable or not, and whenever the application
\* ends or crashes.
THEOREM ConnectionInvariant == Spec => []ConnectionInv
<1>1. ConnectionInv /\ [Next]_vars => ConnectionInv'
  <2> SUFFICES ASSUME ConnectionInv, [Next]_vars PROVE ConnectionInv'
    OBVIOUS
  <2>1. CASE User
    <3>1. ASSUME NEW c \in Configurations, ConnectLinkDirectly(c) PROVE ConnectionInv'
      BY <3>1, DirectlyKeeps
    <3>2. ASSUME NEW f \in DOMAIN files, PlayLogFile(f) PROVE ConnectionInv'
      BY <3>2, PlayLogKeeps
    <3>3. QED
      BY <2>1, <3>1, <3>2, FlashClosesKeeps, ExitKeeps, Zenon DEF User
  <2>2. CASE ConnectAgain \/ PortError \/ StateTimeout
    BY <2>2, AgainKeeps, PortErrorKeeps, StateTimeoutKeeps
  <2>3. CASE Receive \/ Play \/ Flush \/ DayPasses
    BY <2>3, ReceiveKeeps, PlayKeeps, FlushKeeps, DayPassesKeeps
  <2>4. CASE Crash \/ Restart \/ ChangeOfWorld
    BY <2>4, CrashKeeps, RestartKeeps, ChangeKeeps
  <2>5. CASE UNCHANGED vars
    BY <2>5, StutterKeeps
  <2>6. QED
    BY <2>1, <2>2, <2>3, <2>4, <2>5 DEF Next
<1>2. QED
  BY <1>1, ConnectionBegins, PTL DEF Spec

\* Whoever has used a link and not crashed finds it again after a restart
\* (~SettingsManager(), saveLinkConfigurations(), loadLinkConfigurations());
\* and a log that is written is the last of the files and that of the sensor
\* in use (connectLinkLog()).
THEOREM LinksAndLogsKept == Spec => []Inv
<1>1. ConnectionInv => Inv
  <2> SUFFICES ASSUME ConnectionInv PROVE Inv
    OBVIOUS
  <2>1. files \in Seq(File) /\ Len(files) \in Nat /\ DOMAIN files = 1..Len(files)
        /\ log \in 0..Len(files)
    BY DEF ConnectionInv, FilesOK, Stored
  <2>2. TypeOK
    <3>1. {running, connected, open, wired, recording, old, flashing, writable, hurried}
            \subseteq BOOLEAN
      BY Zenon DEF ConnectionInv, Typed
    <3>2. conf.type \in LinkTypes
      BY DEF ConnectionInv, Typed, Link
    <3>3. \A f \in DOMAIN files : files[f].disk <= Len(files[f].packs)
      BY <2>1, Zenon DEF ConnectionInv, FilesOK, Stored, FileOK
    <3>4. device \in DeviceTypes /\ seen \in Nat /\ position \in Nat /\ present \subseteq Places
          /\ buffer \in {"empty", "head"}
      BY Zenon DEF ConnectionInv, Typed, Held
    <3>5. QED
      BY <2>1, <3>1, <3>2, <3>3, <3>4, Zenon DEF TypeOK
  <2>3. LinksRemembered
    <3> SUFFICES ASSUME running PROVE \A c \in used : \E i \in DOMAIN last : SameLink(last[i], c)
      BY Zenon DEF LinksRemembered
    <3>1. last \in Seq(Link) /\ Covers(last, used)
      BY DEF ConnectionInv, Memory
    <3>2. DOMAIN last = 1..Len(last)
      BY <3>1
    <3>3. QED
      BY <3>1, <3>2, Zenon DEF Covers
  <2>4. recording => connected /\ log = Len(files) /\ files[log].device = device
    BY Zenon DEF ConnectionInv, Writing
  <2>5. QED
    BY <2>2, <2>3, <2>4, Zenon DEF Inv
<1>2. QED
  BY <1>1, ConnectionInvariant, PTL

\* A log that was written without a gap shows, when it is played to its end,
\* as many messages as were seen when it was recorded, although connections
\* begin and end in the middle of messages (clearBuffer() in connectLink(),
\* FileLink::writeData(), ProcessLog).
THEOREM ReplayIsFaithful == Spec => []ReplayShowsWhatWasSeen
<1>1. ConnectionInv => ReplayShowsWhatWasSeen
  <2> SUFFICES ASSUME ConnectionInv, conf.type = "File", open, Played.whole,
                      position = Playable(Played)
               PROVE  seen = Played.seen
    BY Zenon DEF ReplayShowsWhatWasSeen
  <2>1. PICK f \in 1..Len(files) : Plays(f)
    BY Zenon DEF ConnectionInv, Playing
  <2>2. Played = files[f] /\ log = 0
    BY <2>1, PlayedIs, Zenon DEF ConnectionInv, Playing
  <2>3. f # log
    BY <2>1, <2>2
  <2>4. FileOK(files[f]) /\ files[f].disk = Len(files[f].packs) /\ files[f] \in File
    BY <2>3, Zenon DEF ConnectionInv, FilesOK, Stored, FileOK
  <2>5. InStep(files[f].packs, position, buffer, seen)
    BY <2>1, <2>2, Zenon DEF Plays
  <2>6. PICK held \in [Nat -> Held], count \in [Nat -> Nat], d \in 0..Len(files[f].packs) :
          /\ Trace(held, count, files[f].packs)
          /\ DatedUpTo(files[f].packs, d) /\ files[f].seen = count[d]
    BY <2>2, <2>4, Zenon DEF FileOK, Told
  <2>7. Playable(files[f]) = d
    BY <2>4, <2>6, PlayableDays
  <2>8. count[position] = seen
    BY <2>5, <2>6, Zenon DEF InStep
  <2>9. QED
    BY <2>2, <2>6, <2>7, <2>8
<1>2. QED
  BY <1>1, ConnectionInvariant, PTL

\* A log is played by a sensor of the type that recorded it (playLogFile()),
\* unless its header was not on the disk yet when the user chose it.
THEOREM LogMeetsItsSensor == Spec => []PlayedByItsSensor
<1>1. ConnectionInv => PlayedByItsSensor
  <2> SUFFICES ASSUME ConnectionInv, conf.type = "File", open, ~hurried
               PROVE  device = Played.device
    BY Zenon DEF PlayedByItsSensor
  <2>1. PICK f \in 1..Len(files) : Plays(f)
    BY Zenon DEF ConnectionInv, Playing
  <2>2. Played = files[f]
    BY <2>1, PlayedIs
  <2>3. device = files[f].device
    BY <2>1, Zenon DEF Plays
  <2>4. QED
    BY <2>2, <2>3
<1>2. QED
  BY <1>1, ConnectionInvariant, PTL

-----------------------------------------------------------------------------
(* The thread that plays a log: Playback.  IInv, its inductive invariant,  *)
(* says that where the index is not in the log the thread is on its way to *)
(* rewind it, and that the package it reads next is due.                   *)

\* The successor of a package is a package, and the one counted next unless
\* the log ends.
LEMMA Next1Type ==
  ASSUME NEW i \in Packages
  PROVE  /\ i \in 0..Size /\ Next1(i) \in Packages
         /\ i + 1 < Size => Next1(i) = i + 1 /\ i + 1 \in Packages
         /\ i + 1 >= Size => Next1(i) = 0 /\ i + 1 = Size
BY PlaybackAssumption DEF Packages, Next1

LEMMA ZeroIsPackage == 0 \in Packages /\ 0 \in 0..Size
BY PlaybackAssumption DEF Packages

LEMMA TimeType == \A i \in Packages : Time[i] \in Int
BY PlaybackAssumption DEF Packages

LEMMA PlaybackBegins == PlaybackInit => IInv
<1> SUFFICES ASSUME PlaybackInit PROVE IInv
  OBVIOUS
<1> USE ZeroIsPackage
<1>1. PlaybackTypeOK
  <2>1. play \in BOOLEAN /\ stop \in BOOLEAN
    BY DEF PlaybackInit
  <2>2. replay \in Replay /\ calls \in 0..MaxCalls /\ due \subseteq Packages
    BY PlaybackAssumption DEF PlaybackInit
  <2>3. QED
    BY <2>1, <2>2 DEF PlaybackInit, PlaybackTypeOK
<1>2. IndexInv /\ WaitInv /\ DueInv /\ FirstInv
  BY DEF PlaybackInit, IndexInv, WaitInv, DueInv, FirstInv
<1>3. QED
  BY <1>1, <1>2 DEF IInv

-----------------------------------------------------------------------------
\* The steps of the thread keep the invariant.
LEMMA ThreadKeeps == IInv /\ Thread => IInv'
<1> SUFFICES ASSUME IInv, Thread PROVE IInv'
  OBVIOUS
<1> USE DEF IInv, PlaybackTypeOK, IndexInv, WaitInv, DueInv, FirstInv, SoughtFirst, shared, local, caller
<1>0. UNCHANGED caller
  BY DEF Thread
<1>1. CASE Top
  BY <1>0, <1>1 DEF Top
<1>14. CASE CheckPlay
  BY <1>0, <1>14 DEF CheckPlay
<1>15. CASE WarnPrevious
  BY <1>0, <1>15 DEF WarnPrevious, At
<1>16. CASE WarnCurrent
  BY <1>0, <1>16 DEF WarnCurrent, At
<1>17. CASE LoadReplay
  BY <1>0, <1>17, PlaybackAssumption DEF LoadReplay, At
<1>18. CASE Store
  BY <1>0, <1>18 DEF Store, At
<1>19. CASE Shorten
  BY <1>0, <1>19 DEF Shorten, At
<1>2. CASE ReadData
  BY <1>0, <1>2, Next1Type DEF ReadData, At
<1>3. CASE ReadTime
  BY <1>0, <1>3, TimeType DEF ReadTime, At
<1>4. CASE Advance
  <2>1. index \in Packages /\ Next1(index) \in due
    BY <1>4 DEF Advance, At
  <2>2. index' \in 0..Size
    BY <1>4, <2>1, PlaybackAssumption DEF Advance, At, Packages
  <2>3. IF index' < Size THEN index' \in due ELSE 0 \in due
    <3>1. index' = index + 1
      BY <1>4 DEF Advance
    <3>2. index + 1 < Size => Next1(index) = index + 1
      BY <2>1, Next1Type
    <3>3. ~(index + 1 < Size) => Next1(index) = 0
      BY DEF Next1
    <3>4. QED
      BY <2>1, <3>1, <3>2, <3>3
  <2>4. QED
    BY <1>0, <1>4, <2>2, <2>3 DEF Advance, At
<1>5. CASE Bound
  <2>1. index < Size => index \in Packages
    BY PlaybackAssumption DEF Packages
  <2>2. QED
    BY <1>0, <1>5, <2>1, PlaybackAssumption DEF Bound
<1>6. CASE Rewind
  BY <1>0, <1>6, ZeroIsPackage DEF Rewind, At
<1>7. CASE Halt
  BY <1>0, <1>7 DEF Halt, At
<1>8. CASE Diff
  BY <1>0, <1>8, TimeType DEF Diff
<1>9. CASE Choose
  BY <1>0, <1>9 DEF Choose
<1>10. CASE Limit
  BY <1>0, <1>10 DEF Limit, At, Min2
<1>11. CASE Loop
  BY <1>0, <1>11 DEF Loop
<1>12. CASE Nap
  BY <1>0, <1>12 DEF Nap, At
<1>13. QED
  BY <1>1, <1>2, <1>3, <1>4, <1>5, <1>6, <1>7, <1>8, <1>9, <1>10, <1>11,
     <1>12, <1>14, <1>15, <1>16, <1>17, <1>18, <1>19 DEF Thread

\* The calls of the interface keep it, wherever the thread is meanwhile.
LEMMA GuiKeeps == IInv /\ Gui => IInv'
<1> SUFFICES ASSUME IInv, Gui PROVE IInv'
  OBVIOUS
<1> USE DEF IInv, PlaybackTypeOK, IndexInv, WaitInv, DueInv, FirstInv, SoughtFirst, shared, local
<1>0. UNCHANGED <<pc, local>>
  BY DEF Gui
<1>1. CASE Pause
  <2>1. play' \in BOOLEAN
    BY <1>1 DEF Pause
  <2>2. calls' \in 0..MaxCalls
    BY <1>1, PlaybackAssumption DEF Pause, Begin
  <2>3. QED
    BY <1>0, <1>1, <2>1, <2>2 DEF Pause, Begin
<1>2. CASE Start
  <2>1. play' \in BOOLEAN
    BY <1>2 DEF Start
  <2>2. calls' \in 0..MaxCalls
    BY <1>2, PlaybackAssumption DEF Start, Begin
  <2>3. QED
    BY <1>0, <1>2, <2>1, <2>2 DEF Start, Begin
<1>3. CASE Unstop
  BY <1>0, <1>3 DEF Unstop
<1>4. CASE Wake
  BY <1>0, <1>4 DEF Wake
<1>5. CASE \E k \in Packages : Seek(k)
  <2>1. PICK k \in Packages : Seek(k)
    BY <1>5
  <2>2. target' \in Packages /\ calls' \in 0..MaxCalls
    BY <2>1, PlaybackAssumption DEF Seek, Begin
  <2>3. QED
    BY <1>0, <2>1, <2>2 DEF Seek
<1>6. CASE SeekTo
  <2>1. target \in Packages /\ target \in 0..Size /\ Next1(target) \in Packages
    BY Next1Type
  <2>2. index' = target /\ target < Size
    BY <1>6, <2>1, PlaybackAssumption DEF SeekTo, Packages
  <2>3. due' \subseteq Packages /\ DueInv'
    BY <1>0, <1>6, <2>1, <2>2, ZeroIsPackage DEF SeekTo
  <2>4. QED
    BY <1>0, <1>6, <2>1, <2>2, <2>3 DEF SeekTo
<1>7. CASE \E ms \in Replay : SetReplayTime(ms)
  <2>1. PICK ms \in Replay : SetReplayTime(ms)
    BY <1>7
  <2>2. replay' \in Replay /\ calls' \in 0..MaxCalls
    BY <2>1, PlaybackAssumption DEF SetReplayTime, Begin
  <2>3. QED
    BY <1>0, <2>1, <2>2 DEF SetReplayTime
<1>8. CASE Finish
  BY <1>0, <1>8 DEF Finish
<1>9. CASE Finished
  BY <1>0, <1>9 DEF Finished
<1>10. QED
  BY <1>1, <1>2, <1>3, <1>4, <1>5, <1>6, <1>7, <1>8, <1>9 DEF Gui

\* The invariant of the playback holds in every run.
THEOREM PlaybackInvariant == PlaybackSpec => []IInv
<1>1. IInv /\ [PlaybackNext]_playbackVars => IInv'
  <2> SUFFICES ASSUME IInv, [PlaybackNext]_playbackVars PROVE IInv'
    OBVIOUS
  <2>1. CASE PlaybackNext
    BY <2>1, ThreadKeeps, GuiKeeps DEF PlaybackNext
  <2>2. CASE UNCHANGED playbackVars
    BY <2>2 DEF playbackVars, shared, local, caller, IInv, PlaybackTypeOK, IndexInv, WaitInv, DueInv, FirstInv, SoughtFirst
  <2>3. QED
    BY <2>1, <2>2
<1>2. QED
  BY <1>1, PlaybackBegins, PTL DEF PlaybackSpec

\* The playback thread reads only what is in the log, however its steps and the
\* seeks of the interface (setPackageIndex()) are interleaved; what its warning
\* about an earlier time reads is outside only after a seek to the first package.
THEOREM PlaybackReadsInLog == PlaybackSpec => []ReadsInLog
<1>1. IInv => ReadsInLog
  BY PlaybackAssumption DEF IInv, IndexInv, FirstInv, PlaybackTypeOK, Packages, ReadsInLog
<1>2. QED
  BY <1>1, PlaybackInvariant, PTL

\* Every package that is sent was due: none is left out or repeated, except
\* as a seek demands.
THEOREM PlaybackInOrder == PlaybackSpec => []PlaysInOrder
<1>1. IInv => PlaysInOrder
  BY DEF IInv, DueInv, PlaysInOrder
<1>2. QED
  BY <1>1, PlaybackInvariant, PTL
=============================================================================
