------------------------- MODULE StreamWriterProofs -------------------------
(***************************************************************************)
(* What a writer of flow files has put on the wire, for every size of a    *)
(* header, all sizes of contents and any number of flow files.  The steps  *)
(* of a reader leave all of it alone, so Transfer's proofs build on these. *)
(***************************************************************************)
EXTENDS StreamWriter, FiniteSetTheorems, SequenceTheorems, WellFoundedInduction, TLAPS

\* How many bytes of the wire belong to the flow files before that one.
From(i) == Cardinality({place \in 1 .. Len(wire) : wire[place][1] < i})

\* Each flow file is in one piece on the wire, from its first byte on, and
\* behind those written before it.
Layout ==
  /\ wire \in Seq(Nat \X Nat)
  /\ \A place \in 1 .. Len(wire) :
       /\ wire[place][1] \in 1 .. Part
       /\ wire[place][2] \in 1 .. PutOf(wire[place][1])
       /\ place = From(wire[place][1]) + wire[place][2]
  /\ \A i \in 1 .. Part : \A k \in 1 .. PutOf(i) :
       /\ From(i) + k \in 1 .. Len(wire)
       /\ wire[From(i) + k] = <<i, k>>
  /\ \A i, j \in 1 .. Part : i < j => From(i) + PutOf(i) <= From(j)

\* A writer between two calls whose word can be taken: it is not poisoned.
Settled == ~poisoned /\ (call = "idle" \/ finished)

\* Every flow file is on the wire as a whole, but for those abandoned and
\* the last one, as long as it is being written or its write has failed.
Written ==
  /\ \A i \in 1 .. Part : PutOf(i) <= Header + declared[i]
  /\ \A i \in 1 .. Part : i \notin abandoned /\ (i < Part \/ Settled) => PutOf(i) = Header + declared[i]
  /\ call = "writing" =>
       /\ Part > 0 /\ Part \notin abandoned /\ ~poisoned
       /\ PutOf(Part) = put /\ supply <= declared[Part]

\* Each flow file was counted or abandoned, and the current one is neither.
Counted ==
  /\ Settled => count + Cardinality(abandoned) = Part
  /\ call = "writing" => count + Cardinality(abandoned) + 1 = Part

\* The wire is closed with the writer's going, and finish leaves nothing
\* behind.
Closed ==
  /\ closed <=> call = "gone"
  /\ finished => call = "gone" /\ landed = Len(wire)

WriterIInv == WireTypeOK /\ WriterTypeOK /\ Layout /\ Written /\ Counted /\ Closed
-----------------------------------------------------------------------------
\* A set of natural numbers that is not empty has a least element.
LEMMA LeastElement ==
  ASSUME NEW T \in SUBSET Nat, T # {}
  PROVE  \E x \in T : \A y \in T : x <= y
<1>1. PICK x \in T : \A y \in T : ~ (<<y, x>> \in OpToRel(<, Nat))
  BY WFMin, NatLessThanWellFounded, Zenon
<1>2. \A y \in T : ~ (y < x)
  BY <1>1 DEF OpToRel
<1> QED
  BY <1>2

\* The numbers from 1 to n are n.
LEMMA FromOne ==
  ASSUME NEW n \in Nat
  PROVE  IsFiniteSet(1 .. n) /\ Cardinality(1 .. n) = n
<1>1. IsFiniteSet(1 .. n) /\ Cardinality(1 .. n) = IF 1 > n THEN 0 ELSE n - 1 + 1
  BY FS_Interval
<1> QED
  BY <1>1

\* Places that reach down to the first are all up to their number.
LEMMA InitialSegment ==
  ASSUME NEW n \in Nat, NEW S \in SUBSET (1 .. n),
         \A p \in S : \A q \in 1 .. p : q \in S
  PROVE  S = 1 .. Cardinality(S) /\ Cardinality(S) \in 0 .. n
<1>1. CASE S = 1 .. n
  <2>1. Cardinality(1 .. n) = n
    BY FromOne
  <2> QED
    BY <1>1, <2>1
<1>2. CASE S # 1 .. n
  <2> DEFINE rest == (1 .. n) \ S
  <2>1. rest # {}
    BY <1>2
  <2> rest \in SUBSET Nat
    OBVIOUS
  <2>2. PICK first \in rest : \A q \in rest : first <= q
    BY <2>1, LeastElement, Zenon
  <2>3. first \in 1 .. n /\ first \notin S
    BY <2>2
  <2>4. S = 1 .. first - 1
    <3>1. ASSUME NEW p \in S PROVE p \in 1 .. first - 1
      <4>1. p \in 1 .. n /\ ~ (first \in 1 .. p)
        BY <2>3, <3>1
      <4> QED
        BY <2>3, <4>1
    <3>2. ASSUME NEW p \in 1 .. first - 1 PROVE p \in S
      <4>1. p \in 1 .. n /\ ~ (first <= p)
        BY <2>3, <3>2
      <4> QED
        BY <2>2, <4>1
    <3> QED
      BY <3>1, <3>2
  <2>5. Cardinality(1 .. first - 1) = first - 1
    BY <2>3, FS_Interval
  <2> QED
    BY <2>3, <2>4, <2>5
<1> QED
  BY <1>1, <1>2

-----------------------------------------------------------------------------
\* The bytes of a flow file, and those before it, can be counted.
LEMMA CountsAreNumbers ==
  ASSUME Len(wire) \in Nat, NEW i
  PROVE  PutOf(i) \in Nat /\ From(i) \in Nat
<1>1. IsFiniteSet(1 .. Len(wire))
  BY FS_Interval
<1>2. ASSUME NEW S \in SUBSET (1 .. Len(wire)) PROVE Cardinality(S) \in Nat
  BY <1>1, <1>2, FS_Subset, FS_CardinalityType
<1> QED
  BY <1>2 DEF PutOf, From

\* The lengths and the counts are numbers.
LEMMA Numbers ==
  ASSUME WireTypeOK, Layout
  PROVE  /\ Len(wire) \in Nat /\ Part \in Nat
         /\ \A i \in 1 .. Part : PutOf(i) \in Nat /\ From(i) \in Nat /\ declared[i] \in Nat
<1>1. Len(wire) \in Nat
  BY LenProperties DEF Layout
<1>2. Part \in Nat
  BY LenProperties DEF WireTypeOK, Part
<1>3. ASSUME NEW i \in 1 .. Part PROVE declared[i] \in Nat
  BY ElementOfSeq, WireAssumption DEF WireTypeOK, Part
<1> QED
  BY <1>1, <1>2, <1>3, CountsAreNumbers

\* The byte behind byte k of flow file i is the next one of i, or, when i
\* has no more, the first of a flow file written later.
LEMMA NextByte ==
  ASSUME WireTypeOK, Layout, NEW p \in 1 .. Len(wire), p + 1 <= Len(wire)
  PROVE  LET i == wire[p][1]
             k == wire[p][2]
         IN  \/ k < PutOf(i) /\ wire[p + 1] = <<i, k + 1>>
             \/ k = PutOf(i) /\ wire[p + 1][1] > i /\ wire[p + 1][2] = 1
<1> DEFINE i == wire[p][1]
           k == wire[p][2]
           j == wire[p + 1][1]
           m == wire[p + 1][2]
<1>1. Len(wire) \in Nat /\ p + 1 \in 1 .. Len(wire) /\ Part \in Nat
  BY Numbers
<1>2. /\ PutOf(i) \in Nat /\ From(i) \in Nat
      /\ PutOf(j) \in Nat /\ From(j) \in Nat
  BY <1>1, CountsAreNumbers, Zenon
<1>3. /\ i \in 1 .. Part /\ k \in 1 .. PutOf(i) /\ p = From(i) + k
      /\ j \in 1 .. Part /\ m \in 1 .. PutOf(j) /\ p + 1 = From(j) + m
  BY <1>1 DEF Layout
<1>4. CASE k < PutOf(i)
  <2>1. k + 1 \in 1 .. PutOf(i)
    BY <1>2, <1>3, <1>4
  <2>2. wire[From(i) + (k + 1)] = <<i, k + 1>>
    BY <1>3, <2>1 DEF Layout
  <2>3. From(i) + (k + 1) = p + 1
    <3> HIDE DEF i, k
    <3> QED
      BY <1>2, <1>3
  <2> QED
    BY <1>4, <2>2, <2>3
<1>5. CASE k = PutOf(i)
  <2>1. j # i
    BY <1>2, <1>3, <1>5
  <2>2. ~ (j < i)
    <3>1. j < i => From(j) + PutOf(j) <= From(i)
      BY <1>3 DEF Layout
    <3> QED
      BY <1>2, <1>3, <3>1
  <2>3. m = 1
    <3> SUFFICES ASSUME m # 1 PROVE FALSE
      OBVIOUS
    <3>1. m - 1 \in 1 .. PutOf(j)
      <4> HIDE DEF j, m
      <4> QED
        BY <1>2, <1>3
    <3>2. wire[From(j) + (m - 1)] = <<j, m - 1>>
      BY <1>3, <3>1 DEF Layout
    <3>3. From(j) + (m - 1) = p
      <4> HIDE DEF j, m
      <4> QED
        BY <1>2, <1>3
    <3> QED
      BY <2>1, <3>2, <3>3
  <2> QED
    BY <1>3, <1>5, <2>1, <2>2, <2>3
<1> QED
  BY <1>2, <1>3, <1>4, <1>5

\* What is written first comes first.
LEMMA InOrder ==
  ASSUME WireTypeOK, Layout, NEW p \in 1 .. Len(wire), NEW q \in 1 .. Len(wire), p <= q
  PROVE  wire[p][1] <= wire[q][1]
<1> DEFINE i == wire[p][1]
           j == wire[q][1]
<1>1. Len(wire) \in Nat /\ Part \in Nat
  BY Numbers
<1>2. /\ PutOf(i) \in Nat /\ From(i) \in Nat
      /\ PutOf(j) \in Nat /\ From(j) \in Nat
  BY <1>1, CountsAreNumbers, Zenon
<1>3. /\ i \in 1 .. Part /\ wire[p][2] \in 1 .. PutOf(i) /\ p = From(i) + wire[p][2]
      /\ j \in 1 .. Part /\ wire[q][2] \in 1 .. PutOf(j) /\ q = From(j) + wire[q][2]
  BY DEF Layout
<1>4. j < i => From(j) + PutOf(j) <= From(i)
  BY <1>3 DEF Layout
<1>5. ~(j < i)
  <2> SUFFICES ASSUME j < i PROVE FALSE
    OBVIOUS
  <2> DEFINE k == wire[p][2]
             l == wire[q][2]
             before == From(i)
             behind == From(j)
             bytes  == PutOf(j)
  <2>1. /\ before \in Nat /\ behind \in Nat /\ bytes \in Nat /\ k \in Nat /\ l \in Nat
        /\ k >= 1 /\ p = before + k /\ l <= bytes /\ q = behind + l
        /\ behind + bytes <= before
    BY <1>2, <1>3, <1>4
  <2> HIDE DEF i, j, k, l, before, behind, bytes
  <2> QED
    BY <2>1
<1>6. i \in Int /\ j \in Int
  BY <1>1, <1>3
<1> QED
  BY <1>5, <1>6

\* The bytes of a flow file are a stretch of the wire.
LEMMA OneStretch ==
  ASSUME WireTypeOK, Layout, NEW i \in 1 .. Part
  PROVE  {place \in 1 .. Len(wire) : wire[place][1] = i} = From(i) + 1 .. From(i) + PutOf(i)
<1>1. /\ Len(wire) \in Nat /\ PutOf(i) \in Nat /\ From(i) \in Nat
  BY Numbers
<1>2. ASSUME NEW p \in 1 .. Len(wire), wire[p][1] = i
      PROVE  p \in From(i) + 1 .. From(i) + PutOf(i)
  <2>1. wire[p][2] \in 1 .. PutOf(i) /\ p = From(i) + wire[p][2]
    BY <1>2 DEF Layout
  <2> QED
    BY <1>1, <2>1
<1>3. ASSUME NEW p \in From(i) + 1 .. From(i) + PutOf(i)
      PROVE  p \in 1 .. Len(wire) /\ wire[p][1] = i
  <2>1. p - From(i) \in 1 .. PutOf(i) /\ From(i) + (p - From(i)) = p
    BY <1>1
  <2> QED
    BY <2>1 DEF Layout
<1> QED
  BY <1>2, <1>3

\* Where a byte is followed by no other, it is the last that was put of its
\* flow file.
LEMMA LastByte ==
  ASSUME WireTypeOK, Layout, wire # <<>>
  PROVE  Len(wire) \in 1 .. Len(wire) /\ wire[Len(wire)][2] = PutOf(wire[Len(wire)][1])
<1> DEFINE i == wire[Len(wire)][1]
           k == wire[Len(wire)][2]
<1>1. Len(wire) \in Nat /\ Len(wire) \in 1 .. Len(wire)
  BY EmptySeq, Numbers DEF Layout
<1>2. i \in 1 .. Part /\ k \in 1 .. PutOf(i) /\ Len(wire) = From(i) + k
  BY <1>1 DEF Layout
<1>3. PutOf(i) \in Nat /\ From(i) \in Nat
  BY <1>2, Numbers
<1>4. k + 1 \in 1 .. PutOf(i) => From(i) + (k + 1) \in 1 .. Len(wire)
  BY <1>2 DEF Layout
<1>5. k = PutOf(i)
  <2> HIDE DEF i, k
  <2> QED
    BY <1>1, <1>2, <1>3, <1>4
<1> QED
  BY <1>1, <1>5

-----------------------------------------------------------------------------
\* What is sound of the wire is its beginning, up to the end of the first
\* flow file that was given up half-way.
SoundIsBeginning ==
  /\ Sound \in 0 .. Len(wire)
  /\ \A p \in 1 .. Len(wire) : p <= Sound <=> \A i \in Torn : wire[p][1] <= i

\* For no byte comes before one of an earlier flow file.
LEMMA SoundPlaces ==
  ASSUME WireTypeOK, WriterTypeOK, Layout
  PROVE  SoundIsBeginning
<1> DEFINE S == {place \in 1 .. Len(wire) : \A i \in Torn : wire[place][1] <= i}
<1>1. Len(wire) \in Nat /\ Part \in Nat
  BY Numbers
<1>2. Torn \subseteq 1 .. Part
  BY DEF WriterTypeOK, Torn
<1>3. ASSUME NEW p \in S, NEW q \in 1 .. p PROVE q \in S
  <2>1. p \in 1 .. Len(wire) /\ q \in 1 .. Len(wire) /\ q <= p
    BY <1>1
  <2>2. wire[q][1] <= wire[p][1]
    BY <2>1, InOrder
  <2>3. wire[q][1] \in Nat /\ wire[p][1] \in Nat
    BY <1>1, <2>1 DEF Layout
  <2>4. \A i \in Torn : i \in Nat /\ wire[p][1] <= i
    BY <1>1, <1>2
  <2>5. \A i \in Torn : wire[q][1] <= i
    BY <2>2, <2>3, <2>4
  <2> QED
    BY <2>1, <2>5
<1>4. S = 1 .. Cardinality(S) /\ Cardinality(S) \in 0 .. Len(wire)
  <2>1. \A p \in S : \A q \in 1 .. p : q \in S
    BY <1>3
  <2>2. S \in SUBSET (1 .. Len(wire))
    OBVIOUS
  <2> HIDE DEF S
  <2> QED
    BY <1>1, <2>1, <2>2, InitialSegment
<1>5. Sound = Cardinality(S)
  BY DEF Sound
<1>6. ASSUME NEW p \in 1 .. Len(wire)
      PROVE  p <= Sound <=> p \in S
  <2> HIDE DEF S
  <2> QED
    BY <1>1, <1>4, <1>5
<1> QED
  BY <1>4, <1>5, <1>6 DEF SoundIsBeginning

\* Up to there, a flow file that ended is followed by the first byte of
\* another, and any other byte by the next one of its flow file.
LEMMA SoundShape ==
  ASSUME WireTypeOK, WriterTypeOK, Layout, Written,
         NEW p \in 1 .. Len(wire), p + 1 <= Sound
  PROVE  IF Ends(p) THEN Starts(p + 1) ELSE wire[p + 1] = <<wire[p][1], wire[p][2] + 1>>
<1> DEFINE i == wire[p][1]
           k == wire[p][2]
           full == Header + declared[i]
<1>1. Len(wire) \in Nat /\ Part \in Nat /\ Header \in Nat /\ Sound \in 0 .. Len(wire)
  BY Numbers, SoundPlaces, WireAssumption DEF SoundIsBeginning
<1>2. p + 1 \in 1 .. Len(wire) /\ p + 1 <= Len(wire)
  BY <1>1
<1>3. /\ i \in 1 .. Part /\ k \in 1 .. PutOf(i)
      /\ wire[p + 1][1] \in 1 .. Part
  BY <1>2 DEF Layout
<1>4. PutOf(i) \in Nat /\ declared[i] \in Nat /\ full \in Nat
  <2>1. PutOf(i) \in Nat /\ declared[i] \in Nat
    BY <1>3, Numbers
  <2> QED
    BY <1>1, <2>1
<1>5. PutOf(i) <= full
  BY <1>3 DEF Written
<1>6. \/ k < PutOf(i) /\ wire[p + 1] = <<i, k + 1>>
      \/ k = PutOf(i) /\ wire[p + 1][1] > i /\ wire[p + 1][2] = 1
  BY <1>2, NextByte
<1>7. Ends(p) <=> k = full
  BY DEF Ends
<1>8. k = PutOf(i) => Ends(p)
  <2> SUFFICES ASSUME k = PutOf(i), PutOf(i) # Header + declared[i] PROVE FALSE
    BY <1>7
  <2>1. wire[p + 1][1] > i
    BY <1>3, <1>4, <1>6
  <2>2. i < Part
    <3> HIDE DEF i
    <3> QED
      BY <1>1, <1>3, <2>1
  <2>3. i \in abandoned
    BY <1>3, <2>2 DEF Written
  <2>4. PutOf(i) \in 1 .. Header + declared[i] - 1
    <3> HIDE DEF i, k
    <3> QED
      BY <1>1, <1>3, <1>4, <1>5
  <2>5. i \in Torn
    <3> HIDE DEF i, k
    <3> QED
      BY <2>3, <2>4, Zenon DEF Torn
  <2>6. wire[p + 1][1] <= i
    BY <1>2, <2>5, SoundPlaces DEF SoundIsBeginning
  <2> HIDE DEF i
  <2> QED
    BY <1>1, <1>3, <2>1, <2>6
<1>9. CASE Ends(p)
  <2>1. k = full
    BY <1>7, <1>9
  <2>2. ~ (k < PutOf(i))
    <3> HIDE DEF i, k, full
    <3> QED
      BY <1>3, <1>4, <1>5, <2>1
  <2> QED
    BY <1>6, <1>9, <2>2 DEF Starts
<1>10. CASE ~Ends(p)
  BY <1>6, <1>8, <1>10
<1> QED
  BY <1>9, <1>10

\* And the first byte of all is the first of a flow file.
LEMMA SoundStart ==
  ASSUME WireTypeOK, Layout, NEW p \in 1 .. Len(wire), p = 1
  PROVE  Starts(1)
<1>1. /\ wire[1][1] \in 1 .. Part /\ wire[1][2] \in 1 .. PutOf(wire[1][1])
      /\ 1 = From(wire[1][1]) + wire[1][2]
  BY DEF Layout
<1>2. From(wire[1][1]) \in Nat /\ PutOf(wire[1][1]) \in Nat
  BY <1>1, Numbers
<1>3. wire[1][2] = 1
  BY <1>1, <1>2
<1> QED
  BY <1>3 DEF Starts

\* Behind byte k of a flow file comes the rest of that flow file.
LEMMA RestOfFlowFile ==
  ASSUME WireTypeOK, WriterTypeOK, Layout, Written,
         NEW p \in 1 .. Len(wire), NEW n \in Nat,
         p + n <= Sound, wire[p][2] + n <= Header + declared[wire[p][1]]
  PROVE  wire[p + n] = <<wire[p][1], wire[p][2] + n>>
<1> DEFINE i == wire[p][1]
           k == wire[p][2]
           last == From(i) + PutOf(i)
<1>1. Len(wire) \in Nat /\ Part \in Nat /\ Header \in Nat /\ Sound \in 0 .. Len(wire)
  BY Numbers, SoundPlaces, WireAssumption DEF SoundIsBeginning
<1>2. i \in 1 .. Part /\ k \in 1 .. PutOf(i) /\ p = From(i) + k
  BY DEF Layout
<1>3. PutOf(i) \in Nat /\ From(i) \in Nat /\ declared[i] \in Nat
  BY <1>2, Numbers
<1>4. CASE k + n <= PutOf(i)
  <2>1. k + n \in 1 .. PutOf(i) /\ From(i) + (k + n) = p + n
    <3> HIDE DEF i, k
    <3> QED
      BY <1>2, <1>3, <1>4
  <2>2. wire[From(i) + (k + n)] = <<i, k + n>>
    BY <1>2, <2>1 DEF Layout
  <2> QED
    BY <2>1, <2>2
<1>5. CASE k + n > PutOf(i)
  <2>1. PutOf(i) \in 1 .. PutOf(i)
    <3> HIDE DEF i, k
    <3> QED
      BY <1>2, <1>3
  <2>2. last \in 1 .. Len(wire) /\ wire[last] = <<i, PutOf(i)>>
    BY <1>2, <2>1 DEF Layout
  <2>3. last + 1 <= Sound /\ PutOf(i) < Header + declared[i]
    <3> DEFINE f == From(i)
               q == PutOf(i)
               full == Header + declared[i]
    <3>1. f \in Nat /\ q \in Nat /\ full \in Nat /\ Sound \in Nat
      BY <1>1, <1>3
    <3>2. k \in Nat /\ p = f + k
      BY <1>2, <1>3
    <3>3. k + n > q /\ k + n <= full /\ p + n <= Sound
      BY <1>5
    <3>4. f + q + 1 <= Sound /\ q < full
      <4> HIDE DEF i, k, f, q, full
      <4> QED
        BY <3>1, <3>2, <3>3
    <3> QED
      BY <3>4
  <2>4. ~Ends(last)
    BY <1>3, <2>2, <2>3 DEF Ends
  <2>5. wire[last + 1] = <<i, PutOf(i) + 1>>
    <3>1. wire[last + 1] = <<wire[last][1], wire[last][2] + 1>>
      BY <2>2, <2>3, <2>4, SoundShape
    <3> QED
      BY <2>2, <3>1
  <2>6. last + 1 \in 1 .. Len(wire)
    BY <1>1, <1>3, <2>3
  <2>7. PutOf(i) + 1 \in 1 .. PutOf(i)
    BY <2>5, <2>6 DEF Layout
  <2> QED
    BY <1>3, <2>7
<1> QED
  <2>1. k + n \in Nat
    BY <1>2, <1>3
  <2> QED
    BY <1>3, <1>4, <1>5, <2>1

-----------------------------------------------------------------------------
\* Nothing is on the wire at first.
LEMMA WriterInitial == WireInit /\ WriterInit => WriterIInv
<1> SUFFICES ASSUME WireInit, WriterInit PROVE WriterIInv
  OBVIOUS
<1>1. wire = <<>> /\ declared = <<>> /\ landed = 0 /\ closed = FALSE
  BY DEF WireInit
<1>2. Len(wire) = 0 /\ Part = 0 /\ wire \in Seq(Nat \X Nat) /\ declared \in Seq(Sizes)
  BY <1>1 DEF Part
<1>3. 1 .. Len(wire) = {} /\ 1 .. Part = {}
  BY <1>2
<1>4. WireTypeOK
  <2>1. Len(declared) <= MaxParts
    BY <1>2, WireAssumption DEF Part
  <2>2. landed \in 0 .. Len(wire) /\ closed \in BOOLEAN
    <3>1. landed \in 0 .. Len(wire)
      BY <1>1, <1>2
    <3> QED
      BY <1>1, <3>1
  <2> QED
    BY <1>2, <1>3, <2>1, <2>2, Zenon DEF WireTypeOK
<1>5. /\ call = "idle" /\ finished = FALSE /\ poisoned = FALSE
      /\ supply = 0 /\ put = 0 /\ count = 0 /\ abandoned = {}
  BY DEF WriterInit
<1>6. WriterTypeOK
  <2>1. supply \in Nat /\ put \in 0 .. Header + supply /\ count \in 0 .. Part
    BY <1>2, <1>5, WireAssumption
  <2> QED
    BY <1>5, <2>1, Zenon DEF WriterTypeOK
<1>7. Layout
  BY <1>2, <1>3 DEF Layout
<1>8. Written
  BY <1>3, <1>5 DEF Written
<1>9. Counted
  BY <1>2, <1>5, FS_EmptySet DEF Counted
<1>10. Closed
  BY <1>1, <1>5 DEF Closed
<1> QED
  BY <1>4, <1>6, <1>7, <1>8, <1>9, <1>10 DEF WriterIInv

\* The abandoned flow files can be counted.
LEMMA AbandonedCount ==
  ASSUME WireTypeOK, Layout, WriterTypeOK
  PROVE  IsFiniteSet(abandoned) /\ Cardinality(abandoned) \in Nat
<1>1. Part \in Nat
  BY Numbers
<1>2. IsFiniteSet(1 .. Part)
  BY <1>1, FS_Interval
<1>3. abandoned \in SUBSET (1 .. Part)
  BY DEF WriterTypeOK
<1> QED
  BY <1>2, <1>3, FS_Subset, FS_CardinalityType

\* A step that puts nothing on the wire leaves what is there in its place.
LEMMA SameWire ==
  ASSUME Layout, wire' = wire, declared' = declared
  PROVE  /\ \A i : PutOf(i)' = PutOf(i) /\ From(i)' = From(i)
         /\ Layout' /\ Part' = Part
<1>1. ASSUME NEW i PROVE PutOf(i)' = PutOf(i) /\ From(i)' = From(i)
  BY DEF PutOf, From
<1>2. Part' = Part
  BY DEF Part
<1> QED
  BY <1>1, <1>2 DEF Layout

\* A step between two writes, or at the end of one, puts nothing on the wire.
LEMMA QuietStep ==
  ASSUME WriterIInv,
         wire' = wire, declared' = declared,
         WriteReturns \/ WriteFails \/ WriteCancelled \/ Land \/ FlushFails \/ Finish \/ LetGo
  PROVE  WriterIInv'
<1> USE DEF WriterIInv
<1>1. /\ \A i : PutOf(i)' = PutOf(i) /\ From(i)' = From(i)
      /\ Layout' /\ Part' = Part
  BY SameWire
<1>2. /\ Len(wire) \in Nat /\ Part \in Nat
      /\ \A i \in 1 .. Part : PutOf(i) \in Nat /\ declared[i] \in Nat
  BY Numbers
<1>3. IsFiniteSet(abandoned) /\ Cardinality(abandoned) \in Nat
  BY AbandonedCount
<1>4. WireTypeOK'
  <2>1. landed' \in 0 .. Len(wire) /\ closed' \in BOOLEAN
    <3>1. CASE Land
      BY <1>2, <3>1 DEF WireTypeOK, Land
    <3>2. CASE LetGo
      BY <1>2, <3>2 DEF WireTypeOK, LetGo
    <3>3. CASE Finish
      BY <1>2, <3>3 DEF WireTypeOK, Finish
    <3>4. CASE WriteReturns \/ WriteFails \/ WriteCancelled \/ FlushFails
      BY <3>4 DEF WireTypeOK, WriteReturns, WriteFails, WriteCancelled, FlushFails, wireVars
    <3> QED
      BY <3>1, <3>2, <3>3, <3>4
  <2> QED
    BY <2>1 DEF WireTypeOK
<1>5. call = "writing" => count + 1 \in 0 .. Part
  BY <1>2, <1>3 DEF Counted, WriterTypeOK
<1>6. WriterTypeOK'
  <2>1. CASE WriteReturns
    BY <1>1, <1>5, <2>1 DEF WriterTypeOK, WriteReturns
  <2>2. CASE WriteCancelled
    <3>1. Part \in 1 .. Part
      BY <1>2, <2>2 DEF Written, WriteCancelled
    <3> QED
      BY <1>1, <2>2, <3>1 DEF WriterTypeOK, WriteCancelled
  <2>3. CASE WriteFails \/ Land \/ FlushFails \/ Finish \/ LetGo
    BY <1>1, <2>3 DEF WriterTypeOK, WriteFails, Land, FlushFails, Finish, LetGo, writerVars
  <2> QED
    BY <2>1, <2>2, <2>3
<1>7. Written'
  <2>1. \A i \in 1 .. Part : PutOf(i)' <= Header + declared'[i]
    BY <1>1 DEF Written
  <2>2. ASSUME NEW i \in 1 .. Part, i \notin abandoned', i < Part \/ Settled'
        PROVE  PutOf(i)' = Header + declared'[i]
    <3>1. i \notin abandoned
      BY <2>2 DEF WriteReturns, WriteFails, WriteCancelled, Land, FlushFails, Finish, LetGo, writerVars
    <3>2. CASE i < Part \/ Settled
      BY <1>1, <3>1, <3>2 DEF Written
    <3>3. CASE ~(i < Part) /\ ~Settled
      <4>1. i = Part /\ Settled' /\ Part > 0
        BY <1>2, <2>2, <3>3
      <4>2. CASE WriteReturns
        <5>1. call = "writing" /\ put = Header + supply /\ supply = declared[Part]
          BY <4>1, <4>2 DEF WriteReturns, Settled
        <5> QED
          BY <1>1, <4>1, <5>1 DEF Written
      <4>3. CASE WriteCancelled
        BY <2>2, <4>1, <4>3 DEF WriteCancelled
      <4>4. CASE WriteFails \/ FlushFails
        BY <4>1, <4>4 DEF Settled, WriteFails, FlushFails
      <4>5. CASE Land
        BY <3>3, <4>1, <4>5 DEF Settled, Land, writerVars
      <4>6. CASE Finish \/ LetGo
        BY <3>3, <4>1, <4>6 DEF Settled, Finish, LetGo
      <4> QED
        BY <4>2, <4>3, <4>4, <4>5, <4>6
    <3> QED
      BY <3>2, <3>3
  <2>3. call' = "writing" =>
          /\ Part > 0 /\ Part \notin abandoned' /\ ~poisoned'
          /\ PutOf(Part)' = put' /\ supply' <= declared'[Part]
    BY <1>1 DEF Written, WriteReturns, WriteFails, WriteCancelled, Land, FlushFails, Finish, LetGo, writerVars
  <2> QED
    BY <1>1, <2>1, <2>2, <2>3 DEF Written
<1>8. Counted'
  <2>1. CASE WriteReturns
    BY <1>1, <1>2, <1>3, <2>1 DEF Counted, Settled, WriteReturns, Closed, WriterTypeOK
  <2>2. CASE WriteCancelled
    <3>1. Part \notin abandoned
      BY <2>2 DEF WriteCancelled, Written
    <3>2. Cardinality(abandoned') = Cardinality(abandoned) + 1
      BY <1>3, <2>2, <3>1, FS_AddElement DEF WriteCancelled
    <3> QED
      BY <1>1, <1>2, <1>3, <2>2, <3>2 DEF Counted, Settled, WriteCancelled, Closed, WriterTypeOK
  <2>3. CASE WriteFails \/ FlushFails
    BY <2>3 DEF Counted, Settled, WriteFails, FlushFails
  <2>4. CASE Land
    BY <1>1, <2>4 DEF Counted, Settled, Land, writerVars
  <2>5. CASE Finish \/ LetGo
    BY <1>1, <2>5 DEF Counted, Settled, Finish, LetGo
  <2> QED
    BY <2>1, <2>2, <2>3, <2>4, <2>5
<1>9. Closed'
  BY DEF Closed, WireTypeOK, WriteReturns, WriteFails, WriteCancelled, Land, FlushFails, Finish, LetGo, wireVars, writerVars
<1> QED
  BY <1>1, <1>4, <1>6, <1>7, <1>8, <1>9

\* Every byte of the wire belongs to a flow file, the last of them up to
\* the end of the wire.
LEMMA EndOfLast ==
  ASSUME WireTypeOK, Layout, Part > 0
  PROVE  From(Part) + PutOf(Part) = Len(wire)
<1> DEFINE before == {place \in 1 .. Len(wire) : wire[place][1] < Part}
           own    == {place \in 1 .. Len(wire) : wire[place][1] = Part}
<1>1. Len(wire) \in Nat /\ Part \in Nat
  BY Numbers
<1>2. IsFiniteSet(1 .. Len(wire)) /\ Cardinality(1 .. Len(wire)) = Len(wire)
  BY <1>1, FromOne
<1>3. IsFiniteSet(before) /\ IsFiniteSet(own)
  <2>1. before \in SUBSET (1 .. Len(wire)) /\ own \in SUBSET (1 .. Len(wire))
    OBVIOUS
  <2> HIDE DEF before, own
  <2> QED
    BY <1>2, <2>1, FS_Subset
<1>4. before \union own = 1 .. Len(wire)
  <2>1. \A place \in 1 .. Len(wire) : wire[place][1] \in 1 .. Part
    BY DEF Layout
  <2>2. \A place \in 1 .. Len(wire) : wire[place][1] < Part \/ wire[place][1] = Part
    BY <1>1, <2>1
  <2> QED
    BY <2>2
<1>5. before \intersect own = {}
  BY <1>1
<1>6. Cardinality(before) \in Nat /\ Cardinality(own) \in Nat
  BY <1>3, FS_CardinalityType
<1>7. Cardinality(before \union own) = Cardinality(before) + Cardinality(own) - Cardinality({})
  <2> HIDE DEF before, own
  <2> QED
    BY <1>3, <1>5, FS_Union
<1>8. Cardinality({}) = 0
  BY FS_EmptySet
<1>9. From(Part) = Cardinality(before) /\ PutOf(Part) = Cardinality(own)
  BY DEF From, PutOf
<1>10. Cardinality(before \union own) = Len(wire)
  BY <1>2, <1>4, Zenon
<1> HIDE DEF before, own
<1> QED
  BY <1>6, <1>7, <1>8, <1>9, <1>10

\* A flow file of which no byte is out yet comes behind all others.
LEMMA NextFlowFile ==
  ASSUME WireTypeOK, Layout
  PROVE  PutOf(Part + 1) = 0 /\ From(Part + 1) = Len(wire)
<1>1. Len(wire) \in Nat /\ Part \in Nat
  BY Numbers
<1>2. \A place \in 1 .. Len(wire) : wire[place][1] \in 1 .. Part
  BY DEF Layout
<1>3. {place \in 1 .. Len(wire) : wire[place][1] = Part + 1} = {}
  BY <1>1, <1>2
<1>4. {place \in 1 .. Len(wire) : wire[place][1] < Part + 1} = 1 .. Len(wire)
  BY <1>1, <1>2
<1>5. PutOf(Part + 1) = 0
  BY <1>3, FS_EmptySet DEF PutOf
<1>6. From(Part + 1) = Cardinality(1 .. Len(wire))
  BY <1>4 DEF From
<1> QED
  BY <1>1, <1>5, <1>6, FromOne

\* A write begins with a header and a size, and no byte.
LEMMA WriteStep == WriterIInv /\ Write => WriterIInv'
<1> SUFFICES ASSUME WriterIInv, Write PROVE WriterIInv'
  OBVIOUS
<1> USE DEF WriterIInv
<1>1. PICK size \in Sizes : declared' = Append(declared, size) /\ supply' \in 0 .. size
  BY DEF Write
<1>2. /\ call = "idle" /\ ~poisoned /\ Part < MaxParts /\ put' = 0 /\ call' = "writing"
      /\ UNCHANGED <<wire, landed, closed, count, poisoned, finished, abandoned>>
  BY DEF Write
<1>3. /\ Len(wire) \in Nat /\ Part \in Nat /\ Header \in Nat /\ size \in Nat /\ MaxParts \in Nat
      /\ \A i \in 1 .. Part : PutOf(i) \in Nat /\ From(i) \in Nat /\ declared[i] \in Nat
  BY Numbers, WireAssumption
<1>4. /\ declared' \in Seq(Sizes) /\ Len(declared') = Part + 1
      /\ \A i \in 1 .. Part : declared'[i] = declared[i]
      /\ declared'[Part + 1] = size
  BY <1>1, AppendProperties DEF WireTypeOK, Part
<1>5. Part' = Part + 1
  BY <1>4 DEF Part
<1>6. \A i : PutOf(i)' = PutOf(i) /\ From(i)' = From(i)
  BY <1>2 DEF PutOf, From
<1>7. PutOf(Part + 1) = 0 /\ From(Part + 1) = Len(wire)
  BY NextFlowFile
<1>8. WireTypeOK'
  <2>1. ASSUME NEW place \in 1 .. Len(wire)
        PROVE  wire[place][1] \in 1 .. Part + 1 /\ wire[place][2] \in 1 .. Header + declared'[wire[place][1]]
    <3>1. wire[place][1] \in 1 .. Part /\ wire[place][2] \in 1 .. Header + declared[wire[place][1]]
      BY DEF WireTypeOK, Part
    <3>2. declared'[wire[place][1]] = declared[wire[place][1]]
      BY <1>4, <3>1
    <3>3. wire[place][1] \in 1 .. Part + 1
      <4> DEFINE i == wire[place][1]
      <4>1. i \in 1 .. Part
        BY <3>1
      <4> HIDE DEF i
      <4>2. i \in 1 .. Part + 1
        BY <1>3, <4>1
      <4> QED
        BY <4>2 DEF i
    <3> QED
      BY <3>1, <3>2, <3>3
  <2>2. landed' \in 0 .. Len(wire') /\ closed' \in BOOLEAN
    BY <1>2 DEF WireTypeOK
  <2>3. Len(declared') <= MaxParts
    BY <1>2, <1>3, <1>4
  <2> QED
    BY <1>2, <1>4, <2>1, <2>2, <2>3 DEF WireTypeOK
<1>9. WriterTypeOK'
  <2>1. supply' \in Nat /\ put' \in 0 .. Header + supply'
    <3> DEFINE s == supply'
    <3>1. s \in 0 .. size /\ size \in Nat /\ Header \in Nat
      BY <1>1, <1>3
    <3>2. s \in Nat /\ 0 \in 0 .. Header + s
      <4> HIDE DEF s
      <4> QED
        BY <3>1
    <3> QED
      BY <1>2, <3>2
  <2>2. count \in 0 .. Part + 1 /\ abandoned \subseteq 1 .. Part + 1
    BY <1>3 DEF WriterTypeOK
  <2> QED
    BY <1>2, <1>5, <2>1, <2>2 DEF WriterTypeOK
<1>10. Layout'
  <2>1. ASSUME NEW place \in 1 .. Len(wire)
        PROVE  /\ wire[place][1] \in 1 .. Part + 1
               /\ wire[place][2] \in 1 .. PutOf(wire[place][1])
               /\ place = From(wire[place][1]) + wire[place][2]
    <3>1. wire[place][1] \in 1 .. Part
      BY DEF Layout
    <3>2. wire[place][1] \in 1 .. Part + 1
      BY <1>3, <3>1
    <3> QED
      BY <3>2 DEF Layout
  <2>2. ASSUME NEW i \in 1 .. Part + 1, NEW k \in 1 .. PutOf(i)
        PROVE  From(i) + k \in 1 .. Len(wire) /\ wire[From(i) + k] = <<i, k>>
    <3>1. i # Part + 1
      BY <1>7, <2>2
    <3>2. i \in 1 .. Part
      BY <1>3, <3>1
    <3> QED
      BY <3>2 DEF Layout
  <2>3. ASSUME NEW i \in 1 .. Part + 1, NEW j \in 1 .. Part + 1, i < j
        PROVE  From(i) + PutOf(i) <= From(j)
    <3>1. i \in 1 .. Part
      BY <1>3, <2>3
    <3>2. CASE j \in 1 .. Part
      BY <2>3, <3>1, <3>2 DEF Layout
    <3>3. CASE j = Part + 1
      <4>1. From(i) <= Len(wire)
        <5>1. {place \in 1 .. Len(wire) : wire[place][1] < i} \in SUBSET (1 .. Len(wire))
          OBVIOUS
        <5>2. Cardinality(1 .. Len(wire)) = Len(wire) /\ IsFiniteSet(1 .. Len(wire))
          BY <1>3, FromOne
        <5>3. Cardinality({place \in 1 .. Len(wire) : wire[place][1] < i}) <= Cardinality(1 .. Len(wire))
          BY <5>1, <5>2, FS_Subset
        <5> QED
          BY <5>2, <5>3 DEF From
      <4>2. PutOf(i) \in 1 .. PutOf(i) => From(i) + PutOf(i) \in 1 .. Len(wire)
        BY <3>1 DEF Layout
      <4>3. From(i) + PutOf(i) <= Len(wire)
        BY <1>3, <3>1, <4>1, <4>2
      <4> QED
        BY <1>7, <3>3, <4>3
    <3> QED
      BY <1>3, <3>2, <3>3
  <2>4. wire \in Seq(Nat \X Nat)
    BY DEF Layout
  <2> QED
    BY <1>2, <1>5, <1>6, <2>1, <2>2, <2>3, <2>4 DEF Layout
<1>11. ~Settled'
  BY <1>2 DEF Settled, Closed
<1>12. Written'
  <2>1. ASSUME NEW i \in 1 .. Part + 1 PROVE PutOf(i) <= Header + declared'[i]
    <3>1. CASE i \in 1 .. Part
      BY <1>4, <3>1 DEF Written
    <3>2. CASE i = Part + 1
      BY <1>3, <1>4, <1>7, <3>2
    <3> QED
      BY <1>3, <3>1, <3>2
  <2>2. ASSUME NEW i \in 1 .. Part + 1, i \notin abandoned, i < Part + 1
        PROVE  PutOf(i) = Header + declared'[i]
    <3>1. i \in 1 .. Part /\ Settled
      BY <1>2, <1>3, <2>2 DEF Settled
    <3> QED
      BY <1>4, <2>2, <3>1 DEF Written
  <2>3. /\ Part + 1 > 0 /\ Part + 1 \notin abandoned /\ ~poisoned'
        /\ PutOf(Part + 1) = put' /\ supply' <= declared'[Part + 1]
    <3>1. Part + 1 \notin abandoned
      BY <1>3 DEF WriterTypeOK
    <3>2. supply' <= declared'[Part + 1]
      BY <1>1, <1>3, <1>4
    <3> QED
      BY <1>2, <1>3, <1>7, <3>1, <3>2
  <2> QED
    BY <1>2, <1>5, <1>6, <1>11, <2>1, <2>2, <2>3 DEF Written
<1>13. Counted'
  <2>1. count + Cardinality(abandoned) = Part
    BY <1>2 DEF Counted, Settled
  <2> QED
    BY <1>2, <1>5, <1>11, <2>1 DEF Counted
<1>14. Closed'
  BY <1>2 DEF Closed
<1> QED
  BY <1>8, <1>9, <1>10, <1>12, <1>13, <1>14

\* n more bytes of the last flow file reach the wire.
Appends(n) == wire' = wire \o Bytes(Part, PutOf(Part), n) /\ declared' = declared

\* They go on where that flow file has got, and nothing else moves.
LEMMA BytesAppended ==
  ASSUME WireTypeOK, Layout, Part > 0, NEW n \in Nat, n > 0, Appends(n)
  PROVE  /\ Len(wire') = Len(wire) + n /\ Part' = Part
         /\ \A place \in 1 .. Len(wire) : wire'[place] = wire[place]
         /\ \A k \in 1 .. n : wire'[Len(wire) + k] = <<Part, PutOf(Part) + k>>
         /\ \A i \in 1 .. Part : From(i)' = From(i)
         /\ \A i \in 1 .. Part - 1 : PutOf(i)' = PutOf(i)
         /\ PutOf(Part)' = PutOf(Part) + n
         /\ Layout'
<1> DEFINE L == Len(wire)
           P == PutOf(Part)
           new == Bytes(Part, PutOf(Part), n)
           PutV(i)  == Cardinality({place \in 1 .. Len(wire') : wire'[place][1] = i})
           FromV(i) == Cardinality({place \in 1 .. Len(wire') : wire'[place][1] < i})
<1>1. /\ L \in Nat /\ Part \in Nat /\ Part \in 1 .. Part /\ P \in Nat /\ From(Part) \in Nat
      /\ \A i \in 1 .. Part : PutOf(i) \in Nat /\ From(i) \in Nat
  <2>1. Part \in Nat /\ L \in Nat
    BY Numbers
  <2>2. Part \in 1 .. Part
    BY <2>1
  <2> QED
    BY <2>1, <2>2, Numbers
<1>2. /\ new \in Seq(Nat \X Nat) /\ Len(new) = n
      /\ \A k \in 1 .. n : new[k] = <<Part, P + k>>
  <2>1. \A k \in 1 .. n : <<Part, P + k>> \in Nat \X Nat
    BY <1>1
  <2>2. new = [k \in 1 .. n |-> <<Part, P + k>>]
    BY DEF Bytes
  <2>3. new \in [1 .. n -> Nat \X Nat]
    BY <2>1, <2>2
  <2>4. new \in Seq(Nat \X Nat) /\ Len(new) = n
    BY <2>3, SeqDef, LenProperties
  <2> QED
    BY <2>2, <2>4
<1>3. /\ wire' \in Seq(Nat \X Nat) /\ Len(wire') = L + n
      /\ \A p \in 1 .. L + n : wire'[p] = IF p <= L THEN wire[p] ELSE new[p - L]
  <2>1. wire \in Seq(Nat \X Nat) /\ wire' = wire \o new
    BY DEF Layout, Appends
  <2> HIDE DEF new
  <2> QED
    BY <1>2, <2>1, ConcatProperties
<1>4. \A place \in 1 .. L : place \in 1 .. L + n /\ wire'[place] = wire[place]
  <2>1. ASSUME NEW place \in 1 .. L PROVE place \in 1 .. L + n /\ place <= L
    <3> HIDE DEF L
    <3> QED
      BY <1>1
  <2> QED
    BY <1>3, <2>1
<1>5. \A k \in 1 .. n : L + k \in 1 .. L + n /\ wire'[L + k] = <<Part, P + k>>
  <2> SUFFICES ASSUME NEW k \in 1 .. n
               PROVE  L + k \in 1 .. L + n /\ wire'[L + k] = <<Part, P + k>>
    OBVIOUS
  <2>1. L + k \in 1 .. L + n /\ ~(L + k <= L) /\ (L + k) - L = k
    <3> HIDE DEF L
    <3> QED
      BY <1>1
  <2>2. wire'[L + k] = new[(L + k) - L]
    BY <1>3, <2>1, Zenon
  <2> QED
    BY <1>2, <2>1, <2>2
<1>6. \A p \in 1 .. L + n : p \in 1 .. L \/ \E k \in 1 .. n : p = L + k
  <2> SUFFICES ASSUME NEW p \in 1 .. L + n, p \notin 1 .. L
               PROVE  \E k \in 1 .. n : p = L + k
    OBVIOUS
  <2>1. p - L \in 1 .. n /\ p = L + (p - L)
    <3> HIDE DEF L
    <3> QED
      BY <1>1
  <2> QED
    BY <2>1
<1> HIDE DEF new
<1>7. Part' = Part
  BY DEF Part, Appends
<1>8. \A place \in 1 .. L : wire[place][1] \in 1 .. Part
  BY DEF Layout
<1>9. ASSUME NEW i \in 1 .. Part PROVE FromV(i) = From(i)
  <2> DEFINE old == {place \in 1 .. L : wire[place][1] < i}
             all == {place \in 1 .. L + n : wire'[place][1] < i}
  <2>1. ASSUME NEW p \in all PROVE p \in old
    <3>1. ASSUME NEW k \in 1 .. n, p = L + k PROVE FALSE
      <4>1. wire'[p][1] = Part
        <5>1. wire'[p] = <<Part, P + k>>
          BY <1>5, <3>1, Zenon
        <5> QED
          BY <5>1
      <4> QED
        BY <1>1, <4>1
    <3> QED
      BY <1>4, <1>6, <3>1
  <2>2. ASSUME NEW p \in old PROVE p \in all
    BY <1>4
  <2>3. old = all
    BY <2>1, <2>2
  <2> QED
    BY <1>3, <2>3 DEF From
<1>10. ASSUME NEW i \in 1 .. Part - 1 PROVE PutV(i) = PutOf(i)
  <2> DEFINE old == {place \in 1 .. L : wire[place][1] = i}
             all == {place \in 1 .. L + n : wire'[place][1] = i}
  <2>1. ASSUME NEW p \in all PROVE p \in old
    <3>1. ASSUME NEW k \in 1 .. n, p = L + k PROVE FALSE
      <4>1. wire'[p][1] = Part
        <5>1. wire'[p] = <<Part, P + k>>
          BY <1>5, <3>1, Zenon
        <5> QED
          BY <5>1
      <4> QED
        BY <1>1, <4>1
    <3> QED
      BY <1>4, <1>6, <3>1
  <2>2. ASSUME NEW p \in old PROVE p \in all
    BY <1>4
  <2>3. old = all
    BY <2>1, <2>2
  <2> QED
    BY <1>3, <2>3 DEF PutOf
<1>11. From(Part) + P = L
  BY <1>1, EndOfLast
<1>12. PutV(Part) = P + n
  <2> DEFINE F == From(Part)
             all == {place \in 1 .. L + n : wire'[place][1] = Part}
  <2>1. {place \in 1 .. L : wire[place][1] = Part} = F + 1 .. F + P
    BY <1>1, OneStretch
  <2>2. ASSUME NEW p \in all PROVE p \in F + 1 .. L + n
    <3>1. CASE p \in 1 .. L
      <4>1. p \in F + 1 .. F + P
        BY <1>4, <2>1, <3>1
      <4> QED
        BY <1>1, <1>11, <4>1
    <3>2. ASSUME NEW k \in 1 .. n, p = L + k PROVE p \in F + 1 .. L + n
      <4> HIDE DEF L, P
      <4> QED
        BY <1>1, <1>11, <3>2
    <3> QED
      BY <1>6, <3>1, <3>2
  <2>3. ASSUME NEW p \in F + 1 .. L + n PROVE p \in all
    <3>1. p \in 1 .. L + n
      BY <1>1
    <3>2. CASE p \in 1 .. L
      <4>1. p \in F + 1 .. F + P
        BY <1>1, <1>11, <3>2
      <4>2. wire[p][1] = Part
        BY <2>1, <4>1
      <4> QED
        BY <1>4, <3>1, <3>2, <4>2
    <3>3. ASSUME NEW k \in 1 .. n, p = L + k PROVE wire'[p][1] = Part
      BY <1>5, <3>3
    <3> QED
      BY <1>6, <3>1, <3>2, <3>3
  <2>4. all = F + 1 .. L + n
    BY <2>2, <2>3
  <2>5. PutV(Part) = Cardinality(all)
    BY <1>3
  <2>6. Cardinality(F + 1 .. L + n) = IF F + 1 > L + n THEN 0 ELSE (L + n) - (F + 1) + 1
    <3>1. F + 1 \in Int /\ L + n \in Int
      BY <1>1
    <3> HIDE DEF F, L
    <3> QED
      BY <3>1, FS_Interval
  <2> HIDE DEF all, L, P, F
  <2>7. Cardinality(F + 1 .. L + n) = P + n
    BY <1>1, <1>11, <2>6 DEF F
  <2> QED
    BY <2>4, <2>5, <2>7
<1>13. \A i \in 1 .. Part : i # Part => i \in 1 .. Part - 1
  BY <1>1
<1>14. \A i \in 1 .. Part : PutOf(i) <= PutV(i)
  <2>1. P <= P + n
    <3> HIDE DEF P
    <3> QED
      BY <1>1
  <2> SUFFICES ASSUME NEW i \in 1 .. Part PROVE PutOf(i) <= PutV(i)
    OBVIOUS
  <2>2. CASE i = Part
    BY <1>12, <2>1, <2>2
  <2>3. CASE i # Part
    <3>1. PutV(i) = PutOf(i)
      BY <1>10, <1>13, <2>3
    <3> QED
      BY <1>1, <3>1
  <2> QED
    BY <2>2, <2>3
<1>15. ASSUME NEW p \in 1 .. L + n
       PROVE  /\ wire'[p][1] \in 1 .. Part
              /\ wire'[p][2] \in 1 .. PutV(wire'[p][1])
              /\ p = FromV(wire'[p][1]) + wire'[p][2]
  <2>1. CASE p \in 1 .. L
    <3> DEFINE i == wire[p][1]
               k == wire[p][2]
    <3>1. i \in 1 .. Part /\ k \in 1 .. PutOf(i) /\ p = From(i) + k
      BY <2>1 DEF Layout
    <3>2. wire'[p] = wire[p]
      BY <1>4, <2>1
    <3>3. FromV(i) = From(i) /\ PutOf(i) <= PutV(i) /\ PutOf(i) \in Nat /\ PutV(i) \in Nat
      <4>1. PutV(i) \in Nat
        <5>1. CASE i = Part
          BY <1>1, <1>12, <5>1
        <5>2. CASE i # Part
          BY <1>1, <1>10, <1>13, <3>1, <5>2
        <5> QED
          BY <5>1, <5>2
      <4> QED
        BY <1>1, <1>9, <1>14, <3>1, <4>1
    <3>4. k \in 1 .. PutV(i)
      <4> HIDE DEF i, k
      <4> QED
        BY <3>1, <3>3
    <3> QED
      BY <3>1, <3>2, <3>3, <3>4
  <2>2. ASSUME NEW k \in 1 .. n, p = L + k
        PROVE  /\ wire'[p][1] \in 1 .. Part
               /\ wire'[p][2] \in 1 .. PutV(wire'[p][1])
               /\ p = FromV(wire'[p][1]) + wire'[p][2]
    <3>1. wire'[p][1] = Part /\ wire'[p][2] = P + k
      BY <1>5, <2>2
    <3>2. FromV(Part) = From(Part)
      BY <1>1, <1>9
    <3>3. P + k \in 1 .. P + n /\ L + k = From(Part) + (P + k)
      <4> HIDE DEF L, P
      <4> QED
        BY <1>1, <1>11
    <3> QED
      BY <1>1, <1>12, <2>2, <3>1, <3>2, <3>3
  <2> QED
    BY <1>6, <2>1, <2>2
<1>16. ASSUME NEW i \in 1 .. Part, NEW k \in 1 .. PutV(i)
       PROVE  FromV(i) + k \in 1 .. L + n /\ wire'[FromV(i) + k] = <<i, k>>
  <2>1. FromV(i) = From(i)
    BY <1>9
  <2>2. CASE k \in 1 .. PutOf(i)
    <3>1. From(i) + k \in 1 .. L /\ wire[From(i) + k] = <<i, k>>
      BY <2>2 DEF Layout
    <3> QED
      BY <1>4, <2>1, <3>1
  <2>3. CASE k \notin 1 .. PutOf(i)
    <3>1. i = Part
      BY <1>10, <1>13, <2>3
    <3>2. k \in 1 .. P + n /\ k \notin 1 .. P
      BY <1>12, <2>3, <3>1
    <3>3. k - P \in 1 .. n /\ From(Part) + k = L + (k - P) /\ P + (k - P) = k
      <4> DEFINE f == From(Part)
      <4>1. f \in Nat /\ P \in Nat /\ L \in Nat /\ f + P = L /\ k \in 1 .. P + n /\ k \notin 1 .. P
        BY <1>1, <1>11, <3>2
      <4>2. k - P \in 1 .. n /\ f + k = L + (k - P) /\ P + (k - P) = k
        <5> HIDE DEF L, P, f
        <5> QED
          BY <4>1
      <4> QED
        BY <4>2
    <3>4. L + (k - P) \in 1 .. L + n /\ wire'[L + (k - P)] = <<Part, P + (k - P)>>
      BY <1>5, <3>3
    <3> QED
      BY <2>1, <3>1, <3>3, <3>4
  <2> QED
    BY <2>2, <2>3
<1>17. ASSUME NEW i \in 1 .. Part, NEW j \in 1 .. Part, i < j
       PROVE  FromV(i) + PutV(i) <= FromV(j)
  <2>1. i \in 1 .. Part - 1
    BY <1>1, <1>17
  <2>2. From(i) + PutOf(i) <= From(j)
    BY <1>17 DEF Layout
  <2> QED
    BY <1>9, <1>10, <2>1, <2>2
<1>18. Layout'
  <2>1. \A p \in 1 .. Len(wire') :
          /\ wire'[p][1] \in 1 .. Part
          /\ wire'[p][2] \in 1 .. PutV(wire'[p][1])
          /\ p = FromV(wire'[p][1]) + wire'[p][2]
    BY <1>3, <1>15
  <2>2. \A i \in 1 .. Part : \A k \in 1 .. PutV(i) :
          FromV(i) + k \in 1 .. Len(wire') /\ wire'[FromV(i) + k] = <<i, k>>
    BY <1>3, <1>16
  <2>3. \A i, j \in 1 .. Part : i < j => FromV(i) + PutV(i) <= FromV(j)
    BY <1>17
  <2> QED
    BY <1>3, <1>7, <2>1, <2>2, <2>3, Zenon DEF Layout, PutOf, From
<1>19. \A i : PutOf(i)' = PutV(i) /\ From(i)' = FromV(i)
  BY DEF PutOf, From
<1>20. PutOf(Part)' = PutV(Part)
  BY <1>7 DEF PutOf
<1> HIDE DEF PutV, FromV
<1> QED
  BY <1>3, <1>4, <1>5, <1>7, <1>9, <1>10, <1>12, <1>18, <1>19, <1>20

\* Bytes of the flow file being written, no more than it has.
LEMMA AcceptStep == WriterIInv /\ Accept => WriterIInv'
<1> SUFFICES ASSUME WriterIInv, Accept PROVE WriterIInv'
  OBVIOUS
<1> USE DEF WriterIInv
<1>1. PICK n \in 1 .. Header + supply - put :
        wire' = wire \o Bytes(Part, put, n) /\ put' = put + n
  BY DEF Accept
<1>2. /\ call = "writing"
      /\ UNCHANGED <<landed, closed, declared, call, supply, count, poisoned, finished, abandoned>>
  BY DEF Accept
<1>3. /\ Part > 0 /\ Part \notin abandoned /\ ~poisoned
      /\ PutOf(Part) = put /\ supply <= declared[Part]
  BY <1>2 DEF Written
<1>4. /\ Len(wire) \in Nat /\ Part \in Nat /\ Part \in 1 .. Part
      /\ \A i \in 1 .. Part : PutOf(i) \in Nat /\ declared[i] \in Nat
  <2>1. Part \in Nat
    BY Numbers
  <2>2. Part \in 1 .. Part
    BY <1>3, <2>1
  <2> QED
    BY <2>1, <2>2, Numbers
<1>5. n \in Nat /\ n > 0 /\ put + n <= Header + supply /\ put + n \in Nat
  BY <1>1, WireAssumption DEF WriterTypeOK
<1>6. /\ Len(wire') = Len(wire) + n /\ Part' = Part
      /\ \A place \in 1 .. Len(wire) : wire'[place] = wire[place]
      /\ \A k \in 1 .. n : wire'[Len(wire) + k] = <<Part, put + k>>
      /\ \A i \in 1 .. Part - 1 : PutOf(i)' = PutOf(i)
      /\ PutOf(Part)' = put + n
      /\ Layout'
  <2>1. Appends(n)
    BY <1>1, <1>2, <1>3 DEF Appends
  <2> QED
    BY <1>3, <1>5, <2>1, BytesAppended
<1>7. declared[Part] \in Nat /\ supply \in Nat /\ Header \in Nat
  BY <1>4, WireAssumption DEF WriterTypeOK
<1>8. put + n <= Header + declared[Part]
  BY <1>3, <1>5, <1>7
<1>9. ~Settled'
  BY <1>2 DEF Settled, Closed
<1>10. ASSUME NEW i \in 1 .. Part PROVE PutOf(i)' \in Nat /\ PutOf(i)' <= Header + declared[i]
  <2>1. CASE i = Part
    <3>1. PutOf(i)' = put + n
      BY <1>6, <2>1 DEF PutOf
    <3> QED
      BY <1>5, <1>8, <2>1, <3>1
  <2>2. CASE i # Part
    <3>1. i \in 1 .. Part - 1
      BY <1>4, <2>2
    <3>2. PutOf(i)' = PutOf(i)
      BY <1>6, <3>1
    <3> QED
      BY <1>4, <3>2 DEF Written
  <2> QED
    BY <2>1, <2>2
<1>11. WireTypeOK'
  <2>1. ASSUME NEW p \in 1 .. Len(wire')
        PROVE  wire'[p][1] \in 1 .. Part /\ wire'[p][2] \in 1 .. Header + declared[wire'[p][1]]
    <3>1. wire'[p][1] \in 1 .. Part /\ wire'[p][2] \in 1 .. Cardinality({q \in 1 .. Len(wire') : wire'[q][1] = wire'[p][1]})
      BY <1>6 DEF Layout, PutOf
    <3>2. PICK i \in 1 .. Part : i = wire'[p][1]
      BY <3>1
    <3>3. wire'[p][2] \in 1 .. PutOf(i)'
      BY <3>1, <3>2 DEF PutOf
    <3>4. PutOf(i)' \in Nat /\ PutOf(i)' <= Header + declared[i] /\ declared[i] \in Nat
      BY <1>4, <1>10
    <3>5. wire'[p][2] \in 1 .. Header + declared[i]
      BY <1>7, <3>3, <3>4
    <3> QED
      BY <3>2, <3>5
  <2>2. landed' \in 0 .. Len(wire') /\ closed' \in BOOLEAN
    BY <1>2, <1>4, <1>5, <1>6 DEF WireTypeOK
  <2>3. Len(declared) = Part
    BY DEF Part
  <2>4. declared' \in Seq(Sizes) /\ Len(declared') <= MaxParts
    BY <1>2 DEF WireTypeOK
  <2> QED
    BY <1>2, <2>1, <2>2, <2>3, <2>4 DEF WireTypeOK
<1>12. WriterTypeOK'
  <2>1. put' \in 0 .. Header + supply
    BY <1>1, <1>5, <1>7
  <2> QED
    BY <1>2, <1>6, <2>1 DEF WriterTypeOK
<1>13. Written'
  <2>1. ASSUME NEW i \in 1 .. Part, i \notin abandoned, i < Part
        PROVE  PutOf(i)' = Header + declared[i]
    <3>1. i \in 1 .. Part - 1
      BY <1>4, <2>1
    <3> QED
      BY <1>6, <2>1, <3>1 DEF Written
  <2>2. PutOf(Part)' = put' /\ supply <= declared[Part]
    BY <1>1, <1>3, <1>6
  <2> QED
    BY <1>2, <1>3, <1>6, <1>9, <1>10, <2>1, <2>2 DEF Written
<1>14. Counted'
  BY <1>2, <1>6, <1>9 DEF Counted
<1>15. Closed'
  BY <1>2 DEF Closed
<1> QED
  BY <1>6, <1>11, <1>12, <1>13, <1>14, <1>15

-----------------------------------------------------------------------------
\* Every step of a writer keeps the invariant.
LEMMA WriterInductive ==
  WriterIInv /\ (WriterNext \/ UNCHANGED <<wireVars, writerVars>>) => WriterIInv'
<1> SUFFICES ASSUME WriterIInv, WriterNext \/ UNCHANGED <<wireVars, writerVars>>
             PROVE  WriterIInv'
  OBVIOUS
<1>1. CASE Write
  BY <1>1, WriteStep
<1>2. CASE Accept
  BY <1>2, AcceptStep
<1>3. CASE WriteReturns \/ WriteFails \/ WriteCancelled \/ Land \/ FlushFails \/ Finish \/ LetGo
  <2>1. wire' = wire /\ declared' = declared
    BY <1>3 DEF WriteReturns, WriteFails, WriteCancelled, Land, FlushFails, Finish, LetGo, wireVars
  <2> QED
    BY <1>3, <2>1, QuietStep
<1>4. CASE UNCHANGED <<wireVars, writerVars>>
  <2>1. /\ UNCHANGED <<wire, landed, closed, declared>>
        /\ UNCHANGED <<call, supply, put, count, poisoned, finished, abandoned>>
    BY <1>4 DEF wireVars, writerVars
  <2>2. /\ \A i : PutOf(i)' = PutOf(i) /\ From(i)' = From(i)
        /\ Layout' /\ Part' = Part
    BY <2>1, SameWire DEF WriterIInv
  <2>3. WireTypeOK' /\ WriterTypeOK'
    BY <2>1, <2>2 DEF WriterIInv, WireTypeOK, WriterTypeOK
  <2>4. Settled' = Settled
    BY <2>1 DEF Settled
  <2>5. Written' /\ Counted' /\ Closed'
    BY <2>1, <2>2, <2>4 DEF WriterIInv, Written, Counted, Closed
  <2> QED
    BY <2>2, <2>3, <2>5 DEF WriterIInv
<1> QED
  BY <1>1, <1>2, <1>3, <1>4 DEF WriterNext

\* The same of the state a step leads to.
LEMMA SoundPlacesNext == (WriterIInv => SoundIsBeginning)'
<1>1. WriterIInv => SoundIsBeginning
  BY SoundPlaces DEF WriterIInv
<1> QED
  BY <1>1, PTL

\* The wire only grows: bytes and sizes stay what they are, what has landed
\* has landed, nothing lands behind the end, and nothing the reader may have
\* passed becomes sound that was not.
WireGrows ==
  /\ Len(wire) <= Len(wire') /\ \A p \in 1 .. Len(wire) : wire'[p] = wire[p]
  /\ Part <= Part' /\ \A i \in 1 .. Part : declared'[i] = declared[i]
  /\ landed <= landed' /\ (closed => closed' /\ landed' = landed)
  /\ \A n \in 0 .. Len(wire) : n <= Sound' => n <= Sound

\* The bytes of a flow file that was abandoned are not added to.
TornStays ==
  \A i \in abandoned : i \in abandoned' /\ PutOf(i)' = PutOf(i)

\* Bytes and sizes stay what they are, and what was abandoned is left alone.
LEMMA WriterAppends ==
  ASSUME WriterIInv, WriterNext \/ UNCHANGED <<wireVars, writerVars>>
  PROVE  /\ Len(wire) <= Len(wire') /\ \A p \in 1 .. Len(wire) : wire'[p] = wire[p]
         /\ Part <= Part' /\ \A i \in 1 .. Part : declared'[i] = declared[i]
         /\ landed <= landed' /\ (closed => closed' /\ landed' = landed)
         /\ TornStays
<1> USE DEF WriterIInv
<1>1. Len(wire) \in Nat /\ Part \in Nat /\ landed \in Nat
  BY Numbers DEF WireTypeOK
<1>2. CASE Write
  <2>1. PICK size \in Sizes : declared' = Append(declared, size)
    BY <1>2 DEF Write
  <2>2. UNCHANGED <<wire, landed, closed, abandoned>>
    BY <1>2 DEF Write
  <2>3. Part' = Part + 1 /\ \A i \in 1 .. Part : declared'[i] = declared[i]
    BY <2>1, AppendProperties DEF WireTypeOK, Part
  <2>4. TornStays
    BY <2>2 DEF PutOf, TornStays
  <2> QED
    BY <1>1, <2>2, <2>3, <2>4
<1>3. CASE Accept
  <2>1. PICK n \in 1 .. Header + supply - put : wire' = wire \o Bytes(Part, put, n)
    BY <1>3 DEF Accept
  <2>2. call = "writing" /\ UNCHANGED <<landed, closed, declared, abandoned>>
    BY <1>3 DEF Accept
  <2>3. Part > 0 /\ Part \notin abandoned /\ PutOf(Part) = put
    BY <2>2 DEF Written
  <2>4. n \in Nat /\ n > 0
    BY <2>1, WireAssumption DEF WriterTypeOK
  <2>5. Appends(n)
    BY <2>1, <2>2, <2>3 DEF Appends
  <2>6. /\ Len(wire') = Len(wire) + n /\ Part' = Part
        /\ \A p \in 1 .. Len(wire) : wire'[p] = wire[p]
        /\ \A i \in 1 .. Part - 1 : PutOf(i)' = PutOf(i)
    BY <2>3, <2>4, <2>5, BytesAppended
  <2>7. abandoned \subseteq 1 .. Part - 1
    BY <1>1, <2>3 DEF WriterTypeOK
  <2>8. TornStays
    BY <2>2, <2>6, <2>7 DEF TornStays
  <2>9. Len(wire) <= Len(wire')
    BY <1>1, <2>4, <2>6
  <2> QED
    BY <1>1, <2>2, <2>6, <2>8, <2>9
<1>4. CASE WriteReturns \/ WriteFails \/ WriteCancelled \/ Land \/ FlushFails \/ Finish \/ LetGo
  <2>1. wire' = wire /\ declared' = declared /\ abandoned \subseteq abandoned'
    BY <1>4 DEF WriteReturns, WriteFails, WriteCancelled, Land, FlushFails, Finish, LetGo, wireVars, writerVars
  <2>2. Part' = Part /\ TornStays
    BY <2>1 DEF Part, PutOf, TornStays
  <2>3. landed <= landed' /\ (closed => closed' /\ landed' = landed)
    <3>1. CASE WriteReturns \/ WriteFails \/ WriteCancelled \/ FlushFails \/ Finish
      BY <1>1, <3>1 DEF WriteReturns, WriteFails, WriteCancelled, FlushFails, Finish, wireVars
    <3>2. CASE Land
      BY <1>1, <3>2 DEF Land
    <3>3. CASE LetGo
      BY <1>1, <3>3 DEF LetGo, Closed
    <3> QED
      BY <1>4, <3>1, <3>2, <3>3
  <2> QED
    BY <1>1, <2>1, <2>2, <2>3
<1>5. CASE UNCHANGED <<wireVars, writerVars>>
  <2>1. UNCHANGED <<wire, landed, closed, declared, abandoned>>
    BY <1>5 DEF wireVars, writerVars
  <2>2. Part' = Part /\ TornStays
    BY <2>1 DEF Part, PutOf, TornStays
  <2> QED
    BY <1>1, <2>1, <2>2
<1> QED
  BY <1>2, <1>3, <1>4, <1>5 DEF WriterNext

\* For what is torn stays torn.
LEMMA WriterGrows ==
  WriterIInv /\ (WriterNext \/ UNCHANGED <<wireVars, writerVars>>) => WireGrows
<1> SUFFICES ASSUME WriterIInv, WriterNext \/ UNCHANGED <<wireVars, writerVars>>
             PROVE  WireGrows
  OBVIOUS
<1>1. /\ Len(wire) <= Len(wire') /\ \A p \in 1 .. Len(wire) : wire'[p] = wire[p]
      /\ Part <= Part' /\ \A i \in 1 .. Part : declared'[i] = declared[i]
      /\ landed <= landed' /\ (closed => closed' /\ landed' = landed)
      /\ TornStays
  BY WriterAppends
<1>2. WriterIInv'
  BY WriterInductive
<1>3. SoundIsBeginning /\ SoundIsBeginning'
  BY <1>2, SoundPlaces, SoundPlacesNext DEF WriterIInv
<1>4. Len(wire) \in Nat /\ Len(wire)' \in Nat
  BY <1>2, Numbers, LenProperties DEF WriterIInv, Layout
<1>5. ASSUME NEW i \in Torn PROVE i \in Torn'
  <2>1. i \in abandoned /\ PutOf(i) \in 1 .. Header + declared[i] - 1 /\ i \in 1 .. Part
    BY DEF Torn, WriterIInv, WriterTypeOK
  <2>2. i \in abandoned' /\ PutOf(i)' = PutOf(i) /\ declared'[i] = declared[i]
    BY <1>1, <2>1 DEF TornStays
  <2>3. PutOf(i)' \in 1 .. Header + declared'[i] - 1
    BY <2>1, <2>2
  <2> QED
    BY <2>2, <2>3, Zenon DEF Torn
<1>6. ASSUME NEW n \in 0 .. Len(wire), n <= Sound' PROVE n <= Sound
  <2>1. CASE n = 0
    BY <1>3, <1>4, <2>1 DEF SoundIsBeginning
  <2>2. CASE n # 0
    <3>1. n \in 1 .. Len(wire) /\ n \in 1 .. Len(wire')
      BY <1>1, <1>4, <2>2
    <3>2. \A i \in Torn' : wire'[n][1] <= i
      BY <1>3, <1>6, <3>1 DEF SoundIsBeginning
    <3>3. \A i \in Torn : wire[n][1] <= i
      BY <1>1, <1>5, <3>1, <3>2
    <3> QED
      BY <1>3, <3>1, <3>3 DEF SoundIsBeginning
  <2> QED
    BY <2>1, <2>2
<1> QED
  BY <1>1, <1>6 DEF WireGrows

-----------------------------------------------------------------------------
\* Between two calls the wire of a writer that is not poisoned holds whole
\* flow files, as far as it is sound.
LEMMA Whole == WriterIInv => WholeUnlessPoisoned
<1> SUFFICES ASSUME WriterIInv, call = "idle", ~poisoned
             PROVE  /\ count + Cardinality(abandoned) = Part
                    /\ \A i \in 1 .. Part : i \notin abandoned => PutOf(i) = Header + declared[i]
                    /\ Torn = {} /\ wire # <<>> => Ends(Len(wire))
                    /\ \A place \in 1 .. Sound :
                         LET first == place = 1 \/ Ends(place - 1)
                         IN  IF first THEN Starts(place) ELSE wire[place] = <<wire[place - 1][1], wire[place - 1][2] + 1>>
                    /\ \A place \in 2 .. Len(wire) : wire[place - 1][1] <= wire[place][1]
  BY DEF WholeUnlessPoisoned
<1> USE DEF WriterIInv
<1>1. Settled
  BY DEF Settled
<1>2. count + Cardinality(abandoned) = Part
  BY <1>1 DEF Counted
<1>3. \A i \in 1 .. Part : i \notin abandoned => PutOf(i) = Header + declared[i]
  BY <1>1 DEF Written
<1>4. /\ Len(wire) \in Nat /\ Part \in Nat /\ Header \in Nat /\ Sound \in 0 .. Len(wire)
      /\ \A i \in 1 .. Part : PutOf(i) \in Nat /\ declared[i] \in Nat
  BY Numbers, SoundPlaces, WireAssumption DEF SoundIsBeginning
<1>5. ASSUME Torn = {}, wire # <<>> PROVE Ends(Len(wire))
  <2> DEFINE i == wire[Len(wire)][1]
  <2>1. Len(wire) \in 1 .. Len(wire) /\ wire[Len(wire)][2] = PutOf(i)
    BY <1>5, LastByte
  <2>2. i \in 1 .. Part /\ PutOf(i) \in 1 .. PutOf(i)
    BY <2>1 DEF Layout
  <2>3. PutOf(i) = Header + declared[i]
    <3>1. CASE i \notin abandoned
      BY <1>3, <2>2, <3>1
    <3>2. CASE i \in abandoned
      <4>1. PutOf(i) \notin 1 .. Header + declared[i] - 1
        <5> HIDE DEF i
        <5> QED
          BY <1>5, <3>2, Zenon DEF Torn
      <4>2. PutOf(i) <= Header + declared[i]
        BY <2>2 DEF Written
      <4>3. PutOf(i) \in Nat /\ declared[i] \in Nat /\ Header \in Nat
        BY <1>4, <2>2
      <4> HIDE DEF i
      <4> QED
        BY <2>2, <4>1, <4>2, <4>3
    <3> QED
      BY <3>1, <3>2
  <2> QED
    BY <2>1, <2>3 DEF Ends
<1>6. ASSUME NEW place \in 1 .. Sound
      PROVE  IF place = 1 \/ Ends(place - 1)
             THEN Starts(place) ELSE wire[place] = <<wire[place - 1][1], wire[place - 1][2] + 1>>
  <2>1. CASE place = 1
    <3>1. place \in 1 .. Len(wire)
      BY <1>4
    <3> QED
      BY <2>1, <3>1, SoundStart
  <2>2. CASE place # 1
    <3> DEFINE p == place - 1
    <3>1. p \in 1 .. Len(wire) /\ p + 1 <= Sound /\ p + 1 = place
      BY <1>4, <2>2
    <3>2. IF Ends(p) THEN Starts(p + 1) ELSE wire[p + 1] = <<wire[p][1], wire[p][2] + 1>>
      <4> HIDE DEF p
      <4> QED
        BY <3>1, SoundShape
    <3> QED
      BY <2>2, <3>1, <3>2
  <2> QED
    BY <2>1, <2>2
<1>7. ASSUME NEW place \in 2 .. Len(wire) PROVE wire[place - 1][1] <= wire[place][1]
  <2>1. place - 1 \in 1 .. Len(wire) /\ place \in 1 .. Len(wire) /\ place - 1 <= place
    BY <1>4
  <2> QED
    BY <2>1, InOrder
<1> QED
  BY <1>2, <1>3, <1>5, <1>6, <1>7
=============================================================================
