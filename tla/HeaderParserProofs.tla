------------------------- MODULE HeaderParserProofs -------------------------
(***************************************************************************)
(* What holds of the header parser for every set of keys, lengths and      *)
(* limits, every reservation and every width of usize: its properties, and *)
(* that the two forms of a length are read as they were written.           *)
(*                                                                         *)
(* AgreesWithCheck and StopsAtTheContent are about sums over the entries   *)
(* of a map, which Limits::check and serialized_len add up one by one.     *)
(* Such a sum is the number of pairs of an entry and one of its bytes      *)
(* (Weight), of which it is shown here once that a map with one more entry *)
(* has as many more, one with an entry replaced no more than that, and     *)
(* that both folds come to it.                                             *)
(***************************************************************************)
EXTENDS HeaderParser, FiniteSetTheorems, WellFoundedInduction, TLAPS

\* Between two buffers there is none, and a buffer is of a field's length.
Buffered ==
  /\ phase \in {"magic", "count", "length", "size"} => length = 0 /\ done = 0 /\ capacity = 0
  /\ phase = "field" => length \in Lengths

\* A field that is being read fits in what is left of the total.
FitsTheTotal ==
  limits.total # NoLimit /\ limits.total < Top =>
    spent + (IF phase = "field" THEN length ELSE 0) <= limits.total

IInv == TypeOK /\ Buffered /\ BackedByBytes /\ FitsTheTotal

\* Whatever form a length was written in, read_field_len gets it back.
THEOREM LengthsRoundTrip ==
  ASSUME NEW n \in Nat
  PROVE  LenOf(Prefix(n)) = n /\ Taken(Prefix(n)) \in {2, 6}
BY HeaderParserAssumption DEF LenOf, Prefix, Taken

LEMMA InitEstablishes == Init => IInv
<1> SUFFICES ASSUME Init PROVE IInv
  OBVIOUS
<1>1. TypeOK
  BY HeaderParserAssumption DEF Init, TypeOK
<1>2. Buffered /\ BackedByBytes
  BY HeaderParserAssumption DEF Init, Buffered, BackedByBytes, Most
<1>3. FitsTheTotal
  BY HeaderParserAssumption DEF Init, FitsTheTotal
<1> QED
  BY <1>1, <1>2, <1>3 DEF IInv

LEMMA StepPreserves == IInv /\ [Next]_vars => IInv'
<1> SUFFICES ASSUME IInv, [Next]_vars PROVE IInv'
  OBVIOUS
<1> USE HeaderParserAssumption
<1>l. limits \in AnyLimits /\ limits.total \in Nat \cup {NoLimit}
  BY DEF IInv, TypeOK
<1>1. CASE ReadMagic
  BY <1>1 DEF IInv, TypeOK, Buffered, BackedByBytes, FitsTheTotal, ReadMagic, Magic
<1>2. CASE ReadCount
  <2>1. PICK n \in 0 .. MaxCount :
          count' = LenOf(Prefix(n)) /\ consumed' = consumed + Taken(Prefix(n))
    BY <1>2 DEF ReadCount
  <2>2. count' = n /\ consumed' \in Nat
    BY <2>1, LengthsRoundTrip DEF IInv, TypeOK
  <2>3. phase' \in {"refused", "length", "size"}
    BY <1>2 DEF ReadCount, After
  <2> QED
    BY <1>2, <2>2, <2>3 DEF IInv, TypeOK, Buffered, BackedByBytes, FitsTheTotal, ReadCount
<1>3. CASE ReadLength
  <2>1. PICK n \in Lengths :
          length' = LenOf(Prefix(n)) /\ consumed' = consumed + Taken(Prefix(n))
    BY <1>3 DEF ReadLength
  <2>2. length' = n /\ n \in 0 .. Top /\ consumed' \in Nat
    BY <2>1, LengthsRoundTrip DEF IInv, TypeOK
  <2>4. TypeOK'
    BY <1>3, <2>2 DEF ReadLength, IInv, TypeOK, Buffered
  <2>5. Buffered' /\ BackedByBytes'
    BY <1>3, <2>2 DEF ReadLength, IInv, Buffered, BackedByBytes, Most
  <2>6. FitsTheTotal'
    BY <1>l, <1>3, <2>2 DEF ReadLength, Refuses, Over, Plus, Least, IInv, TypeOK, FitsTheTotal
  <2> QED
    BY <2>4, <2>5, <2>6 DEF IInv
<1>4. CASE ReadBytes
  <2>1. PICK n \in 0 .. Step :
          /\ done' = done + n
          /\ consumed' = IF phase = "field" THEN consumed + n ELSE consumed
          /\ phase' = IF n = 0 THEN "malformed" ELSE phase
    BY <1>4 DEF ReadBytes
  <2>2. Step \in Nat /\ done + Step <= length /\ Step <= Most(done, ReserveAhead)
    BY <1>4 DEF ReadBytes, Step, Least, Most, IInv, TypeOK
  <2>3. TypeOK'
    BY <1>4, <2>1, <2>2 DEF ReadBytes, Most, IInv, TypeOK
  <2>4. Buffered'
    BY <1>4, <2>1 DEF ReadBytes, IInv, Buffered
  <2>5. BackedByBytes'
    BY <1>4, <2>1, <2>2 DEF ReadBytes, Step, Least, Most, IInv, TypeOK, BackedByBytes
  <2>6. FitsTheTotal'
    BY <1>l, <1>4, <2>1 DEF ReadBytes, IInv, TypeOK, FitsTheTotal
  <2> QED
    BY <2>3, <2>4, <2>5, <2>6 DEF IInv
<1>5. CASE AcceptKey
  <2>1. /\ phase = "field" /\ phase' \in {"length", "malformed"} /\ key' \in Keys \cup {NoKey}
        /\ spent' = Plus(spent, length) /\ done' = 0 /\ capacity' = 0 /\ length' = 0
        /\ UNCHANGED <<limits, foreign, count, inserted, attributes, size, consumed>>
    BY <1>5 DEF AcceptKey, Accept
  <2>2. TypeOK'
    BY <2>1 DEF Plus, Least, IInv, TypeOK
  <2>3. Buffered' /\ BackedByBytes'
    BY <2>1 DEF Buffered, BackedByBytes, Most
  <2>4. FitsTheTotal'
    BY <1>l, <2>1 DEF Plus, Least, IInv, TypeOK, FitsTheTotal
  <2> QED
    BY <2>2, <2>3, <2>4 DEF IInv
<1>10. CASE AcceptValue
  <2>1. /\ phase = "field" /\ phase' \in {"length", "size", "malformed"}
        /\ spent' = Plus(spent, length) /\ done' = 0 /\ capacity' = 0 /\ length' = 0
        /\ UNCHANGED <<limits, foreign, count, size, consumed>>
    BY <1>10 DEF AcceptValue, Accept, After
  <2>2. inserted' \in Nat /\ key' \in Keys \cup {NoKey} /\ key \in Keys
    BY <1>10 DEF AcceptValue, IInv, TypeOK
  <2>3. DOMAIN attributes' \subseteq Keys /\ attributes' \in [DOMAIN attributes' -> Lengths]
    <3>1. CASE attributes' = Insert(attributes, key, length)
      <4>1. length \in Lengths /\ DOMAIN attributes \subseteq Keys
            /\ \A x \in DOMAIN attributes : attributes[x] \in Lengths
        BY <2>1 DEF IInv, TypeOK, Buffered
      <4> QED
        BY <2>2, <3>1, <4>1 DEF Insert
    <3>2. CASE attributes' = attributes
      BY <3>2 DEF IInv, TypeOK
    <3> QED
      BY <1>10, <3>1, <3>2 DEF AcceptValue
  <2>4. TypeOK'
    BY <2>1, <2>2, <2>3 DEF Plus, Least, IInv, TypeOK
  <2>5. Buffered' /\ BackedByBytes'
    BY <2>1 DEF Buffered, BackedByBytes, Most
  <2>6. FitsTheTotal'
    BY <1>l, <2>1 DEF Plus, Least, IInv, TypeOK, FitsTheTotal
  <2> QED
    BY <2>4, <2>5, <2>6 DEF IInv
<1>6. CASE ReadSize
  BY <1>l, <1>6 DEF ReadSize, Most, IInv, TypeOK, Buffered, BackedByBytes, FitsTheTotal
<1>7. CASE AcceptContent
  BY <1>7 DEF AcceptContent, IInv, TypeOK, Buffered, BackedByBytes, FitsTheTotal
<1>8. CASE InputEnds
  BY <1>l, <1>8 DEF InputEnds, IInv, TypeOK, Buffered, BackedByBytes, FitsTheTotal
<1>9. CASE UNCHANGED vars
  BY <1>9 DEF vars, IInv, TypeOK, Buffered, BackedByBytes, FitsTheTotal
<1> QED
  BY <1>1, <1>2, <1>3, <1>4, <1>5, <1>6, <1>7, <1>8, <1>9, <1>10 DEF Next

\* The invariant that the three properties below rest on.
THEOREM Invariance == Spec => []IInv
<1>1. Init => IInv
  BY InitEstablishes
<1>2. IInv /\ [Next]_vars => IInv'
  BY StepPreserves
<1> QED
  BY <1>1, <1>2, PTL DEF Spec

\* The parser's variables keep to their types (parse_header).
THEOREM TypeCorrect == Spec => []TypeOK
<1>1. IInv => TypeOK
  BY DEF IInv
<1> QED
  BY <1>1, Invariance, PTL

\* What is reserved is backed by what arrived (read_declared), for fields and
\* contents of any length.
THEOREM ReservationsAreBacked == Spec => []BackedByBytes
<1>1. IInv => BackedByBytes
  BY DEF IInv
<1> QED
  BY <1>1, Invariance, PTL

\* No header makes the parser buffer more than the total allows (Budget),
\* on a machine where the sum of the lengths does not fit a usize either.
THEOREM TotalBoundsTheBuffers == Spec => []BuffersWithinTotal
<1>1. IInv => BuffersWithinTotal
  <2> SUFFICES ASSUME IInv, limits.total # NoLimit, limits.total < Top
               PROVE  spent + (IF phase = "field" THEN capacity ELSE 0) <= limits.total
    BY DEF BuffersWithinTotal
  <2>1. limits.total \in Nat
    BY HeaderParserAssumption DEF IInv, TypeOK
  <2>2. capacity <= length /\ capacity \in Nat /\ length \in Nat /\ spent \in Nat
    BY HeaderParserAssumption DEF IInv, BackedByBytes, TypeOK
  <2>3. spent + (IF phase = "field" THEN length ELSE 0) <= limits.total
    BY DEF IInv, FitsTheTotal
  <2> QED
    BY <2>1, <2>2, <2>3
<1> QED
  BY <1>1, Invariance, PTL

(***************************************************************************)
(* Sums over a map                                                         *)
(***************************************************************************)

\* What holds of 0, and of a number with the one before, holds of all.
LEMMA Climb ==
  ASSUME NEW n \in Nat, NEW T, 0 \in T, \A k \in 1 .. n : k - 1 \in T => k \in T
  PROVE  \A k \in 0 .. n : k \in T
<1> DEFINE Missing == {k \in 0 .. n : k \notin T}
<1> SUFFICES ASSUME Missing # {} PROVE FALSE
  OBVIOUS
<1>1. Missing \in SUBSET Nat
  OBVIOUS
<1>2. PICK x \in Missing : \A y \in Missing : ~ (<<y, x>> \in OpToRel(<, Nat))
  <2> HIDE DEF Missing
  <2> QED
    BY <1>1, WFMin, NatLessThanWellFounded, Zenon
<1>3. \A y \in Missing : ~ (y < x)
  BY <1>1, <1>2 DEF OpToRel
<1>4. x \in 1 .. n
  OBVIOUS
<1>5. x - 1 \in 0 .. n /\ x - 1 < x /\ x \notin T
  BY <1>4
<1> QED
  BY <1>3, <1>4, <1>5

\* The bytes of the entries under some keys, each with its place in its entry.
Bytes(w, keys)  == {b \in keys \X Nat : 1 <= b[2] /\ b[2] <= w[b[1]]}
Weight(w, keys) == Cardinality(Bytes(w, keys))

\* One entry has as many bytes as it weighs.
LEMMA WeightOfOne ==
  ASSUME NEW w, NEW k, w[k] \in Nat
  PROVE  IsFiniteSet(Bytes(w, {k})) /\ Weight(w, {k}) = w[k]
<1>1. Bytes(w, {k}) = {k} \X (1 .. w[k])
  BY DEF Bytes
<1>2. IsFiniteSet({k}) /\ Cardinality({k}) = 1
  BY FS_Singleton
<1>3. IsFiniteSet(1 .. w[k]) /\ Cardinality(1 .. w[k]) = w[k]
  <2> DEFINE n == w[k]
  <2> HIDE DEF n
  <2>1. n \in Nat
    BY DEF n
  <2>2. IsFiniteSet(1 .. n) /\ Cardinality(1 .. n) = IF 1 > n THEN 0 ELSE n - 1 + 1
    BY <2>1, FS_Interval
  <2>3. (IF 1 > n THEN 0 ELSE n - 1 + 1) = n
    BY <2>1
  <2> QED
    BY <2>2, <2>3 DEF n
<1>4. IsFiniteSet({k} \X (1 .. w[k])) /\ Cardinality({k} \X (1 .. w[k])) = 1 * w[k]
  BY <1>2, <1>3, FS_Product
<1>5. 1 * w[k] = w[k]
  OBVIOUS
<1> QED
  BY <1>1, <1>4, <1>5 DEF Weight

\* The entries together weigh a number.
LEMMA WeightIs ==
  ASSUME NEW keys, IsFiniteSet(keys), NEW w, NEW most \in Nat, \A k \in keys : w[k] \in 0 .. most
  PROVE  IsFiniteSet(Bytes(w, keys)) /\ Weight(w, keys) \in Nat
<1>1. Bytes(w, keys) \in SUBSET (keys \X (1 .. most))
  <2> SUFFICES ASSUME NEW b \in Bytes(w, keys) PROVE b \in keys \X (1 .. most)
    OBVIOUS
  <2>1. b \in keys \X Nat /\ 1 <= b[2] /\ b[2] <= w[b[1]]
    BY DEF Bytes
  <2>2. w[b[1]] \in 0 .. most
    BY <2>1
  <2>3. b[2] \in 1 .. most
    BY <2>1, <2>2
  <2> QED
    BY <2>1, <2>3
<1>2. IsFiniteSet(1 .. most)
  BY FS_Interval
<1>3. IsFiniteSet(keys \X (1 .. most))
  BY <1>2, FS_Product
<1>4. IsFiniteSet(Bytes(w, keys))
  BY <1>1, <1>3, FS_Subset
<1> QED
  BY <1>4, FS_CardinalityType DEF Weight

\* Nothing weighs nothing, and what weighs the same entry by entry does so
\* together.
LEMMA WeightOfSame ==
  ASSUME NEW keys, NEW v, NEW w
  PROVE  /\ Weight(w, {}) = 0
         /\ (\A k \in keys : v[k] = w[k]) => Weight(v, keys) = Weight(w, keys)
<1>1. Bytes(w, {}) = {}
  BY DEF Bytes
<1>2. ASSUME \A k \in keys : v[k] = w[k] PROVE Bytes(v, keys) = Bytes(w, keys)
  BY <1>2 DEF Bytes
<1> QED
  BY <1>1, <1>2, FS_EmptySet DEF Weight

\* Fewer entries weigh no more.
LEMMA WeightOfFewer ==
  ASSUME NEW keys, IsFiniteSet(keys), NEW w, NEW most \in Nat, \A k \in keys : w[k] \in 0 .. most,
         NEW some \in SUBSET keys
  PROVE  Weight(w, some) <= Weight(w, keys)
<1>1. IsFiniteSet(Bytes(w, keys))
  BY WeightIs
<1>2. Bytes(w, some) \in SUBSET Bytes(w, keys)
  BY DEF Bytes
<1> QED
  BY <1>1, <1>2, FS_Subset DEF Weight

\* One more entry adds its own weight.
LEMMA WeightOfOneMore ==
  ASSUME NEW keys, IsFiniteSet(keys), NEW k, k \notin keys,
         NEW w, NEW most \in Nat, \A x \in keys \cup {k} : w[x] \in 0 .. most
  PROVE  Weight(w, keys \cup {k}) = Weight(w, keys) + w[k]
<1>1. IsFiniteSet(Bytes(w, keys)) /\ Weight(w, keys) \in Nat
  BY WeightIs
<1>2. w[k] \in Nat
  OBVIOUS
<1>3. IsFiniteSet(Bytes(w, {k})) /\ Weight(w, {k}) = w[k]
  BY <1>2, WeightOfOne
<1>4. /\ Bytes(w, keys \cup {k}) = Bytes(w, keys) \cup Bytes(w, {k})
      /\ Bytes(w, keys) \cap Bytes(w, {k}) = {}
  BY DEF Bytes
<1>5. Cardinality({}) = 0
  BY FS_EmptySet
<1>6. Cardinality(Bytes(w, keys) \cup Bytes(w, {k}))
        = Cardinality(Bytes(w, keys)) + Cardinality(Bytes(w, {k})) - Cardinality(Bytes(w, keys) \cap Bytes(w, {k}))
  BY <1>1, <1>3, FS_Union
<1>7. Weight(w, keys \cup {k}) = Weight(w, keys) + Weight(w, {k}) - 0
  BY <1>4, <1>5, <1>6 DEF Weight
<1>8. Weight(w, keys) + Weight(w, {k}) - 0 = Weight(w, keys) + w[k]
  BY <1>1, <1>2, <1>3
<1> QED
  BY <1>7, <1>8

\* With an entry inserted, a map weighs as much more, or less if the entry
\* takes the place of another.
LEMMA WeightOfInserted ==
  ASSUME NEW keys, IsFiniteSet(keys), NEW k, NEW v, NEW w, NEW most \in Nat,
         \A x \in keys : v[x] \in 0 .. most, w[k] \in 0 .. most,
         \A x \in keys : x # k => w[x] = v[x]
  PROVE  /\ Weight(w, keys \cup {k}) <= Weight(v, keys) + w[k]
         /\ k \notin keys => Weight(w, keys \cup {k}) = Weight(v, keys) + w[k]
         /\ Weight(v, keys) \in Nat /\ Weight(w, keys \cup {k}) \in Nat
<1> DEFINE others == keys \ {k}
<1>1. IsFiniteSet(others) /\ others \in SUBSET keys /\ k \notin others /\ keys \cup {k} = others \cup {k}
  BY FS_Subset
<1>2. \A x \in others : w[x] = v[x] /\ w[x] \in 0 .. most
  OBVIOUS
<1> HIDE DEF others
<1>3. Weight(w, others \cup {k}) = Weight(w, others) + w[k]
  BY <1>1, <1>2, WeightOfOneMore
<1>4. Weight(w, others) = Weight(v, others)
  BY <1>2, WeightOfSame
<1>5. Weight(v, others) <= Weight(v, keys)
  BY <1>1, WeightOfFewer
<1>6. Weight(v, keys) \in Nat
  BY WeightIs
<1>7. Weight(w, others) \in Nat
  BY <1>1, <1>2, WeightIs
<1>8. k \notin keys => others = keys
  BY DEF others
<1> QED
  BY <1>1, <1>3, <1>4, <1>5, <1>6, <1>7, <1>8

\* What a fold over a set takes next.
Next1(S) == CHOOSE x \in S : TRUE

\* Two functions of the subsets of a finite set that begin with the same and
\* go on in the same way are the same in the end.
LEMMA FoldsMeet ==
  ASSUME NEW D, IsFiniteSet(D), NEW c, NEW g, c[{}] = g[{}],
         \A S \in SUBSET D : S # {} /\ c[S \ {Next1(S)}] = g[S \ {Next1(S)}] => c[S] = g[S]
  PROVE  c[D] = g[D]
<1> DEFINE T == {n \in 0 .. Cardinality(D) : \A S \in SUBSET D : Cardinality(S) = n => c[S] = g[S]}
<1>1. Cardinality(D) \in Nat /\ \A S \in SUBSET D : IsFiniteSet(S)
  BY FS_CardinalityType, FS_Subset
<1>2. 0 \in T
  <2>1. ASSUME NEW S \in SUBSET D, Cardinality(S) = 0 PROVE c[S] = g[S]
    <3>1. S = {}
      BY <1>1, <2>1, FS_EmptySet
    <3> QED
      BY <3>1
  <2>2. 0 \in 0 .. Cardinality(D)
    BY <1>1
  <2> QED
    BY <2>1, <2>2
<1>3. ASSUME NEW n \in 1 .. Cardinality(D), n - 1 \in T PROVE n \in T
  <2>1. ASSUME NEW S \in SUBSET D, Cardinality(S) = n PROVE c[S] = g[S]
    <3>1. S # {}
      BY <1>1, <2>1, FS_EmptySet
    <3>2. Next1(S) \in S
      BY <3>1 DEF Next1
    <3>3. Cardinality(S \ {Next1(S)}) = n - 1
      BY <1>1, <2>1, <3>2, FS_RemoveElement
    <3>4. c[S \ {Next1(S)}] = g[S \ {Next1(S)}]
      BY <1>3, <3>3
    <3> QED
      BY <3>1, <3>4
  <2> QED
    BY <1>1, <2>1
<1>4. Cardinality(D) \in T
  <2> HIDE DEF T
  <2>1. \A n \in 1 .. Cardinality(D) : n - 1 \in T => n \in T
    BY <1>3
  <2>2. \A n \in 0 .. Cardinality(D) : n \in T
    BY <1>1, <1>2, <2>1, Climb
  <2> QED
    BY <1>1, <2>2
<1> QED
  BY <1>4

\* A map from keys to values, as parse_header builds it.
AMap(map) == IsFiniteSet(DOMAIN map) /\ DOMAIN map \subseteq Keys /\ map \in [DOMAIN map -> Lengths]

\* What an entry counts for the total, and the bytes of a header it takes.
Counts(map) == [k \in DOMAIN map |-> KeyLen[k] + map[k]]
Takes(map)  ==
  [k \in DOMAIN map |-> FieldLenBytes(KeyLen[k]) + KeyLen[k] + FieldLenBytes(map[k]) + map[k]]

CountsOf(map) == Weight(Counts(map), DOMAIN map)
TakesOf(map)  == Weight(Takes(map), DOMAIN map)

Heaviest == 12 + 2 * Top

\* Both are numbers.
LEMMA EntriesWeigh ==
  ASSUME NEW map, AMap(map)
  PROVE  /\ Heaviest \in Nat
         /\ \A k \in DOMAIN map : /\ KeyLen[k] \in 0 .. Top /\ map[k] \in 0 .. Top
                                  /\ Counts(map)[k] = KeyLen[k] + map[k]
                                  /\ Counts(map)[k] \in 0 .. Heaviest
                                  /\ Takes(map)[k] = FieldLenBytes(KeyLen[k]) + KeyLen[k]
                                                       + FieldLenBytes(map[k]) + map[k]
                                  /\ Takes(map)[k] \in 0 .. Heaviest
         /\ CountsOf(map) \in Nat /\ TakesOf(map) \in Nat
<1>1. Top \in Nat /\ Heaviest \in Nat
  BY HeaderParserAssumption DEF Heaviest
<1>2. ASSUME NEW k \in DOMAIN map
      PROVE  /\ KeyLen[k] \in 0 .. Top /\ map[k] \in 0 .. Top
             /\ Counts(map)[k] = KeyLen[k] + map[k]
             /\ Counts(map)[k] \in 0 .. Heaviest
             /\ Takes(map)[k] = FieldLenBytes(KeyLen[k]) + KeyLen[k] + FieldLenBytes(map[k]) + map[k]
             /\ Takes(map)[k] \in 0 .. Heaviest
  <2>1. KeyLen[k] \in 0 .. Top /\ map[k] \in 0 .. Top
    <3>1. k \in Keys /\ map[k] \in Lengths
      BY DEF AMap
    <3> QED
      BY <3>1, HeaderParserAssumption
  <2>2. FieldLenBytes(KeyLen[k]) \in {2, 6} /\ FieldLenBytes(map[k]) \in {2, 6}
    BY DEF FieldLenBytes
  <2>3. /\ Counts(map)[k] = KeyLen[k] + map[k]
        /\ Takes(map)[k] = FieldLenBytes(KeyLen[k]) + KeyLen[k] + FieldLenBytes(map[k]) + map[k]
    BY DEF Counts, Takes
  <2>4. PICK a \in 0 .. Top, b \in 0 .. Top, x \in {2, 6}, y \in {2, 6} :
          a = KeyLen[k] /\ b = map[k] /\ x = FieldLenBytes(KeyLen[k]) /\ y = FieldLenBytes(map[k])
    BY <2>1, <2>2
  <2>5. a + b \in 0 .. 12 + 2 * Top /\ x + a + y + b \in 0 .. 12 + 2 * Top
    BY <1>1
  <2> QED
    BY <2>1, <2>3, <2>4, <2>5 DEF Heaviest
<1>3. /\ \A k \in DOMAIN map : Counts(map)[k] \in 0 .. Heaviest /\ Takes(map)[k] \in 0 .. Heaviest
      /\ IsFiniteSet(DOMAIN map)
  BY <1>2 DEF AMap
<1>4. CountsOf(map) \in Nat /\ TakesOf(map) \in Nat
  BY <1>1, <1>3, WeightIs DEF CountsOf, TakesOf
<1> QED
  BY <1>1, <1>2, <1>4

\* The total of a map, as Limits::check adds it up, is what its entries count,
\* as far as a usize goes.
IsTotal(folded, map) ==
  folded = [S \in SUBSET DOMAIN map |->
              IF S = {} THEN 0
              ELSE Plus(Plus(folded[S \ {Next1(S)}], KeyLen[Next1(S)]), map[Next1(S)])]

LEMMA TotalIs ==
  ASSUME NEW map, AMap(map)
  PROVE  TotalOf(map) = Least(CountsOf(map), Top)
<1> DEFINE D == DOMAIN map
           g == [S \in SUBSET D |-> Least(Weight(Counts(map), S), Top)]
<1>1. Top \in Nat /\ IsFiniteSet(D)
  BY HeaderParserAssumption DEF AMap
<1>2. /\ Heaviest \in Nat /\ \A k \in D : Counts(map)[k] \in 0 .. Heaviest
      /\ \A k \in D : KeyLen[k] \in Nat /\ map[k] \in Nat /\ Counts(map)[k] = KeyLen[k] + map[k]
  BY <1>1, EntriesWeigh
<1>3. g[{}] = 0
  <2>1. Weight(Counts(map), {}) = 0
    BY WeightOfSame
  <2> QED
    BY <1>1, <2>1 DEF Least
<1>4. ASSUME NEW S \in SUBSET D, S # {}
      PROVE  g[S] = Plus(Plus(g[S \ {Next1(S)}], KeyLen[Next1(S)]), map[Next1(S)])
  <2> DEFINE x == Next1(S)
             R == S \ {x}
  <2>1. x \in S /\ x \in D
    BY <1>4 DEF Next1
  <2>2. R \in SUBSET D /\ IsFiniteSet(R) /\ x \notin R /\ S = R \cup {x}
    BY <1>1, <2>1, FS_Subset
  <2> HIDE DEF x, R
  <2>3. \A k \in R \cup {x} : Counts(map)[k] \in 0 .. Heaviest
    BY <1>2, <2>1, <2>2
  <2>4. Weight(Counts(map), S) = Weight(Counts(map), R) + Counts(map)[x]
    BY <1>2, <2>2, <2>3, WeightOfOneMore
  <2>5. Weight(Counts(map), R) \in Nat
    BY <1>2, <2>2, <2>3, WeightIs
  <2>6. ASSUME NEW w \in Nat, NEW a \in Nat, NEW b \in Nat
        PROVE  Least(w + (a + b), Top) = Plus(Plus(Least(w, Top), a), b)
    BY <1>1 DEF Plus, Least
  <2>7. PICK w \in Nat, a \in Nat, b \in Nat :
          w = Weight(Counts(map), R) /\ a = KeyLen[x] /\ b = map[x]
    BY <1>2, <2>1, <2>5
  <2>8. Weight(Counts(map), S) = w + (a + b)
    BY <1>2, <2>1, <2>4, <2>7
  <2>9. Least(w + (a + b), Top) = Plus(Plus(Least(w, Top), a), b)
    BY <2>6
  <2>10. g[S] = Least(Weight(Counts(map), S), Top) /\ g[R] = Least(Weight(Counts(map), R), Top)
    BY <2>2
  <2>11. g[S] = Plus(Plus(g[R], KeyLen[x]), map[x])
    <3> HIDE DEF g
    <3> QED
      BY <2>7, <2>8, <2>9, <2>10
  <2> QED
    BY <2>11 DEF x, R
<1>5. IsTotal(g, map)
  <2>1. g = [S \in SUBSET D |-> g[S]]
    OBVIOUS
  <2> HIDE DEF g
  <2> QED
    BY <1>3, <1>4, <2>1 DEF IsTotal
<1> DEFINE c == CHOOSE folded : IsTotal(folded, map)
<1>6. IsTotal(c, map)
  BY <1>5
<1>7. TotalOf(map) = c[D]
  BY DEF TotalOf, FoldSet, MapThenFoldSet, IsTotal, Next1
<1> HIDE DEF c, g
<1>8. c[{}] = g[{}]
  BY <1>3, <1>6 DEF IsTotal
<1>9. \A S \in SUBSET D : S # {} /\ c[S \ {Next1(S)}] = g[S \ {Next1(S)}] => c[S] = g[S]
  BY <1>4, <1>6 DEF IsTotal
<1>10. c[D] = g[D]
  BY <1>1, <1>8, <1>9, FoldsMeet
<1> QED
  BY <1>7, <1>10 DEF g, CountsOf

\* The bytes of a header that the entries of a map take, as header_len adds
\* them up.
WrittenOf(map) ==
  FoldSet(LAMBDA k, sum : sum + (FieldLenBytes(KeyLen[k]) + KeyLen[k]) + (FieldLenBytes(map[k]) + map[k]),
          0, DOMAIN map)

IsWritten(folded, map) ==
  folded = [S \in SUBSET DOMAIN map |->
              IF S = {} THEN 0
              ELSE folded[S \ {Next1(S)}] + (FieldLenBytes(KeyLen[Next1(S)]) + KeyLen[Next1(S)])
                     + (FieldLenBytes(map[Next1(S)]) + map[Next1(S)])]

LEMMA WrittenIs ==
  ASSUME NEW map, AMap(map)
  PROVE  WrittenOf(map) = TakesOf(map)
<1> DEFINE D == DOMAIN map
           g == [S \in SUBSET D |-> Weight(Takes(map), S)]
<1>1. IsFiniteSet(D)
  BY DEF AMap
<1>2. /\ Heaviest \in Nat /\ \A k \in D : Takes(map)[k] \in 0 .. Heaviest
      /\ \A k \in D : /\ KeyLen[k] \in Nat /\ map[k] \in Nat
                      /\ Takes(map)[k] = FieldLenBytes(KeyLen[k]) + KeyLen[k] + FieldLenBytes(map[k]) + map[k]
  BY HeaderParserAssumption, EntriesWeigh
<1>3. g[{}] = 0
  BY WeightOfSame
<1>4. ASSUME NEW S \in SUBSET D, S # {}
      PROVE  g[S] = g[S \ {Next1(S)}] + (FieldLenBytes(KeyLen[Next1(S)]) + KeyLen[Next1(S)])
                      + (FieldLenBytes(map[Next1(S)]) + map[Next1(S)])
  <2> DEFINE x == Next1(S)
             R == S \ {x}
  <2>1. x \in S /\ x \in D
    BY <1>4 DEF Next1
  <2>2. R \in SUBSET D /\ IsFiniteSet(R) /\ x \notin R /\ S = R \cup {x}
    BY <1>1, <2>1, FS_Subset
  <2> HIDE DEF x, R
  <2>3. \A k \in R \cup {x} : Takes(map)[k] \in 0 .. Heaviest
    BY <1>2, <2>1, <2>2
  <2>4. Weight(Takes(map), S) = Weight(Takes(map), R) + Takes(map)[x]
    BY <1>2, <2>2, <2>3, WeightOfOneMore
  <2>5. Weight(Takes(map), R) \in Nat
    BY <1>2, <2>2, <2>3, WeightIs
  <2>6. FieldLenBytes(KeyLen[x]) \in Nat /\ FieldLenBytes(map[x]) \in Nat
    BY DEF FieldLenBytes
  <2>7. ASSUME NEW w \in Nat, NEW a \in Nat, NEW b \in Nat, NEW i \in Nat, NEW j \in Nat
        PROVE  w + (i + a + j + b) = w + (i + a) + (j + b)
    OBVIOUS
  <2>8. Weight(Takes(map), S)
          = Weight(Takes(map), R) + (FieldLenBytes(KeyLen[x]) + KeyLen[x]) + (FieldLenBytes(map[x]) + map[x])
    BY <1>2, <2>1, <2>4, <2>5, <2>6, <2>7
  <2> QED
    BY <2>2, <2>8 DEF x, R
<1>5. IsWritten(g, map)
  <2>1. g = [S \in SUBSET D |-> g[S]]
    OBVIOUS
  <2> HIDE DEF g
  <2> QED
    BY <1>3, <1>4, <2>1 DEF IsWritten
<1> DEFINE c == CHOOSE folded : IsWritten(folded, map)
<1>6. IsWritten(c, map)
  BY <1>5
<1>7. WrittenOf(map) = c[D]
  BY DEF WrittenOf, FoldSet, MapThenFoldSet, IsWritten, Next1
<1> HIDE DEF c, g
<1>8. c[{}] = g[{}]
  BY <1>3, <1>6 DEF IsWritten
<1>9. \A S \in SUBSET D : S # {} /\ c[S \ {Next1(S)}] = g[S \ {Next1(S)}] => c[S] = g[S]
  BY <1>4, <1>6 DEF IsWritten
<1>10. c[D] = g[D]
  BY <1>1, <1>8, <1>9, FoldsMeet
<1> QED
  BY <1>7, <1>10 DEF g, TakesOf

\* With an entry inserted, a map counts and takes as much more, or less if the
\* key was there.
LEMMA Inserted ==
  ASSUME NEW map, AMap(map), NEW k \in Keys, NEW n \in Lengths
  PROVE  /\ AMap(Insert(map, k, n))
         /\ CountsOf(Insert(map, k, n)) <= CountsOf(map) + (KeyLen[k] + n)
         /\ TakesOf(Insert(map, k, n))
              <= TakesOf(map) + (FieldLenBytes(KeyLen[k]) + KeyLen[k] + FieldLenBytes(n) + n)
         /\ k \notin DOMAIN map =>
              /\ CountsOf(Insert(map, k, n)) = CountsOf(map) + (KeyLen[k] + n)
              /\ TakesOf(Insert(map, k, n))
                   = TakesOf(map) + (FieldLenBytes(KeyLen[k]) + KeyLen[k] + FieldLenBytes(n) + n)
<1> DEFINE larger == Insert(map, k, n)
<1>1. /\ DOMAIN larger = DOMAIN map \cup {k} /\ larger[k] = n /\ k \in DOMAIN larger
      /\ \A x \in DOMAIN map : x # k => larger[x] = map[x]
  BY DEF Insert
<1>2. AMap(larger)
  <2>1. IsFiniteSet(DOMAIN map) /\ DOMAIN map \subseteq Keys /\ \A x \in DOMAIN map : map[x] \in Lengths
    BY DEF AMap
  <2>2. IsFiniteSet(DOMAIN larger)
    BY <1>1, <2>1, FS_AddElement
  <2>3. larger \in [DOMAIN larger -> Lengths]
    BY <2>1 DEF Insert
  <2> QED
    BY <1>1, <2>1, <2>2, <2>3 DEF AMap
<1> HIDE DEF larger
<1>3. /\ Heaviest \in Nat /\ IsFiniteSet(DOMAIN map)
      /\ \A x \in DOMAIN map : Counts(map)[x] \in 0 .. Heaviest /\ Takes(map)[x] \in 0 .. Heaviest
  BY EntriesWeigh DEF AMap
<1>4. /\ Counts(larger)[k] \in 0 .. Heaviest /\ Takes(larger)[k] \in 0 .. Heaviest
      /\ Counts(larger)[k] = KeyLen[k] + n
      /\ Takes(larger)[k] = FieldLenBytes(KeyLen[k]) + KeyLen[k] + FieldLenBytes(n) + n
  BY <1>1, <1>2, EntriesWeigh
<1>5. \A x \in DOMAIN map : x # k => Counts(larger)[x] = Counts(map)[x] /\ Takes(larger)[x] = Takes(map)[x]
  BY <1>1 DEF Counts, Takes
<1>6. /\ CountsOf(larger) <= CountsOf(map) + Counts(larger)[k]
      /\ k \notin DOMAIN map => CountsOf(larger) = CountsOf(map) + Counts(larger)[k]
  <2> DEFINE v == Counts(map)
             w == Counts(larger)
  <2>1. /\ \A x \in DOMAIN map : v[x] \in 0 .. Heaviest /\ (x # k => w[x] = v[x])
        /\ w[k] \in 0 .. Heaviest
    BY <1>3, <1>4, <1>5
  <2> DEFINE keys == DOMAIN map
  <2>2. /\ \A x \in keys : v[x] \in 0 .. Heaviest
        /\ \A x \in keys : x # k => w[x] = v[x]
        /\ IsFiniteSet(keys) /\ w[k] \in 0 .. Heaviest /\ Heaviest \in Nat
    BY <1>3, <2>1
  <2> HIDE DEF v, w, keys
  <2>3. /\ Weight(w, keys \cup {k}) <= Weight(v, keys) + w[k]
        /\ k \notin keys => Weight(w, keys \cup {k}) = Weight(v, keys) + w[k]
    BY <2>2, WeightOfInserted
  <2> QED
    BY <1>1, <2>3 DEF keys, CountsOf, v, w
<1>7. /\ TakesOf(larger) <= TakesOf(map) + Takes(larger)[k]
      /\ k \notin DOMAIN map => TakesOf(larger) = TakesOf(map) + Takes(larger)[k]
  <2> DEFINE v == Takes(map)
             w == Takes(larger)
  <2>1. /\ \A x \in DOMAIN map : v[x] \in 0 .. Heaviest /\ (x # k => w[x] = v[x])
        /\ w[k] \in 0 .. Heaviest
    BY <1>3, <1>4, <1>5
  <2> DEFINE keys == DOMAIN map
  <2>2. /\ \A x \in keys : v[x] \in 0 .. Heaviest
        /\ \A x \in keys : x # k => w[x] = v[x]
        /\ IsFiniteSet(keys) /\ w[k] \in 0 .. Heaviest /\ Heaviest \in Nat
    BY <1>3, <2>1
  <2> HIDE DEF v, w, keys
  <2>3. /\ Weight(w, keys \cup {k}) <= Weight(v, keys) + w[k]
        /\ k \notin keys => Weight(w, keys \cup {k}) = Weight(v, keys) + w[k]
    BY <2>2, WeightOfInserted
  <2> QED
    BY <1>1, <2>3 DEF keys, TakesOf, v, w
<1> QED
  BY <1>1, <1>2, <1>4, <1>6, <1>7 DEF larger

\* A map with more entries than another counts at least one of them more.
LEMMA Extended ==
  ASSUME NEW map, AMap(map), NEW larger, AMap(larger), NEW k \in DOMAIN larger, k \notin DOMAIN map,
         \A x \in DOMAIN map : x \in DOMAIN larger /\ larger[x] = map[x]
  PROVE  CountsOf(map) + (KeyLen[k] + larger[k]) <= CountsOf(larger)
<1> DEFINE keys == DOMAIN map
           all  == DOMAIN larger
           v    == Counts(map)
           w    == Counts(larger)
<1>1. /\ Heaviest \in Nat /\ IsFiniteSet(keys) /\ IsFiniteSet(all)
      /\ \A x \in all : w[x] \in 0 .. Heaviest
      /\ w[k] = KeyLen[k] + larger[k]
  BY EntriesWeigh DEF AMap
<1>2. keys \cup {k} \in SUBSET all /\ k \notin keys
  OBVIOUS
<1>3. \A x \in keys : v[x] = w[x]
  BY DEF Counts
<1>4. CountsOf(map) = Weight(v, keys) /\ CountsOf(larger) = Weight(w, all)
  BY DEF CountsOf
<1> HIDE DEF keys, all, v, w
<1>5. \A x \in keys \cup {k} : w[x] \in 0 .. Heaviest
  BY <1>1, <1>2
<1>6. Weight(w, keys \cup {k}) = Weight(w, keys) + w[k]
  BY <1>1, <1>2, <1>5, WeightOfOneMore
<1>7. Weight(v, keys) = Weight(w, keys)
  BY <1>3, WeightOfSame
<1>8. Weight(w, keys \cup {k}) <= Weight(w, all)
  BY <1>1, <1>2, WeightOfFewer
<1> QED
  BY <1>1, <1>4, <1>6, <1>7, <1>8

(***************************************************************************)
(* What is behind the parser, and how far it is                            *)
(***************************************************************************)

\* The attributes that were read are in the map, but for those replaced.
MapIs ==
  /\ Cardinality(DOMAIN attributes) <= inserted
  /\ phase \in {"magic", "count"} =>
       DOMAIN attributes = {} /\ inserted = 0 /\ key = NoKey /\ spent = 0
  /\ phase \in {"length", "field"} => inserted < count
  /\ phase \in {"size", "content", "done"} => inserted = count /\ key = NoKey

Parsing == {"length", "field", "size", "content", "done"}

\* The key that waits for its value.
PendingCounts == IF key = NoKey THEN 0 ELSE KeyLen[key]
PendingTakes  == IF key = NoKey THEN 0 ELSE FieldLenBytes(KeyLen[key]) + KeyLen[key]

\* The budget is spent on what is in the map, on what it has lost to a later
\* value, and on nothing else.
SpentIs ==
  LET total == Least(CountsOf(attributes) + PendingCounts, Top)
  IN  phase \in Parsing => total <= spent /\ (NoKeyTwice => spent = total)

\* What the parser is past has kept to the limits, and it stops where
\* something has not.
NothingOver ==
  /\ phase \in Parsing =>
       /\ ~Over(count, limits.attributes)
       /\ \A k \in DOMAIN attributes :
            ~Over(KeyLen[k], limits.field) /\ ~Over(attributes[k], limits.field)
       /\ key # NoKey => ~Over(KeyLen[key], limits.field)
       /\ ~Over(spent, limits.total)
  /\ phase = "field" => ~Over(length, limits.field) /\ ~Over(Plus(spent, length), limits.total)
  /\ phase \in {"content", "done"} => ~Over(size, limits.content)
  /\ phase = "refused" => \A map \in Announced : ~Checks(map, size)

\* A header with long forms, or with attributes that were replaced, is no
\* shorter than one without.
AsFar(bytes) == bytes <= consumed /\ (~foreign /\ NoKeyTwice => consumed = bytes)

WhereItIs ==
  LET soFar == Magic + FieldLenBytes(count) + TakesOf(attributes) + PendingTakes
  IN  /\ phase = "count" => consumed = Magic
      /\ phase \in {"length", "size"} => AsFar(soFar)
      /\ phase = "field" => AsFar(soFar + FieldLenBytes(length) + done)
      /\ phase \in {"content", "done"} => AsFar(soFar + 8)

Accounted == MapIs /\ SpentIs /\ NothingOver /\ WhereItIs

\* Before a byte is read there is nothing to account for.
LEMMA AccountedAtFirst == Init => Accounted
<1> SUFFICES ASSUME Init PROVE Accounted
  OBVIOUS
<1>1. phase = "magic" /\ DOMAIN attributes = {} /\ inserted = 0 /\ key = NoKey /\ spent = 0
  BY DEF Init
<1>2. Cardinality(DOMAIN attributes) = 0
  BY <1>1, FS_EmptySet
<1> QED
  BY <1>1, <1>2 DEF Accounted, MapIs, SpentIs, NothingOver, WhereItIs, Parsing

\* What the parser has built is a map.
LEMMA BuildsAMap ==
  ASSUME TypeOK
  PROVE  /\ AMap(attributes) /\ CountsOf(attributes) \in Nat /\ TakesOf(attributes) \in Nat
         /\ Cardinality(DOMAIN attributes) \in Nat
         /\ Top \in Nat /\ PendingCounts \in Nat /\ PendingTakes \in Nat
<1>1. IsFiniteSet(DOMAIN attributes)
  BY HeaderParserAssumption, FS_Subset DEF TypeOK
<1>2. AMap(attributes)
  BY <1>1 DEF AMap, TypeOK
<1>3. Cardinality(DOMAIN attributes) \in Nat
  BY <1>1, FS_CardinalityType
<1>4. PendingCounts \in Nat /\ PendingTakes \in Nat /\ Top \in Nat
  BY HeaderParserAssumption DEF TypeOK, PendingCounts, PendingTakes, FieldLenBytes
<1> QED
  BY <1>2, <1>3, <1>4, EntriesWeigh

\* A key that is accepted waits for its value.
LEMMA KeyAccepted ==
  ASSUME IInv, AcceptKey
  PROVE  /\ phase = "field" /\ key = NoKey /\ done = length /\ spent' = Plus(spent, length)
         /\ UNCHANGED <<limits, foreign, count, inserted, attributes, size, consumed>>
         /\ \/ phase' = "malformed"
            \/ /\ phase' = "length" /\ key' \in Keys /\ key' # NoKey /\ KeyLen[key'] = length
               /\ PendingCounts = 0 /\ PendingCounts' = length
               /\ PendingTakes = 0 /\ PendingTakes' = FieldLenBytes(length) + length
<1>1. /\ phase = "field" /\ key = NoKey /\ done = length /\ spent' = Plus(spent, length)
      /\ UNCHANGED <<limits, foreign, count, inserted, attributes, size, consumed>>
  BY DEF AcceptKey, Accept
<1>2. CASE key' \in {k \in Keys : KeyLen[k] = length} /\ phase' = "length"
  BY <1>1, <1>2, HeaderParserAssumption DEF PendingCounts, PendingTakes
<1>3. CASE phase' = "malformed"
  BY <1>1, <1>3
<1> QED
  BY <1>1, <1>2, <1>3 DEF AcceptKey

\* A value that is accepted is in the map.  No key is named twice now only if
\* none was before, and this one is new.
LEMMA ValueAccepted ==
  ASSUME IInv, MapIs, AcceptValue
  PROVE  /\ phase = "field" /\ key \in Keys /\ key # NoKey /\ done = length /\ length \in Lengths
         /\ spent' = Plus(spent, length)
         /\ UNCHANGED <<limits, foreign, count, size, consumed>>
         /\ \/ /\ phase' = "malformed" /\ UNCHANGED <<inserted, attributes>>
            \/ /\ phase' = After(inserted', count) /\ key' = NoKey /\ inserted' = inserted + 1
               /\ attributes' = Insert(attributes, key, length)
               /\ DOMAIN attributes' = DOMAIN attributes \cup {key}
               /\ Cardinality(DOMAIN attributes') <= inserted'
               /\ NoKeyTwice' => NoKeyTwice /\ key \notin DOMAIN attributes
<1>1. /\ phase = "field" /\ key \in Keys /\ key # NoKey /\ done = length /\ length \in Lengths
      /\ spent' = Plus(spent, length)
      /\ UNCHANGED <<limits, foreign, count, size, consumed>>
  BY DEF AcceptValue, Accept, IInv, TypeOK, Buffered
<1>2. CASE phase' = "malformed" /\ UNCHANGED <<inserted, key, attributes>>
  BY <1>1, <1>2
<1>3. CASE /\ attributes' = Insert(attributes, key, length)
           /\ key' = NoKey /\ inserted' = inserted + 1 /\ phase' = After(inserted', count)
  <2> DEFINE keys == DOMAIN attributes
  <2>1. DOMAIN attributes' = keys \cup {key}
    BY <1>3 DEF Insert
  <2>2. IsFiniteSet(keys) /\ Cardinality(keys) \in Nat /\ Cardinality(keys) <= inserted /\ inserted \in Nat
    BY BuildsAMap DEF IInv, TypeOK, AMap, MapIs
  <2>3. NoKeyTwice' <=> Cardinality(keys \cup {key}) = inserted + 1
    BY <1>3, <2>1 DEF NoKeyTwice
  <2>4. NoKeyTwice <=> Cardinality(keys) = inserted
    BY DEF NoKeyTwice
  <2> HIDE DEF keys
  <2>5. CASE key \in keys
    <3>1. Cardinality(keys \cup {key}) = Cardinality(keys)
      <4>1. keys \cup {key} = keys
        BY <2>5
      <4> QED
        BY <4>1
    <3>2. Cardinality(keys \cup {key}) <= inserted + 1 /\ Cardinality(keys \cup {key}) # inserted + 1
      BY <2>2, <3>1
    <3> QED
      BY <1>1, <1>3, <2>1, <2>3, <3>2 DEF keys
  <2>6. CASE key \notin keys
    <3>1. Cardinality(keys \cup {key}) = Cardinality(keys) + 1
      BY <2>2, <2>6, FS_AddElement
    <3>2. /\ Cardinality(keys \cup {key}) <= inserted + 1
          /\ Cardinality(keys \cup {key}) = inserted + 1 => Cardinality(keys) = inserted
      BY <2>2, <3>1
    <3> QED
      BY <1>1, <1>3, <2>1, <2>3, <2>4, <2>6, <3>2 DEF keys
  <2> QED
    BY <2>5, <2>6
<1> QED
  BY <1>2, <1>3 DEF AcceptValue

\* The map gets an entry with each value, and not before.
LEMMA MapStays ==
  ASSUME IInv, MapIs, [Next]_vars
  PROVE  MapIs'
<1>t. inserted \in Nat /\ count \in Nat
  BY DEF IInv, TypeOK
<1>1. CASE ReadMagic
  BY <1>1 DEF ReadMagic, MapIs
<1>2. CASE ReadCount
  <2>1. PICK n \in 0 .. MaxCount : count' = LenOf(Prefix(n))
    BY <1>2 DEF ReadCount
  <2>2. count' \in Nat
    BY <2>1, LengthsRoundTrip
  <2>3. /\ phase = "count" /\ phase' \in {"refused", "length", "size"}
        /\ (phase' = "length" => 0 < count') /\ (phase' = "size" => ~ (0 < count'))
        /\ UNCHANGED <<attributes, inserted, key, spent>>
    BY <1>2 DEF ReadCount, After
  <2> QED
    BY <2>2, <2>3 DEF MapIs
<1>3. CASE ReadLength
  BY <1>3 DEF ReadLength, MapIs
<1>4. CASE ReadBytes
  BY <1>4 DEF ReadBytes, MapIs
<1>5. CASE AcceptKey
  BY <1>5, KeyAccepted DEF MapIs
<1>6. CASE AcceptValue
  <2>1. CASE phase' = "malformed" /\ UNCHANGED <<inserted, attributes>>
    BY <2>1 DEF MapIs
  <2>2. CASE /\ phase' = After(inserted', count) /\ key' = NoKey /\ inserted' = inserted + 1
             /\ Cardinality(DOMAIN attributes') <= inserted'
    <3>1. phase = "field" /\ count' = count /\ inserted < count
      BY <1>6, ValueAccepted DEF MapIs
    <3>2. PICK i \in Nat : inserted' = i /\ i = inserted + 1 /\ i <= count
      BY <1>t, <2>2, <3>1
    <3>3. /\ phase' \in {"length", "size"} /\ (phase' = "length" => i < count)
          /\ (phase' = "size" => i = count)
      BY <1>t, <2>2, <3>2 DEF After
    <3> QED
      BY <2>2, <3>1, <3>2, <3>3 DEF MapIs
  <2> QED
    BY <1>6, <2>1, <2>2, ValueAccepted
<1>7. CASE ReadSize
  BY <1>7 DEF ReadSize, MapIs
<1>8. CASE AcceptContent
  BY <1>8 DEF AcceptContent, MapIs
<1>9. CASE InputEnds
  BY <1>9 DEF InputEnds, MapIs
<1>10. CASE UNCHANGED vars
  BY <1>10 DEF vars, MapIs
<1> QED
  BY <1>1, <1>2, <1>3, <1>4, <1>5, <1>6, <1>7, <1>8, <1>9, <1>10 DEF Next

\* A length that is read is one of a field, whatever its form.
LEMMA LengthRead ==
  ASSUME IInv, ReadLength
  PROVE  /\ phase = "length" /\ length' \in Lengths /\ length' \in Nat
         /\ phase' = IF Refuses(length') THEN "refused" ELSE "field"
         /\ UNCHANGED <<limits, foreign, count, inserted, key, attributes, done, spent, size>>
         /\ consumed + FieldLenBytes(length') <= consumed'
         /\ ~foreign => consumed' = consumed + FieldLenBytes(length')
<1>1. PICK n \in Lengths : length' = LenOf(Prefix(n)) /\ consumed' = consumed + Taken(Prefix(n))
  BY DEF ReadLength
<1>2. n \in Nat
  BY HeaderParserAssumption
<1>3. length' = n
  BY <1>1, <1>2, LengthsRoundTrip
<1>4. FieldLenBytes(n) <= Taken(Prefix(n)) /\ (~foreign => Taken(Prefix(n)) = FieldLenBytes(n))
  BY <1>2, HeaderParserAssumption DEF FieldLenBytes, Taken, Prefix
<1>5. Taken(Prefix(n)) \in Nat /\ FieldLenBytes(n) \in Nat /\ consumed \in Nat
  BY <1>2, LengthsRoundTrip DEF FieldLenBytes, IInv, TypeOK
<1> QED
  BY <1>1, <1>2, <1>3, <1>4, <1>5 DEF ReadLength

\* Only an accepted field is spent, and it is the one that was checked.
LEMMA SpentStays ==
  ASSUME IInv, MapIs, SpentIs, [Next]_vars
  PROVE  SpentIs'
<1>t. /\ CountsOf(attributes) \in Nat /\ PendingCounts \in Nat /\ Top \in Nat
      /\ spent \in 0 .. Top /\ length \in Nat
  BY BuildsAMap DEF IInv, TypeOK
<1>1. CASE ReadMagic
  BY <1>1 DEF ReadMagic, SpentIs, Parsing
<1>2. CASE ReadCount
  <2>1. phase = "count" /\ UNCHANGED <<attributes, inserted, key, spent>>
    BY <1>2 DEF ReadCount
  <2>2. spent = 0 /\ DOMAIN attributes = {} /\ key = NoKey
    BY <2>1 DEF MapIs
  <2>3. CountsOf(attributes) = 0
    BY <2>2, WeightOfSame DEF CountsOf
  <2>4. CountsOf(attributes)' = 0 /\ PendingCounts' = 0 /\ spent' = 0
    BY <2>1, <2>2, <2>3 DEF PendingCounts
  <2>5. Least(0 + 0, Top) = 0
    BY <1>t DEF Least
  <2> QED
    BY <2>4, <2>5 DEF SpentIs
<1>3. CASE ReadLength
  BY <1>3, LengthRead DEF SpentIs, Parsing, PendingCounts, NoKeyTwice
<1>4. CASE ReadBytes
  BY <1>4 DEF ReadBytes, SpentIs, Parsing, PendingCounts, NoKeyTwice
<1>5. CASE AcceptKey
  <2>1. CASE phase' = "malformed"
    BY <2>1 DEF SpentIs, Parsing
  <2>2. CASE phase' = "length" /\ PendingCounts = 0 /\ PendingCounts' = length
    <3>1. /\ phase = "field" /\ spent' = Plus(spent, length)
          /\ UNCHANGED <<attributes, inserted>>
      BY <1>5, KeyAccepted
    <3>2. PICK c \in Nat : c = CountsOf(attributes)
      BY <1>t
    <3>3. Least(c + 0, Top) <= spent /\ (NoKeyTwice => spent = Least(c + 0, Top))
      BY <2>2, <3>1, <3>2 DEF SpentIs, Parsing
    <3>4. Least(c + length, Top) <= Plus(spent, length)
      BY <1>t, <3>3 DEF Least, Plus
    <3>5. NoKeyTwice => Plus(spent, length) = Least(c + length, Top)
      BY <1>t, <3>3 DEF Least, Plus
    <3>6. (NoKeyTwice' <=> NoKeyTwice) /\ CountsOf(attributes)' = c
      BY <3>1, <3>2 DEF NoKeyTwice
    <3> QED
      BY <2>2, <3>1, <3>4, <3>5, <3>6 DEF SpentIs
  <2> QED
    BY <1>5, <2>1, <2>2, KeyAccepted
<1>6. CASE AcceptValue
  <2>1. CASE phase' = "malformed"
    BY <2>1 DEF SpentIs, Parsing
  <2>2. CASE /\ key' = NoKey /\ attributes' = Insert(attributes, key, length)
             /\ NoKeyTwice' => NoKeyTwice /\ key \notin DOMAIN attributes
    <3>1. /\ phase = "field" /\ key \in Keys /\ key # NoKey /\ length \in Lengths
          /\ spent' = Plus(spent, length)
      BY <1>6, ValueAccepted
    <3>2. /\ CountsOf(Insert(attributes, key, length)) <= CountsOf(attributes) + (KeyLen[key] + length)
          /\ key \notin DOMAIN attributes =>
               CountsOf(Insert(attributes, key, length)) = CountsOf(attributes) + (KeyLen[key] + length)
          /\ CountsOf(Insert(attributes, key, length)) \in Nat
      <4>1. AMap(attributes)
        BY BuildsAMap DEF IInv
      <4>2. /\ AMap(Insert(attributes, key, length))
            /\ CountsOf(Insert(attributes, key, length)) <= CountsOf(attributes) + (KeyLen[key] + length)
            /\ key \notin DOMAIN attributes =>
                 CountsOf(Insert(attributes, key, length)) = CountsOf(attributes) + (KeyLen[key] + length)
        BY <3>1, <4>1, Inserted, Zenon
      <4>3. CountsOf(Insert(attributes, key, length)) \in Nat
        BY <4>2, EntriesWeigh
      <4> QED
        BY <4>2, <4>3
    <3>3. PICK c \in Nat, k \in Nat, d \in Nat :
            c = CountsOf(attributes) /\ k = KeyLen[key] /\ d = CountsOf(Insert(attributes, key, length))
      BY <1>t, <3>1, <3>2 DEF PendingCounts
    <3>4. d <= c + (k + length) /\ (key \notin DOMAIN attributes => d = c + (k + length))
      BY <3>2, <3>3
    <3>5. Least(c + k, Top) <= spent /\ (NoKeyTwice => spent = Least(c + k, Top))
      BY <3>1, <3>3 DEF SpentIs, Parsing, PendingCounts
    <3>6. Least(d + 0, Top) <= Plus(spent, length)
      BY <1>t, <3>4, <3>5 DEF Least, Plus
    <3>7. NoKeyTwice /\ key \notin DOMAIN attributes => Plus(spent, length) = Least(d + 0, Top)
      BY <1>t, <3>4, <3>5 DEF Least, Plus
    <3>8. CountsOf(attributes)' = d /\ PendingCounts' = 0
      BY <2>2, <3>3 DEF PendingCounts
    <3> QED
      BY <2>2, <3>1, <3>6, <3>7, <3>8 DEF SpentIs
  <2> QED
    BY <1>6, <2>1, <2>2, ValueAccepted
<1>7. CASE ReadSize
  BY <1>7 DEF ReadSize, SpentIs, Parsing, PendingCounts, NoKeyTwice
<1>8. CASE AcceptContent
  BY <1>8 DEF AcceptContent, SpentIs, Parsing, PendingCounts, NoKeyTwice
<1>9. CASE InputEnds
  BY <1>9 DEF InputEnds, SpentIs, Parsing
<1>10. CASE UNCHANGED vars
  BY <1>10 DEF vars, SpentIs, PendingCounts, NoKeyTwice
<1> QED
  BY <1>1, <1>2, <1>3, <1>4, <1>5, <1>6, <1>7, <1>8, <1>9, <1>10 DEF Next

\* What Limits::check would say of a map with a field that is refused.
LEMMA RefusedMeans ==
  ASSUME IInv, MapIs, SpentIs, NothingOver, ReadLength, Refuses(length'), NEW map \in Announced'
  PROVE  ~Checks(map, size)
<1>1. /\ phase = "length" /\ length' \in Nat
      /\ UNCHANGED <<limits, foreign, count, inserted, key, attributes, spent, size>>
  BY LengthRead
<1>2. PICK keys \in kSubset(count, Keys) : map \in [keys -> Lengths]
  BY <1>1 DEF Announced
<1>3. AMap(map)
  <2>1. keys \in SUBSET Keys
    BY <1>2 DEF kSubset
  <2>2. IsFiniteSet(keys)
    BY <2>1, HeaderParserAssumption, FS_Subset
  <2> QED
    BY <1>2, <2>1, <2>2 DEF AMap
<1>4. ~Over(count, limits.attributes) /\ inserted < count
  BY <1>1 DEF MapIs, NothingOver, Parsing
<1>5. /\ NoKeyTwice
      /\ \A x \in DOMAIN attributes : x \in DOMAIN map /\ map[x] = attributes[x]
      /\ \E k \in DOMAIN map \ DOMAIN attributes :
           IF key = NoKey THEN KeyLen[k] = length' ELSE k = key /\ map[k] = length'
  BY <1>1, <1>4 DEF Announced, NoKeyTwice
<1>6. PICK k \in DOMAIN map : /\ k \notin DOMAIN attributes
                              /\ IF key = NoKey THEN KeyLen[k] = length' ELSE k = key /\ map[k] = length'
  BY <1>5
<1>7. CASE Over(length', limits.field)
  <2>1. Over(KeyLen[k], limits.field) \/ Over(map[k], limits.field)
    BY <1>6, <1>7
  <2> QED
    BY <2>1 DEF Checks
<1>8. CASE Over(Plus(spent, length'), limits.total)
  <2>1. /\ AMap(attributes) /\ CountsOf(attributes) \in Nat /\ PendingCounts \in Nat /\ Top \in Nat
    BY BuildsAMap DEF IInv
  <2>2. CountsOf(attributes) + (KeyLen[k] + map[k]) <= CountsOf(map) /\ CountsOf(map) \in Nat
    BY <1>3, <1>5, <1>6, <2>1, Extended, EntriesWeigh
  <2>3. KeyLen[k] \in Nat /\ map[k] \in Nat
    BY <1>3, HeaderParserAssumption DEF AMap
  <2>4. PendingCounts + length' <= KeyLen[k] + map[k]
    BY <1>1, <1>6, <2>3 DEF PendingCounts
  <2>5. spent = Least(CountsOf(attributes) + PendingCounts, Top)
    BY <1>1, <1>5 DEF SpentIs, Parsing
  <2>e. KeyLen[k] + map[k] \in Nat
    BY <2>3
  <2>6. PICK c \in Nat, p \in Nat, n \in Nat, e \in Nat, m \in Nat :
          /\ c = CountsOf(attributes) /\ p = PendingCounts /\ n = length'
          /\ e = KeyLen[k] + map[k] /\ m = CountsOf(map)
    BY <1>1, <2>1, <2>2, <2>e
  <2>7. c + e <= m /\ p + n <= e /\ spent = Least(c + p, Top)
    BY <2>2, <2>4, <2>5, <2>6
  <2>8. Plus(spent, n) <= Least(m, Top) /\ Plus(spent, n) \in Nat /\ Least(m, Top) \in Nat
    BY <2>1, <2>7 DEF Plus, Least
  <2>9. limits.total \in Nat /\ Plus(spent, n) > limits.total
    BY <1>8, <2>6, HeaderParserAssumption DEF Over, IInv, TypeOK
  <2>10. Least(m, Top) > limits.total
    BY <2>8, <2>9
  <2>11. Over(TotalOf(map), limits.total)
    BY <1>3, <1>8, <2>6, <2>10, TotalIs DEF Over
  <2> QED
    BY <2>11 DEF Checks
<1> QED
  BY <1>7, <1>8 DEF Refuses

\* Every check comes before what it guards, and the first that fails is the end.
LEMMA NothingGetsOver ==
  ASSUME IInv, MapIs, SpentIs, NothingOver, [Next]_vars
  PROVE  NothingOver'
<1>1. CASE ReadMagic
  BY <1>1 DEF ReadMagic, NothingOver, Parsing
<1>2. CASE ReadCount
  <2>1. /\ phase = "count" /\ UNCHANGED <<limits, attributes, inserted, key, spent, size>>
        /\ phase' = IF Over(count', limits.attributes) THEN "refused" ELSE After(0, count')
    BY <1>2 DEF ReadCount
  <2>2. DOMAIN attributes = {} /\ key = NoKey /\ spent = 0
    BY <2>1 DEF MapIs
  <2>3. CASE Over(count', limits.attributes)
    <3>1. ASSUME NEW map \in Announced' PROVE ~Checks(map, size)'
      <4>1. PICK keys \in kSubset(count', Keys) : map \in [keys -> Lengths]
        BY DEF Announced
      <4>2. Cardinality(DOMAIN map) = count'
        BY <4>1 DEF kSubset
      <4> QED
        BY <2>1, <2>3, <4>2 DEF Checks
    <3> QED
      BY <2>1, <2>3, <3>1 DEF NothingOver, Parsing
  <2>4. CASE ~Over(count', limits.attributes)
    <3>1. phase' \in {"length", "size"}
      BY <2>1, <2>4 DEF After
    <3>2. ~Over(0, limits.total)
      BY HeaderParserAssumption DEF Over, IInv, TypeOK
    <3> QED
      BY <2>1, <2>2, <2>4, <3>1, <3>2 DEF NothingOver, Parsing
  <2> QED
    BY <2>3, <2>4
<1>3. CASE ReadLength
  <2>1. /\ phase = "length"
        /\ phase' = IF Refuses(length') THEN "refused" ELSE "field"
        /\ UNCHANGED <<limits, foreign, count, inserted, key, attributes, spent, size>>
    BY <1>3, LengthRead
  <2>2. CASE Refuses(length')
    <3>1. \A map \in Announced' : ~Checks(map, size)
      BY <1>3, <2>2, RefusedMeans
    <3>2. \A map \in Announced' : ~Checks(map, size)'
      BY <2>1, <3>1 DEF Checks
    <3> QED
      BY <2>1, <2>2, <3>2 DEF NothingOver, Parsing
  <2>3. CASE ~Refuses(length')
    BY <2>1, <2>3 DEF NothingOver, Parsing, Refuses
  <2> QED
    BY <2>2, <2>3
<1>4. CASE ReadBytes
  BY <1>4 DEF ReadBytes, NothingOver, Parsing
<1>5. CASE AcceptKey
  <2>1. CASE phase' = "malformed"
    BY <2>1 DEF NothingOver, Parsing
  <2>2. CASE phase' = "length" /\ KeyLen[key'] = length
    <3>1. /\ phase = "field" /\ spent' = Plus(spent, length)
          /\ UNCHANGED <<limits, count, attributes>>
      BY <1>5, KeyAccepted
    <3> QED
      BY <2>2, <3>1 DEF NothingOver, Parsing
  <2> QED
    BY <1>5, <2>1, <2>2, KeyAccepted
<1>6. CASE AcceptValue
  <2>1. CASE phase' = "malformed"
    BY <2>1 DEF NothingOver, Parsing
  <2>2. CASE /\ phase' = After(inserted', count) /\ key' = NoKey
             /\ attributes' = Insert(attributes, key, length)
    <3>1. /\ phase = "field" /\ key # NoKey /\ spent' = Plus(spent, length)
          /\ UNCHANGED <<limits, count>>
      BY <1>6, ValueAccepted
    <3>2. phase' \in {"length", "size"}
      BY <2>2 DEF After
    <3>3. \A k \in DOMAIN attributes' :
            ~Over(KeyLen[k], limits.field) /\ ~Over(attributes'[k], limits.field)
      BY <2>2, <3>1 DEF Insert, NothingOver, Parsing
    <3> QED
      BY <2>2, <3>1, <3>2, <3>3 DEF NothingOver, Parsing
  <2> QED
    BY <1>6, <2>1, <2>2, ValueAccepted
<1>7. CASE ReadSize
  <2>1. /\ phase = "size" /\ UNCHANGED <<limits, count, attributes, key, spent>>
        /\ phase' = IF Over(size', limits.content) THEN "refused" ELSE "content"
    BY <1>7 DEF ReadSize
  <2>2. Over(size', limits.content) => \A map \in Announced' : ~Checks(map, size)'
    BY <2>1 DEF Checks
  <2> QED
    BY <2>1, <2>2 DEF NothingOver, Parsing
<1>8. CASE AcceptContent
  BY <1>8 DEF AcceptContent, NothingOver, Parsing
<1>9. CASE InputEnds
  BY <1>9 DEF InputEnds, NothingOver, Parsing
<1>10. CASE UNCHANGED vars
  <2>1. Announced' = Announced
    BY <1>10 DEF vars, Announced, NoKeyTwice
  <2>2. \A map \in Announced : Checks(map, size)' <=> Checks(map, size)
    BY <1>10 DEF vars, Checks
  <2> QED
    BY <1>10, <2>1, <2>2 DEF vars, NothingOver
<1> QED
  BY <1>1, <1>2, <1>3, <1>4, <1>5, <1>6, <1>7, <1>8, <1>9, <1>10 DEF Next

\* With every byte the reader is further, by what the header has there.
LEMMA StaysWhereItIs ==
  ASSUME IInv, MapIs, WhereItIs, [Next]_vars
  PROVE  WhereItIs'
<1>t. /\ consumed \in Nat /\ length \in Nat /\ done \in Nat /\ Magic \in Nat /\ TakesOf(attributes) \in Nat
      /\ PendingTakes \in Nat /\ FieldLenBytes(count) \in Nat /\ FieldLenBytes(length) \in Nat
  BY BuildsAMap DEF IInv, TypeOK, Magic, FieldLenBytes
<1> DEFINE soFar == Magic + FieldLenBytes(count) + TakesOf(attributes) + PendingTakes
<1>s. PICK h \in Nat : h = soFar
  BY <1>t
<1> HIDE DEF soFar
<1>w. /\ phase \in {"length", "size"} => AsFar(h)
      /\ phase = "field" => AsFar(h + FieldLenBytes(length) + done)
      /\ phase \in {"content", "done"} => AsFar(h + 8)
  BY <1>s DEF WhereItIs, soFar
<1>1. CASE ReadMagic
  BY <1>1 DEF ReadMagic, WhereItIs
<1>2. CASE ReadCount
  <2>1. PICK n \in 0 .. MaxCount :
          count' = LenOf(Prefix(n)) /\ consumed' = consumed + Taken(Prefix(n))
    BY <1>2 DEF ReadCount
  <2>2. /\ phase = "count" /\ phase' \in {"refused", "length", "size"}
        /\ UNCHANGED <<foreign, inserted, key, attributes>>
    BY <1>2 DEF ReadCount, After
  <2>3. n \in Nat
    BY HeaderParserAssumption
  <2>4. count' = n
    BY <2>1, <2>3, LengthsRoundTrip
  <2>5. /\ FieldLenBytes(n) <= Taken(Prefix(n)) /\ (~foreign => Taken(Prefix(n)) = FieldLenBytes(n))
        /\ Taken(Prefix(n)) \in Nat /\ FieldLenBytes(n) \in Nat
    BY <2>3, LengthsRoundTrip, HeaderParserAssumption DEF FieldLenBytes, Taken, Prefix
  <2>6. consumed = Magic /\ TakesOf(attributes) = 0 /\ PendingTakes = 0
    BY <2>2, WeightOfSame DEF WhereItIs, MapIs, TakesOf, PendingTakes
  <2>7. TakesOf(attributes)' = 0 /\ PendingTakes' = 0
    BY <2>2, <2>6 DEF PendingTakes
  <2>8. /\ Magic + FieldLenBytes(n) + 0 + 0 <= consumed'
        /\ ~foreign => consumed' = Magic + FieldLenBytes(n) + 0 + 0
    BY <1>t, <2>1, <2>5, <2>6
  <2> QED
    BY <2>2, <2>4, <2>7, <2>8 DEF WhereItIs, AsFar
<1>3. CASE ReadLength
  <2>1. /\ phase = "length" /\ phase' \in {"field", "refused"} /\ length' \in Nat
        /\ UNCHANGED <<foreign, count, inserted, key, attributes, done>>
        /\ consumed + FieldLenBytes(length') <= consumed'
        /\ ~foreign => consumed' = consumed + FieldLenBytes(length')
    BY <1>3, LengthRead
  <2>2. done = 0
    BY <2>1 DEF IInv, Buffered
  <2>3. PICK f \in Nat, c \in Nat : f = FieldLenBytes(length') /\ c = consumed'
    BY <1>3, <2>1 DEF FieldLenBytes, ReadLength, IInv, TypeOK, LenOf, Taken, Prefix
  <2>4. h + f + 0 <= c /\ (~foreign /\ NoKeyTwice => c = h + f + 0)
    BY <1>t, <1>w, <2>1, <2>3 DEF AsFar
  <2>5. soFar' = h
    BY <1>s, <2>1 DEF soFar, PendingTakes
  <2>6. NoKeyTwice' <=> NoKeyTwice
    BY <2>1 DEF NoKeyTwice
  <2> QED
    BY <2>1, <2>2, <2>3, <2>4, <2>5, <2>6 DEF WhereItIs, AsFar, soFar
<1>4. CASE ReadBytes
  <2>1. PICK n \in 0 .. Step :
          /\ done' = done + n
          /\ consumed' = IF phase = "field" THEN consumed + n ELSE consumed
          /\ phase' = IF n = 0 THEN "malformed" ELSE phase
    BY <1>4 DEF ReadBytes
  <2>2. n \in Nat
    BY <1>t
  <2>3. phase \in {"field", "content"} /\ UNCHANGED <<foreign, count, inserted, key, attributes, length>>
    BY <1>4 DEF ReadBytes
  <2>4. soFar' = h /\ (NoKeyTwice' <=> NoKeyTwice) /\ FieldLenBytes(length') = FieldLenBytes(length)
    BY <1>s, <2>3 DEF soFar, PendingTakes, NoKeyTwice
  <2>5. CASE phase = "field" /\ phase' = "field"
    <3>1. consumed' = consumed + n
      BY <2>1, <2>5
    <3>2. /\ h + FieldLenBytes(length) + (done + n) <= consumed + n
          /\ ~foreign /\ NoKeyTwice => consumed + n = h + FieldLenBytes(length) + (done + n)
      BY <1>t, <1>w, <2>2, <2>5 DEF AsFar
    <3> QED
      BY <2>1, <2>3, <2>4, <2>5, <3>1, <3>2 DEF WhereItIs, AsFar, soFar
  <2>6. CASE phase = "content" /\ phase' = "content"
    BY <1>w, <2>1, <2>3, <2>4, <2>6 DEF WhereItIs, AsFar, soFar
  <2>7. CASE phase' = "malformed"
    BY <2>7 DEF WhereItIs
  <2> QED
    BY <2>1, <2>3, <2>5, <2>6, <2>7
<1>5. CASE AcceptKey
  <2>1. CASE phase' = "malformed"
    BY <2>1 DEF WhereItIs
  <2>2. CASE phase' = "length" /\ PendingTakes = 0 /\ PendingTakes' = FieldLenBytes(length) + length
    <3>1. phase = "field" /\ done = length /\ UNCHANGED <<foreign, count, inserted, attributes, consumed>>
      BY <1>5, KeyAccepted
    <3>2. PICK b \in Nat : b = Magic + FieldLenBytes(count) + TakesOf(attributes)
      BY <1>t
    <3>3. h = b
      BY <1>s, <1>t, <2>2, <3>2 DEF soFar
    <3>4. Magic + FieldLenBytes(count') + TakesOf(attributes)' + PendingTakes' = b + (FieldLenBytes(length) + length)
      BY <2>2, <3>1, <3>2
    <3>5. /\ b + (FieldLenBytes(length) + length) <= consumed
          /\ ~foreign /\ NoKeyTwice => consumed = b + (FieldLenBytes(length) + length)
      BY <1>t, <1>w, <3>1, <3>3 DEF AsFar
    <3>6. NoKeyTwice' <=> NoKeyTwice
      BY <3>1 DEF NoKeyTwice
    <3> QED
      BY <2>2, <3>1, <3>4, <3>5, <3>6 DEF WhereItIs, AsFar
  <2> QED
    BY <1>5, <2>1, <2>2, KeyAccepted
<1>6. CASE AcceptValue
  <2>1. CASE phase' = "malformed"
    BY <2>1 DEF WhereItIs
  <2>2. CASE /\ phase' = After(inserted', count) /\ key' = NoKey
             /\ attributes' = Insert(attributes, key, length)
             /\ NoKeyTwice' => NoKeyTwice /\ key \notin DOMAIN attributes
    <3>1. /\ phase = "field" /\ key \in Keys /\ key # NoKey /\ done = length /\ length \in Lengths
          /\ UNCHANGED <<foreign, count, consumed>>
      BY <1>6, ValueAccepted
    <3>2. AMap(attributes)
      BY BuildsAMap DEF IInv
    <3>3. /\ AMap(Insert(attributes, key, length))
          /\ TakesOf(Insert(attributes, key, length))
               <= TakesOf(attributes)
                    + (FieldLenBytes(KeyLen[key]) + KeyLen[key] + FieldLenBytes(length) + length)
          /\ key \notin DOMAIN attributes =>
               TakesOf(Insert(attributes, key, length))
                 = TakesOf(attributes)
                     + (FieldLenBytes(KeyLen[key]) + KeyLen[key] + FieldLenBytes(length) + length)
      BY <3>1, <3>2, Inserted, Zenon
    <3>4. TakesOf(Insert(attributes, key, length)) \in Nat
      BY <3>3, EntriesWeigh
    <3>5. PendingTakes = FieldLenBytes(KeyLen[key]) + KeyLen[key]
      BY <3>1 DEF PendingTakes
    <3>6. KeyLen[key] \in Nat /\ FieldLenBytes(KeyLen[key]) \in Nat
      <4>1. KeyLen[key] \in Lengths
        BY <3>1, HeaderParserAssumption
      <4>2. FieldLenBytes(KeyLen[key]) \in {2, 6}
        BY DEF FieldLenBytes
      <4>3. KeyLen[key] \in Nat
        <5>1. \A n \in Lengths : n \in Nat
          BY HeaderParserAssumption
        <5> QED
          BY <4>1, <5>1, Zenon
      <4>4. \A f \in {2, 6} : f \in Nat
        OBVIOUS
      <4> QED
        BY <4>2, <4>3, <4>4, Zenon
    <3>7. PICK b \in Nat, t \in Nat, d \in Nat, x \in Nat, f \in Nat, i \in Nat :
            /\ b = Magic + FieldLenBytes(count) /\ t = TakesOf(attributes)
            /\ d = TakesOf(Insert(attributes, key, length))
            /\ x = KeyLen[key] /\ i = FieldLenBytes(KeyLen[key]) /\ f = FieldLenBytes(length)
      <4>1. Magic + FieldLenBytes(count) \in Nat
        BY <1>t
      <4> QED
        BY <1>t, <3>4, <3>6, <4>1
    <3>8. h = b + t + (i + x)
      BY <1>s, <3>5, <3>7 DEF soFar
    <3>9. d <= t + (i + x + f + length) /\ (key \notin DOMAIN attributes => d = t + (i + x + f + length))
      BY <3>3, <3>7
    <3>10. h + f + length <= consumed /\ (~foreign /\ NoKeyTwice => consumed = h + f + length)
      BY <1>w, <3>1, <3>7 DEF AsFar
    <3>11. /\ b + d + 0 <= consumed
           /\ ~foreign /\ NoKeyTwice /\ key \notin DOMAIN attributes => consumed = b + d + 0
      BY <1>t, <3>8, <3>9, <3>10
    <3>12. Magic + FieldLenBytes(count') + TakesOf(attributes)' + PendingTakes' = b + d + 0
      BY <2>2, <3>1, <3>7 DEF PendingTakes
    <3>13. phase' \in {"length", "size"}
      BY <2>2 DEF After
    <3> QED
      BY <2>2, <3>1, <3>11, <3>12, <3>13 DEF WhereItIs, AsFar
  <2> QED
    BY <1>6, <2>1, <2>2, ValueAccepted
<1>7. CASE ReadSize
  <2>1. /\ phase = "size" /\ phase' \in {"refused", "content"} /\ consumed' = consumed + 8
        /\ UNCHANGED <<foreign, count, inserted, key, attributes>>
    BY <1>7 DEF ReadSize
  <2>2. soFar' = h /\ (NoKeyTwice' <=> NoKeyTwice)
    BY <1>s, <2>1 DEF soFar, PendingTakes, NoKeyTwice
  <2>3. h + 8 <= consumed + 8 /\ (~foreign /\ NoKeyTwice => consumed + 8 = h + 8)
    BY <1>t, <1>w, <2>1 DEF AsFar
  <2> QED
    BY <2>1, <2>2, <2>3 DEF WhereItIs, AsFar, soFar
<1>8. CASE AcceptContent
  <2>1. /\ phase = "content" /\ phase' = "done"
        /\ UNCHANGED <<foreign, count, inserted, key, attributes, consumed>>
    BY <1>8 DEF AcceptContent
  <2>2. soFar' = h /\ (NoKeyTwice' <=> NoKeyTwice)
    BY <1>s, <2>1 DEF soFar, PendingTakes, NoKeyTwice
  <2> QED
    BY <1>w, <2>1, <2>2 DEF WhereItIs, AsFar, soFar
<1>9. CASE InputEnds
  BY <1>9 DEF InputEnds, WhereItIs
<1>10. CASE UNCHANGED vars
  BY <1>10 DEF vars, WhereItIs, AsFar, PendingTakes, NoKeyTwice
<1> QED
  BY <1>1, <1>2, <1>3, <1>4, <1>5, <1>6, <1>7, <1>8, <1>9, <1>10 DEF Next

\* What the parser is past is accounted for in every state.
LEMMA AccountedAlways == Spec => [](IInv /\ Accounted)
<1>1. Init => IInv /\ Accounted
  BY InitEstablishes, AccountedAtFirst
<1>2. IInv /\ Accounted /\ [Next]_vars => (IInv /\ Accounted)'
  <2> SUFFICES ASSUME IInv, MapIs, SpentIs, NothingOver, WhereItIs, [Next]_vars
               PROVE  IInv' /\ MapIs' /\ SpentIs' /\ NothingOver' /\ WhereItIs'
    BY DEF Accounted
  <2> QED
    BY StepPreserves, MapStays, SpentStays, NothingGetsOver, StaysWhereItIs
<1> QED
  BY <1>1, <1>2, PTL DEF Spec

\* What the parser (parse_header, Budget) lets through, Limits::check passes,
\* with repeated keys as well, whatever the map holds.  What it refuses, check
\* refuses under the same limits whatever the rest of the header would have
\* been, unless a key was named twice.
THEOREM ParserAgreesWithCheck == Spec => []AgreesWithCheck
<1>1. IInv /\ Accounted => AgreesWithCheck
  <2> SUFFICES ASSUME IInv, MapIs, SpentIs, NothingOver PROVE AgreesWithCheck
    BY DEF Accounted
  <2>1. ASSUME phase \in {"content", "done"} PROVE Checks(attributes, size)
    <3>1. /\ AMap(attributes) /\ CountsOf(attributes) \in Nat /\ Top \in Nat
          /\ Cardinality(DOMAIN attributes) \in Nat
      BY BuildsAMap DEF IInv
    <3>2. Cardinality(DOMAIN attributes) <= count /\ count \in Nat
      BY <2>1 DEF MapIs, IInv, TypeOK
    <3>3. ~Over(Cardinality(DOMAIN attributes), limits.attributes)
      <4>1. ~Over(count, limits.attributes) /\ limits.attributes \in Nat \cup {NoLimit}
        BY <2>1, HeaderParserAssumption DEF NothingOver, Parsing, IInv, TypeOK
      <4> QED
        BY <3>1, <3>2, <4>1 DEF Over
    <3>4. PendingCounts = 0
      BY <2>1 DEF MapIs, PendingCounts
    <3>5. Least(CountsOf(attributes) + 0, Top) <= spent /\ spent \in Nat
      BY <2>1, <3>4, HeaderParserAssumption DEF SpentIs, Parsing, IInv, TypeOK
    <3>6. TotalOf(attributes) = Least(CountsOf(attributes), Top)
      BY <3>1, TotalIs
    <3>7. TotalOf(attributes) <= spent /\ TotalOf(attributes) \in Nat
      BY <3>1, <3>5, <3>6 DEF Least
    <3>8. ~Over(TotalOf(attributes), limits.total)
      <4>1. ~Over(spent, limits.total) /\ limits.total \in Nat \cup {NoLimit}
        BY <2>1, HeaderParserAssumption DEF NothingOver, Parsing, IInv, TypeOK
      <4> QED
        BY <3>5, <3>7, <4>1 DEF Over
    <3> QED
      BY <2>1, <3>3, <3>8 DEF Checks, NothingOver, Parsing
  <2> QED
    BY <2>1 DEF AgreesWithCheck, NothingOver
<1> QED
  BY <1>1, AccountedAlways, PTL

\* The parser (parse_header, read_declared) stops at the content, no nearer to
\* the header's start than serialized_len says of the map it built.
THEOREM ContentStartsThere == Spec => []StopsAtTheContent
<1>1. IInv /\ Accounted => StopsAtTheContent
  <2> SUFFICES ASSUME IInv, MapIs, WhereItIs, phase \in {"content", "done"}
               PROVE  /\ inserted = count /\ consumed >= HeaderLen(attributes)
                      /\ ~foreign /\ NoKeyTwice => consumed = HeaderLen(attributes)
    BY DEF Accounted, StopsAtTheContent
  <2>1. /\ AMap(attributes) /\ TakesOf(attributes) \in Nat /\ Cardinality(DOMAIN attributes) \in Nat
    BY BuildsAMap DEF IInv
  <2>2. /\ inserted = count /\ count \in Nat /\ PendingTakes = 0
        /\ Cardinality(DOMAIN attributes) <= count
    BY DEF MapIs, PendingTakes, IInv, TypeOK
  <2>3. WrittenOf(attributes) = TakesOf(attributes)
    BY <2>1, WrittenIs
  <2>4. HeaderLen(attributes) = Magic + FieldLenBytes(Cardinality(DOMAIN attributes)) + WrittenOf(attributes) + 8
    BY DEF HeaderLen, WrittenOf
  <2>5. /\ FieldLenBytes(Cardinality(DOMAIN attributes)) <= FieldLenBytes(count)
        /\ FieldLenBytes(Cardinality(DOMAIN attributes)) \in Nat /\ FieldLenBytes(count) \in Nat
        /\ NoKeyTwice => FieldLenBytes(Cardinality(DOMAIN attributes)) = FieldLenBytes(count)
    BY <2>1, <2>2, HeaderParserAssumption DEF FieldLenBytes, NoKeyTwice
  <2>6. AsFar(Magic + FieldLenBytes(count) + TakesOf(attributes) + 0 + 8)
    BY <2>2 DEF WhereItIs
  <2>7. consumed \in Nat /\ Magic \in Nat
    BY DEF IInv, TypeOK, Magic
  <2> QED
    BY <2>1, <2>2, <2>3, <2>4, <2>5, <2>6, <2>7 DEF AsFar
<1> QED
  BY <1>1, AccountedAlways, PTL
=============================================================================
