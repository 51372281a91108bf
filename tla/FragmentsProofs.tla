-------------------------- MODULE FragmentsProofs ---------------------------
(***************************************************************************)
(* What holds of a split for all parents, keys and numbers of parts: that  *)
(* no part carries a value of an earlier split, that the parts are         *)
(* numbered from one, and that a terminator declares how many flow files   *)
(* the set has, itself included.                                           *)
(***************************************************************************)
EXTENDS Fragments, TLAPS

Chosen == KeySets \union {DefaultKeys}

\* The keys are told apart, which is what lets one value not displace
\* another.
KeysOK ==
  /\ keys \in Chosen
  /\ original \intersect Stale = {}

\* A part is made for each index, and the terminator without one.
Counted ==
  /\ index \in 0 .. MaxParts
  /\ count \subseteq 0 .. MaxParts
  /\ parts \in Seq({parts[i] : i \in DOMAIN parts})
  /\ stage = "open" => Len(parts) = index
  /\ stage = "terminated" => Len(parts) = index + 1 /\ Len(parts) \in 0 .. MaxParts

\* Part i carries the index i, under the key of this split.
Numbered ==
  \A i \in DOMAIN parts :
    /\ keys.index \in DOMAIN parts[i].attributes
    /\ parts[i].attributes[keys.index] = Decimal(i)

\* "After n parts, the terminator carries fragment.index = fragment.count =
\* n + 1": the last flow file of a terminated set declares how many there are.
DeclaresTheSet ==
  stage = "terminated" =>
    /\ keys.count \in DOMAIN parts[Len(parts)].attributes
    /\ parts[Len(parts)].attributes[keys.count] = Decimal(Len(parts))

IInv == KeysOK /\ Counted /\ NothingInherited /\ Numbered /\ DeclaresTheSet

-----------------------------------------------------------------------------
\* An optional value is set as With sets one, or not at all.
LEMMA WithEachSets ==
  ASSUME NEW attributesOf, NEW key, NEW values
  PROVE  /\ values = {} => WithEach(attributesOf, key, values) = attributesOf
         /\ values # {} => \E value \in values :
              WithEach(attributesOf, key, values) = With(attributesOf, key, value)
BY DEF WithEach

\* Four different keys, none of them the uuid or the name.
LEMMA ChosenKeys ==
  ASSUME NEW k \in Chosen
  PROVE  /\ k.identifier # k.index /\ k.identifier # k.count /\ k.identifier # k.original
         /\ k.index # k.count /\ k.index # k.original /\ k.count # k.original
         /\ {"uuid", "filename"} \intersect AllKeys(k) = {}
<1>1. CASE k = DefaultKeys
  BY <1>1 DEF DefaultKeys, AllKeys
<1>2. CASE k \in KeySets
  <2>1. DOMAIN k = {"identifier", "index", "count", "original"}
    BY <1>2, FragmentsAssumption
  <2> QED
    BY <1>2, <2>1, FragmentsAssumption DEF AllKeys
<1> QED
  BY <1>1, <1>2 DEF Chosen

\* The attributes of a part under the keys of its split are this split's.
LEMMA PartIsOwn ==
  ASSUME KeysOK, NEW i \in 0 .. MaxParts, NEW declares \in SUBSET (0 .. MaxParts),
         NEW attributesOf, attributesOf = Part(i, declares)
  PROVE  /\ \A key \in AllKeys(keys) \intersect DOMAIN attributesOf :
              attributesOf[key] \notin Stale
         /\ keys.index \in DOMAIN attributesOf /\ attributesOf[keys.index] = Decimal(i)
         /\ \A n \in 0 .. MaxParts : declares = {n} =>
              keys.count \in DOMAIN attributesOf /\ attributesOf[keys.count] = Decimal(n)
<1> DEFINE bare     == Without(attributes, AllKeys(keys))
           named    == With(bare, "uuid", Uuid(i))
           owned    == With(named, keys.identifier, "this split's")
           numbered == With(owned, keys.index, Decimal(i))
           counts   == {Decimal(n) : n \in declares}
           counted  == WithEach(numbered, keys.count, counts)
<1>k. keys \in Chosen /\ original \intersect Stale = {}
  BY DEF KeysOK
<1>a. attributesOf = WithEach(counted, keys.original, original)
  BY DEF Part
<1>0. /\ keys.identifier # keys.index /\ keys.identifier # keys.count
      /\ keys.identifier # keys.original /\ keys.index # keys.count
      /\ keys.index # keys.original /\ keys.count # keys.original
      /\ "uuid" \notin AllKeys(keys)
  BY <1>k, ChosenKeys
<1> HIDE DEF bare, named, owned, numbered
<1>1. DOMAIN bare = DOMAIN attributes \ AllKeys(keys)
  BY DEF bare, Without
<1>2. DOMAIN named = DOMAIN bare \union {"uuid"}
  BY DEF named, With
<1>o. /\ DOMAIN owned = DOMAIN named \union {keys.identifier}
      /\ owned[keys.identifier] = "this split's"
  BY DEF owned, With
<1>n. /\ DOMAIN numbered = DOMAIN owned \union {keys.index}
      /\ numbered[keys.index] = Decimal(i)
      /\ \A other \in DOMAIN owned \ {keys.index} : numbered[other] = owned[other]
  BY DEF numbered, With
<1>3. /\ AllKeys(keys) \intersect DOMAIN numbered = {keys.identifier, keys.index}
      /\ numbered[keys.identifier] = "this split's" /\ numbered[keys.index] = Decimal(i)
  BY <1>0, <1>1, <1>2, <1>o, <1>n DEF AllKeys
<1>4. /\ AllKeys(keys) \intersect DOMAIN counted \subseteq {keys.identifier, keys.index, keys.count}
      /\ keys.index \in DOMAIN counted
      /\ counted[keys.identifier] = "this split's" /\ counted[keys.index] = Decimal(i)
      /\ keys.identifier \in DOMAIN counted
      /\ keys.count \in DOMAIN counted => counted[keys.count] \in counts
      /\ counts # {} => keys.count \in DOMAIN counted
  <2>1. CASE counts = {}
    <3>1. counted = numbered
      BY <2>1, WithEachSets
    <3> QED
      BY <1>0, <1>3, <2>1, <3>1 DEF AllKeys
  <2>2. CASE counts # {}
    <3> HIDE DEF counts
    <3>1. PICK value \in counts : counted = With(numbered, keys.count, value)
      BY <2>2, WithEachSets
    <3> USE DEF counts
    <3>2. /\ DOMAIN counted = DOMAIN numbered \union {keys.count}
          /\ counted[keys.count] = value
          /\ \A other \in DOMAIN numbered \ {keys.count} : counted[other] = numbered[other]
      BY <3>1 DEF With
    <3> QED
      BY <1>0, <1>3, <3>2 DEF AllKeys
  <2> QED
    BY <2>1, <2>2
<1> HIDE DEF counted
<1>c. \A n \in 0 .. MaxParts : declares = {n} => counts = {Decimal(n)}
  OBVIOUS
<1>5. \A value \in counts : value \notin Stale
  BY FragmentsAssumption
<1>6. "this split's" \notin Stale /\ Decimal(i) \notin Stale
  BY FragmentsAssumption DEF Stale
<1> HIDE DEF counts
<1>7. CASE original = {}
  <2>1. attributesOf = counted
    BY <1>a, <1>7, WithEachSets
  <2>2. \A key \in AllKeys(keys) \intersect DOMAIN attributesOf : attributesOf[key] \notin Stale
    <3> SUFFICES ASSUME NEW key \in AllKeys(keys), key \in DOMAIN counted
                 PROVE  counted[key] \notin Stale
      BY <2>1
    <3>1. key \in {keys.identifier, keys.index, keys.count}
      BY <1>4
    <3> QED
      BY <3>1, <1>4, <1>5, <1>6
  <2>3. \A n \in 0 .. MaxParts : declares = {n} =>
          keys.count \in DOMAIN attributesOf /\ attributesOf[keys.count] = Decimal(n)
    BY <2>1, <1>4, <1>c
  <2> QED
    BY <2>1, <2>2, <2>3, <1>4
<1>8. CASE original # {}
  <2>1. PICK value \in original : attributesOf = With(counted, keys.original, value)
    BY <1>a, <1>8, WithEachSets
  <2>2. /\ DOMAIN attributesOf = DOMAIN counted \union {keys.original}
        /\ attributesOf[keys.original] = value
        /\ \A other \in DOMAIN counted \ {keys.original} : attributesOf[other] = counted[other]
    BY <2>1 DEF With
  <2>3. value \notin Stale
    BY <1>k, <2>1
  <2>4. /\ keys.index \in DOMAIN attributesOf /\ attributesOf[keys.index] = Decimal(i)
        /\ attributesOf[keys.identifier] = "this split's"
    BY <1>0, <1>4, <2>2
  <2>5. /\ keys.count \in DOMAIN attributesOf <=> keys.count \in DOMAIN counted
        /\ keys.count \in DOMAIN counted => attributesOf[keys.count] = counted[keys.count]
    BY <1>0, <2>2
  <2>6. \A key \in AllKeys(keys) \intersect DOMAIN attributesOf : attributesOf[key] \notin Stale
    <3>1. attributesOf[keys.identifier] \notin Stale /\ attributesOf[keys.index] \notin Stale
      BY <1>6, <2>4
    <3>2. keys.count \in DOMAIN attributesOf => attributesOf[keys.count] \notin Stale
      BY <1>4, <1>5, <2>5
    <3> QED
      BY <2>2, <2>3, <3>1, <3>2 DEF AllKeys
  <2>7. \A n \in 0 .. MaxParts : declares = {n} =>
          keys.count \in DOMAIN attributesOf /\ attributesOf[keys.count] = Decimal(n)
    BY <1>4, <1>c, <2>5
  <2> QED
    BY <2>4, <2>6, <2>7
<1> QED
  BY <1>7, <1>8

\* However a flow file is made, it has the attributes it was given.
LEMMA MadeOfAttributes ==
  ASSUME NEW attributesOf, NEW content, NEW size,
         NEW flowFile \in Made(attributesOf, content, size)
  PROVE  flowFile.attributes = attributesOf
<1>1. Reader(attributesOf, content, size).attributes = attributesOf
  BY DEF Reader, FromParts
<1>2. Build(attributesOf, content).attributes = attributesOf
  BY DEF Build, FromParts
<1>3. MapContentSized(Build(attributesOf, <<>>), content, size).attributes = attributesOf
  BY DEF MapContentSized, WithSize, MapContent, Build, FromParts
<1> QED
  BY <1>1, <1>2, <1>3 DEF Made

\* A flow file more keeps the sequence one.
LEMMA AppendOne ==
  ASSUME NEW made, made \in Seq({made[i] : i \in DOMAIN made}), NEW flowFile,
         NEW longer, longer = Append(made, flowFile)
  PROVE  /\ longer \in Seq({longer[i] : i \in DOMAIN longer})
         /\ Len(made) \in Nat /\ DOMAIN made = 1 .. Len(made)
         /\ Len(longer) = Len(made) + 1 /\ DOMAIN longer = 1 .. Len(made) + 1
         /\ longer[Len(longer)] = flowFile
         /\ \A i \in DOMAIN made : longer[i] = made[i]
<1> DEFINE All == {made[i] : i \in DOMAIN made} \union {flowFile}
<1>1. made \in Seq(All)
  OBVIOUS
<1>2. Len(made) \in Nat /\ DOMAIN made = 1 .. Len(made)
  BY <1>1
<1> HIDE DEF All
<1>3. flowFile \in All
  BY DEF All
<1>4. /\ longer \in Seq(All)
      /\ Len(longer) = Len(made) + 1 /\ DOMAIN longer = 1 .. Len(made) + 1
      /\ longer[Len(made) + 1] = flowFile
      /\ \A i \in 1 .. Len(made) : longer[i] = made[i]
  BY <1>1, <1>2, <1>3
<1>5. longer \in Seq({longer[i] : i \in DOMAIN longer})
  BY <1>4
<1> QED
  BY <1>2, <1>4, <1>5

-----------------------------------------------------------------------------
\* A split that has made no part has numbered none.
LEMMA InitEstablishes == FragmentsInit => IInv
<1> SUFFICES ASSUME FragmentsInit PROVE IInv
  OBVIOUS
<1>1. KeysOK
  BY FragmentsAssumption DEF FragmentsInit, KeysOK, Chosen
<1>2. Counted
  BY FragmentsAssumption DEF FragmentsInit, Counted
<1>3. NothingInherited /\ Numbered /\ DeclaresTheSet
  BY DEF FragmentsInit, NothingInherited, Numbered, DeclaresTheSet
<1> QED
  BY <1>1, <1>2, <1>3 DEF IInv

\* Before the first part there is nothing for a change of keys to spoil.
LEMMA SettingUpIsSafe ==
  ASSUME IInv, SettingUp,
         keys' \in Chosen, original' \intersect Stale = {}, count' \subseteq 0 .. MaxParts,
         index' = index, parts' = parts, stage' = stage
  PROVE  IInv'
<1>1. parts = <<>>
  BY DEF IInv, Counted, SettingUp
<1>2. KeysOK' /\ Counted'
  BY <1>1 DEF IInv, KeysOK, Counted, SettingUp
<1>3. NothingInherited' /\ Numbered' /\ DeclaresTheSet'
  BY <1>1 DEF IInv, NothingInherited, Numbered, DeclaresTheSet, SettingUp
<1> QED
  BY <1>2, <1>3 DEF IInv

\* A part more, made as part makes them, keeps what holds of each.
LEMMA OneMorePart ==
  ASSUME IInv, NEW declares \in SUBSET (0 .. MaxParts), Len(parts) < MaxParts, NEW flowFile,
         parts' = Append(parts, flowFile), keys' = keys,
         \A key \in AllKeys(keys) :
           /\ key \in DOMAIN flowFile.attributes <=> key \in DOMAIN Part(Len(parts) + 1, declares)
           /\ key \in DOMAIN flowFile.attributes =>
                flowFile.attributes[key] = Part(Len(parts) + 1, declares)[key]
  PROVE  /\ parts' \in Seq({parts'[i] : i \in DOMAIN parts'}) /\ Len(parts') = Len(parts) + 1
         /\ NothingInherited' /\ Numbered'
         /\ \A n \in 0 .. MaxParts : declares = {n} =>
              /\ keys.count \in DOMAIN parts'[Len(parts')].attributes
              /\ parts'[Len(parts')].attributes[keys.count] = Decimal(n)
<1> DEFINE number == Len(parts) + 1
<1>1. /\ parts' \in Seq({parts'[i] : i \in DOMAIN parts'})
      /\ Len(parts) \in Nat /\ DOMAIN parts = 1 .. Len(parts)
      /\ Len(parts') = Len(parts) + 1 /\ DOMAIN parts' = 1 .. Len(parts) + 1
      /\ parts'[Len(parts')] = flowFile
      /\ \A i \in DOMAIN parts : parts'[i] = parts[i]
  BY AppendOne DEF IInv, Counted
<1>2. number \in 0 .. MaxParts
  BY <1>1, FragmentsAssumption
<1>3. KeysOK
  BY DEF IInv
<1>4. LET own == Part(number, declares)
      IN  /\ \A key \in AllKeys(keys) \intersect DOMAIN own : own[key] \notin Stale
          /\ keys.index \in DOMAIN own /\ own[keys.index] = Decimal(number)
          /\ \A n \in 0 .. MaxParts : declares = {n} =>
               keys.count \in DOMAIN own /\ own[keys.count] = Decimal(n)
  BY <1>2, <1>3, PartIsOwn
<1>5. keys.index \in AllKeys(keys) /\ keys.count \in AllKeys(keys)
  BY DEF AllKeys
<1>6. AllKeys(keys)' = AllKeys(keys)
  BY DEF AllKeys
<1>7. NothingInherited'
  BY <1>1, <1>4, <1>6 DEF IInv, NothingInherited
<1>8. Numbered'
  BY <1>1, <1>4, <1>5 DEF IInv, Numbered
<1>9. \A n \in 0 .. MaxParts : declares = {n} =>
        /\ keys.count \in DOMAIN parts'[Len(parts')].attributes
        /\ parts'[Len(parts')].attributes[keys.count] = Decimal(n)
  BY <1>1, <1>4, <1>5
<1> QED
  BY <1>1, <1>7, <1>8, <1>9

\* One case for each operation of Fragments.
LEMMA StepPreserves == IInv /\ [FragmentsNext]_fragmentsVars => IInv'
<1> SUFFICES ASSUME IInv, [FragmentsNext]_fragmentsVars PROVE IInv'
  OBVIOUS
<1> USE FragmentsAssumption
<1>1. CASE WithKeys
  BY <1>1, SettingUpIsSafe DEF WithKeys, IInv, KeysOK, Counted, Chosen
<1>k. CASE WithOneKey
  BY <1>k, SettingUpIsSafe DEF WithOneKey, IInv, KeysOK, Counted, Chosen
<1>2. CASE Attribute
  BY <1>2, SettingUpIsSafe DEF Attribute, IInv, KeysOK, Counted
<1>3. CASE WithoutAttribute
  BY <1>3, SettingUpIsSafe DEF WithoutAttribute, IInv, KeysOK, Counted
<1>4. CASE WithOriginalFilename
  <2>1. {"renamed"} \intersect Stale = {}
    BY DEF Stale
  <2> QED
    BY <1>4, <2>1, SettingUpIsSafe DEF WithOriginalFilename, IInv, KeysOK, Counted
<1>5. CASE WithCount
  <2>1. keys' = keys /\ original' = original /\ index' = index /\ parts' = parts /\ stage' = stage
    BY <1>5 DEF WithCount, setVars
  <2>2. count' \subseteq 0 .. MaxParts
    BY <1>5 DEF WithCount, IInv, Counted
  <2>3. KeysOK' /\ Counted'
    BY <2>1, <2>2 DEF IInv, KeysOK, Counted
  <2>4. AllKeys(keys)' = AllKeys(keys)
    BY <2>1 DEF AllKeys
  <2>5. NothingInherited' /\ Numbered' /\ DeclaresTheSet'
    BY <2>1, <2>4 DEF IInv, NothingInherited, Numbered, DeclaresTheSet
  <2> QED
    BY <2>3, <2>5 DEF IInv
<1>6. CASE NextPart
  <2>1. /\ keys' = keys /\ original' = original /\ count' = count
        /\ stage = "open" /\ index' = index + 1 /\ index' \in 0 .. MaxParts
        /\ Len(parts) = index
    BY <1>6 DEF NextPart, setVars, IInv, Counted
  <2>2. KeysOK' /\ AllKeys(keys)' = AllKeys(keys)
    BY <2>1 DEF IInv, KeysOK, AllKeys
  <2>3. CASE Panics
    <3>1. parts' = parts /\ stage' = "panicked"
      BY <2>3 DEF Panics
    <3>2. Counted' /\ NothingInherited' /\ Numbered' /\ DeclaresTheSet'
      BY <2>1, <2>2, <3>1 DEF IInv, Counted, NothingInherited, Numbered, DeclaresTheSet
    <3> QED
      BY <2>2, <3>2 DEF IInv
  <2>4. CASE stage' = stage /\ \E size, held \in 0 .. Len(rest) : CutOff(size, held)
    <3>1. PICK size, held \in 0 .. Len(rest) : CutOff(size, held)
      BY <2>4
    <3> DEFINE own == Part(index', count)
    <3>2. PICK flowFile \in Made(With(own, "filename", "part"), SubSeq(rest, 1, held), size) :
                 parts' = Append(parts, flowFile)
      BY <3>1 DEF CutOff
    <3> HIDE DEF own
    <3>3. flowFile.attributes = With(own, "filename", "part")
      BY <3>2, MadeOfAttributes
    <3>4. "filename" \notin AllKeys(keys)
      BY ChosenKeys DEF IInv, KeysOK
    <3>5. \A key \in AllKeys(keys) :
            /\ key \in DOMAIN flowFile.attributes <=> key \in DOMAIN own
            /\ key \in DOMAIN flowFile.attributes => flowFile.attributes[key] = own[key]
      BY <3>3, <3>4 DEF With
    <3>6. own = Part(Len(parts) + 1, count)
      BY <2>1 DEF own
    <3>7. count \in SUBSET (0 .. MaxParts) /\ Len(parts) < MaxParts
      BY <1>6, <2>1 DEF NextPart, IInv, Counted
    <3>8. /\ parts' \in Seq({parts'[i] : i \in DOMAIN parts'}) /\ Len(parts') = Len(parts) + 1
          /\ NothingInherited' /\ Numbered'
      BY <2>1, <3>2, <3>5, <3>6, <3>7, OneMorePart
    <3>9. Counted' /\ DeclaresTheSet'
      BY <2>1, <2>4, <3>7, <3>8 DEF Counted, DeclaresTheSet
    <3> QED
      BY <2>2, <3>8, <3>9 DEF IInv
  <2> QED
    BY <1>6, <2>3, <2>4 DEF NextPart
<1>7. CASE Terminate
  <2>1. /\ keys' = keys /\ original' = original /\ count' = count /\ index' = index
        /\ stage = "open" /\ index < MaxParts /\ Len(parts) = index
    BY <1>7 DEF Terminate, setVars, IInv, Counted
  <2>2. KeysOK' /\ AllKeys(keys)' = AllKeys(keys)
    BY <2>1 DEF IInv, KeysOK, AllKeys
  <2>3. CASE Panics
    <3>1. parts' = parts /\ stage' = "panicked"
      BY <2>3 DEF Panics
    <3>2. Counted' /\ NothingInherited' /\ Numbered' /\ DeclaresTheSet'
      BY <2>1, <2>2, <3>1 DEF IInv, Counted, NothingInherited, Numbered, DeclaresTheSet
    <3> QED
      BY <2>2, <3>2 DEF IInv
  <2>4. CASE /\ parts' = Append(parts, Build(Part(index + 1, {index + 1}), <<>>))
             /\ stage' = "terminated"
    <3> DEFINE own      == Part(index + 1, {index + 1})
               flowFile == Build(own, <<>>)
    <3>1. flowFile.attributes = own
      BY DEF Build, FromParts
    <3>2. parts' = Append(parts, flowFile)
      BY <2>4
    <3>3. own = Part(Len(parts) + 1, {index + 1})
      BY <2>1
    <3> HIDE DEF own, flowFile
    <3>4. {index + 1} \in SUBSET (0 .. MaxParts) /\ Len(parts) < MaxParts /\ index + 1 \in 0 .. MaxParts
      BY <2>1 DEF IInv, Counted
    <3>5. /\ parts' \in Seq({parts'[i] : i \in DOMAIN parts'}) /\ Len(parts') = Len(parts) + 1
          /\ NothingInherited' /\ Numbered'
          /\ keys.count \in DOMAIN parts'[Len(parts')].attributes
          /\ parts'[Len(parts')].attributes[keys.count] = Decimal(index + 1)
      BY <2>1, <3>1, <3>2, <3>3, <3>4, OneMorePart
    <3>6. Counted'
      BY <2>1, <2>4, <3>4, <3>5 DEF IInv, Counted
    <3>7. DeclaresTheSet'
      BY <2>1, <3>5 DEF DeclaresTheSet
    <3> QED
      BY <2>2, <3>5, <3>6, <3>7 DEF IInv
  <2> QED
    BY <1>7, <2>3, <2>4 DEF Terminate
<1>8. CASE Stop
  BY <1>8 DEF Stop, setVars, IInv, KeysOK, Counted, NothingInherited, Numbered, DeclaresTheSet, AllKeys
<1>9. CASE UNCHANGED fragmentsVars
  BY <1>9 DEF fragmentsVars, setVars, IInv, KeysOK, Counted, NothingInherited, Numbered, DeclaresTheSet, AllKeys
<1> QED
  BY <1>1, <1>k, <1>2, <1>3, <1>4, <1>5, <1>6, <1>7, <1>8, <1>9 DEF FragmentsNext

-----------------------------------------------------------------------------
\* The invariant holds in every behaviour of a split, for all parents, keys
\* and numbers of parts (FlowFile::fragments, next_part, terminate).
THEOREM Invariance == FragmentsSpec => []IInv
BY InitEstablishes, StepPreserves, PTL DEF FragmentsSpec

\* "Dropping them first": no part carries a value its parent had from an
\* earlier split, or one set for all parts, under a key of this split.
THEOREM PartsAreOwn == FragmentsSpec => []NothingInherited
<1>1. IInv => NothingInherited
  BY DEF IInv
<1> QED
  BY <1>1, Invariance, PTL

\* The indexes are one up: part i carries i, under whichever key was chosen.
THEOREM PartsAreNumbered == FragmentsSpec => []Numbered
<1>1. IInv => Numbered
  BY DEF IInv
<1> QED
  BY <1>1, Invariance, PTL

\* "The count therefore includes the terminator itself": the last flow file
\* of a terminated set declares how many flow files there are.
THEOREM TerminatorsCount == FragmentsSpec => []DeclaresTheSet
<1>1. IInv => DeclaresTheSet
  BY DEF IInv
<1> QED
  BY <1>1, Invariance, PTL
=============================================================================
