----------------------------- MODULE Fragments ------------------------------
(***************************************************************************)
(* One flow file split into many (src/fragments.rs): Fragments numbers the *)
(* parts with NiFi's fragment attributes, under keys that may be chosen,   *)
(* and declares how many there are, ahead with with_count or behind with a *)
(* terminator.                                                             *)
(*                                                                         *)
(* The caller sets the split up and then cuts the content in order, each   *)
(* part from a source that holds as much as it declares, or (once) not.    *)
(***************************************************************************)
EXTENDS FlowFile, TLC, FiniteSets

CONSTANTS
  Parents,     \* the flow files to split
  KeySets,     \* the FragmentKeys to choose from
  Adjustable,  \* keys the caller sets or drops for the whole split
  MaxAdjusted, \* bound: how many of them
  MaxParts,    \* bound: flow files of a set, and the count declared
  Decimal(_)   \* u64::to_string, the value of a number

\* Values a part can have under a key of the split only by mistake: those of
\* the split its parent came from, and those the caller set for all parts.
Stale == {"grandparent's", "caller's"}

ASSUME FragmentsAssumption ==
  /\ MaxParts \in Nat /\ MaxAdjusted \in Nat
  /\ \A n \in 0 .. MaxParts : Decimal(n) \notin Stale
  /\ \A m, n \in 0 .. MaxParts : Decimal(m) = Decimal(n) => m = n
  /\ \A flowFile \in Parents : flowFile.content \in Seq(Nat)
  /\ \A flowFile \in Parents : Values(flowFile.attributes, "filename") \intersect Stale = {}
  /\ \A keys \in KeySets : DOMAIN keys = {"identifier", "index", "count", "original"}
  /\ \A keys \in KeySets : \A a, b \in DOMAIN keys : keys[a] = keys[b] => a = b
  /\ \A keys \in KeySets : \A a \in DOMAIN keys : keys[a] \notin {"uuid", "filename"}

VARIABLES
  parent,      \* the flow file to split
  attributes,  \* what every part inherits
  keys,        \* FragmentKeys
  count,       \* the count declared, if it is
  original,    \* original_filename, if there is one
  index,       \* parts started so far
  parts,       \* the flow files made of them
  rest,        \* the parent's content that has not been cut off
  adjusted,    \* what the caller set or dropped
  stage        \* "open", or what ended it: "terminated", "stopped", "panicked"

setVars       == <<parent, attributes, keys, original, adjusted>>
fragmentsVars == <<setVars, count, index, parts, rest, stage>>

DefaultKeys ==
  [identifier |-> "fragment.identifier", index |-> "fragment.index",
   count |-> "fragment.count", original |-> "segment.original.filename"]

AllKeys(k) == {k.identifier, k.index, k.count, k.original}

\* FlowFile::fragments, Fragments::new.
FragmentsInit ==
  /\ parent \in Parents
  /\ keys = DefaultKeys
  /\ attributes = Without(parent.attributes, AllKeys(DefaultKeys))
  /\ original = Values(parent.attributes, "filename")
  /\ count = {} /\ index = 0 /\ parts = <<>>
  /\ rest = parent.content
  /\ adjusted = {} /\ stage = "open"

(***************************************************************************)
(* Setting up: in any order, before the first part                         *)
(***************************************************************************)

SettingUp == stage = "open" /\ index = 0

WithKeys ==
  /\ SettingUp
  /\ keys' \in KeySets
  /\ UNCHANGED <<parent, attributes, original, adjusted, count, index, parts, rest, stage>>

\* identifier_attribute, index_attribute, count_attribute,
\* original_filename_attribute.
WithOneKey ==
  /\ SettingUp
  /\ \E name \in DOMAIN keys, chosen \in KeySets :
       keys' = [keys EXCEPT ![name] = chosen[name]]
  /\ keys' \in KeySets
  /\ UNCHANGED <<parent, attributes, original, adjusted, count, index, parts, rest, stage>>

\* attribute, attributes.
Attribute ==
  /\ SettingUp
  /\ \E key \in Adjustable \ adjusted :
       /\ attributes' = With(attributes, key, "caller's")
       /\ adjusted' = adjusted \union {key}
  /\ Cardinality(adjusted') <= MaxAdjusted
  /\ UNCHANGED <<parent, keys, original, count, index, parts, rest, stage>>

WithoutAttribute ==
  /\ SettingUp
  /\ \E key \in (Adjustable \intersect DOMAIN attributes) \ adjusted :
       /\ attributes' = Without(attributes, {key})
       /\ adjusted' = adjusted \union {key}
  /\ Cardinality(adjusted') <= MaxAdjusted
  /\ UNCHANGED <<parent, keys, original, count, index, parts, rest, stage>>

\* with_original_filename, in place of the parent's.
WithOriginalFilename ==
  /\ SettingUp /\ "original" \notin adjusted
  /\ original' = {"renamed"}
  /\ adjusted' = adjusted \union {"original"}
  /\ Cardinality(adjusted') <= MaxAdjusted
  /\ UNCHANGED <<parent, attributes, keys, count, index, parts, rest, stage>>

\* with_count.  A caller that learns the total late may still declare it,
\* or another one while no part says the first, but no fewer than there are.
WithCount ==
  /\ stage = "open"
  /\ \A i \in DOMAIN parts : keys.count \notin DOMAIN parts[i].attributes
  /\ \E n \in index .. MaxParts : count' = {n}
  /\ UNCHANGED <<setVars, index, parts, rest, stage>>

(***************************************************************************)
(* Parts                                                                   *)
(***************************************************************************)

Uuid(n) == ToString(<<"uuid", n>>)

Part_DropsTheDefaults(i, declares) ==
  LET numbered == With(With(With(Without(attributes, AllKeys(DefaultKeys)), "uuid", Uuid(i)),
                            keys.identifier, "this split's"),
                       keys.index, Decimal(i))
  IN  WithEach(WithEach(numbered, keys.count, {Decimal(n) : n \in declares}),
               keys.original, original)
\* part: the parent's values under these keys are dropped first, for two of
\* the four may not be written.
Part(i, declares) ==
  LET numbered == With(With(With(Without(attributes, AllKeys(keys)), "uuid", Uuid(i)),
                            keys.identifier, "this split's"),
                       keys.index, Decimal(i))
  IN  WithEach(WithEach(numbered, keys.count, {Decimal(n) : n \in declares}),
               keys.original, original)

Panics == stage' = "panicked" /\ parts' = parts /\ rest' = rest

\* The next size bytes are cut off, from a source that holds so many, and
\* the part is given a name of its own: attributes "set there win".
CutOff(size, held) ==
  /\ held = size \/ \A i \in DOMAIN parts : HoldsItsSize(parts[i])
  /\ \E flowFile \in Made(With(Part(index', count), "filename", "part"), SubSeq(rest, 1, held), size) :
       parts' = Append(parts, flowFile)
  /\ rest' = SubSeq(rest, size + 1, Len(rest))

NextPart_Unchecked ==
  /\ stage = "open" /\ index < MaxParts
  /\ index' = index + 1
  /\ \E size, held \in 0 .. Len(rest) : CutOff(size, held)
  /\ UNCHANGED <<setVars, count, stage>>
\* next_part, and the content the caller gives it: some of what is left,
\* declared as size bytes and held by a source of its own length.
NextPart ==
  /\ stage = "open" /\ index < MaxParts
  /\ index' = index + 1
  /\ IF \A n \in count : index' <= n
     THEN stage' = stage /\ \E size, held \in 0 .. Len(rest) : CutOff(size, held)
     ELSE Panics
  /\ UNCHANGED <<setVars, count>>

Terminate_OneMore ==
  /\ stage = "open" /\ rest = <<>> /\ index < MaxParts
  /\ IF \A n \in count : n = index + 1
     THEN /\ parts' = Append(parts, Build(Part(index + 1, {index + 2}), <<>>))
          /\ stage' = "terminated" /\ rest' = rest
     ELSE Panics
  /\ UNCHANGED <<setVars, count, index>>
\* terminate, which consumes the counter, once the input has run out.
Terminate ==
  /\ stage = "open" /\ rest = <<>> /\ index < MaxParts
  /\ IF \A n \in count : n = index + 1
     THEN /\ parts' = Append(parts, Build(Part(index + 1, {index + 1}), <<>>))
          /\ stage' = "terminated" /\ rest' = rest
     ELSE Panics
  /\ UNCHANGED <<setVars, count, index>>

\* A set "declared to hold" fewer parts than the content takes.
Overdrawn == \E n \in count : index >= n

\* The caller leaves it at that, having declared the count, or forgotten to.
Stop ==
  /\ stage = "open" /\ (rest = <<>> \/ Overdrawn)
  /\ stage' = "stopped"
  /\ UNCHANGED <<setVars, count, index, parts, rest>>

FragmentsNext ==
  \/ WithKeys \/ WithOneKey \/ Attribute \/ WithoutAttribute \/ WithOriginalFilename \/ WithCount
  \/ NextPart \/ Terminate \/ Stop

\* A split by itself, whatever becomes of its parts.
FragmentsSpec == FragmentsInit /\ [][FragmentsNext]_fragmentsVars

-----------------------------------------------------------------------------
\* "A set that declares no count, or a parent with no filename, must not
\* leave the grandparent's answer standing in for the one this split would
\* give", under whichever keys and in whatever order it was set up; nor does
\* a value the caller set "under one of keys".
NothingInherited ==
  \A i \in DOMAIN parts :
    \A key \in AllKeys(keys) \intersect DOMAIN parts[i].attributes :
      parts[i].attributes[key] \notin Stale
=============================================================================
