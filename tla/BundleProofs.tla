--------------------------- MODULE BundleProofs ----------------------------
(***************************************************************************)
(* What holds of a split, its transport and its merge, for all parents,    *)
(* keys, ways to send a part and numbers of parts: a part arrives as it    *)
(* was sent or not at all, an error tells of a truncation when there was   *)
(* one, and a bin that fills is merged into what the parent was.           *)
(*                                                                         *)
(* The argument.  A part that is on its way is a form of it, in one of two *)
(* ways damaged or not (IsFormOf), and the readers take a form only when   *)
(* it is whole (ReadAsSent).  The parts are the pieces of the parent's     *)
(* content between ends that move on with each of them (Pieces), and what  *)
(* next_part counts keeps to what was declared (Budgeted), so that a bin   *)
(* as large as a part declares has all of them (AllThere).  Put in the     *)
(* order of their index they are the beginning of the content again        *)
(* (FlattenIs, by induction on how many are put together).                 *)
(***************************************************************************)
EXTENDS Bundle, FragmentsProofs, SequenceTheorems, FiniteSetTheorems

(***************************************************************************)
(* What there is of each part                                              *)
(***************************************************************************)

\* A sequence, of whatever is in it.
IsList(list) == list \in Seq({list[i] : i \in DOMAIN list})

\* A form or a flow file for each part sent, and never both.
Aligned ==
  /\ IsList(parts) /\ IsList(sent) /\ IsList(arrived)
  /\ Len(arrived) = Len(sent) /\ Len(sent) <= Len(parts)
  /\ \A i \in DOMAIN sent : sent[i] = {} \/ arrived[i] = {}

\* A part as flow files of this program are: a size and bytes.
IsPart(part) == part.size \in Nat /\ part.content \in Seq(Nat)

\* Every part is one, and so is what has not been cut off.
PartsOK == rest \in Seq(Nat) /\ \A i \in DOMAIN parts : IsPart(parts[i])

\* A part as it arrives.
AsSent(part) == FromParts(part.size, part.attributes, Cut(part.size, part.content))

\* A form of a part: what it declares is the part's size, if it declares one,
\* and its content the part's, or with a byte behind it, or short.
IsFormOf(form, part) ==
  LET content == Cut(part.size, part.content)
  IN  /\ form = [form |-> form.form, declares |-> form.declares,
                 attributes |-> form.attributes, content |-> form.content]
      /\ form.form \in {"binary", "json"} /\ form.attributes = part.attributes
      /\ \/ form.declares = {part.size}
         \/ form.form = "json" /\ form.declares = {} /\ form.content = content
      /\ form.content \in Seq(Nat)
      /\ \/ form.content = content
         \/ Len(content) = part.size /\ form.content = Append(content, 0)
         \/ Len(form.content) < part.size
      /\ form.form = "json" /\ form.content = content => Len(content) = part.size

\* What is on its way is a form of the part with its number.
FormsOK == \A i \in DOMAIN sent : \A form \in sent[i] : IsFormOf(form, parts[i])

\* An error and the sizes it is about.
ToldRight ==
  \A e \in told, sizes \in cause :
    /\ sizes[1] \in Nat /\ sizes[2] \in Nat
    /\ \/ sizes[2] < sizes[1] /\ e \in {Truncated(sizes[1], sizes[2]), SizeMismatch(sizes[1], sizes[2])}
       \/ ~(sizes[2] < sizes[1]) /\ e \in {TrailingData(sizes[2] - sizes[1]), Refused("ContentTooLarge")}

(***************************************************************************)
(* What the parts look like                                                *)
(***************************************************************************)

\* What the parts inherit is the parent's.
Inherits ==
  /\ "original" \notin adjusted => original = Values(parent.attributes, "filename")
  /\ \A key : key \notin AllKeys(DefaultKeys) \union adjusted =>
       Values(attributes, key) = Values(parent.attributes, key)

\* A part has them, and the original name.
Looks(attributesOf) ==
  /\ original # {} => Values(attributesOf, keys.original) = {CHOOSE value \in original : TRUE}
  /\ \A key : key \notin AllKeys(keys) \union {"uuid", "filename"} =>
       Values(attributesOf, key) = Values(attributes, key)

\* Every one does.
PartsLook == \A i \in DOMAIN parts : Looks(parts[i].attributes)

(***************************************************************************)
(* How many there are, and what was cut off for them                       *)
(***************************************************************************)

\* There are no more parts than were declared, and while there is content
\* left, each was counted by next_part.
Budgeted ==
  /\ Len(parts) <= MaxParts
  /\ \A n \in count : count = {n} /\ Len(parts) <= n
  /\ rest # <<>> => index >= Len(parts)

\* A part that declares the count declares the one that was given, or, a
\* terminator, that of the parts there are.
DeclaresRight ==
  \A i \in DOMAIN parts : keys.count \in DOMAIN parts[i].attributes =>
    \/ \E n \in count : parts[i].attributes[keys.count] = Decimal(n)
    \/ /\ stage # "open" /\ rest = <<>>
       /\ parts[i].attributes[keys.count] = Decimal(Len(parts))

\* A part is the piece between two ends, if its source held as much.
Pieces(ends) ==
  /\ ends[0] = 0 /\ \A i \in 0 .. Len(parts) : ends[i] <= Len(parent.content)
  /\ rest = SubSeq(parent.content, ends[Len(parts)] + 1, Len(parent.content))
  /\ \A i \in DOMAIN parts :
       /\ ends[i] = ends[i - 1] + parts[i].size
       /\ Len(parts[i].content) >= parts[i].size =>
            Cut(parts[i].size, parts[i].content) = SubSeq(parent.content, ends[i - 1] + 1, ends[i])

\* What was cut off, and for which part.
CutInPieces == parent \in Parents /\ \E ends \in [0 .. Len(parts) -> Nat] : Pieces(ends)

\* A bin that was merged had every part there is or will be, one of which said
\* how many, and what they were cut from.
Merged ==
  /\ merged # {} =>
       /\ Bin = DOMAIN parts /\ parts # <<>>
       /\ \E i \in DOMAIN parts : keys.count \in DOMAIN parts[i].attributes
       /\ count = {Len(parts)} \/ (stage # "open" /\ rest = <<>>)
  /\ \A flowFile \in merged : flowFile.content \o rest = parent.content

(***************************************************************************)
(* Contents, and the forms of a part                                       *)
(***************************************************************************)

\* What is read of a content is no longer than its size, and all of it if it
\* is no longer.
LEMMA CutIs ==
  ASSUME NEW s \in Seq(Nat), NEW n \in Nat
  PROVE  /\ Cut(n, s) \in Seq(Nat)
         /\ Len(Cut(n, s)) = IF n < Len(s) THEN n ELSE Len(s)
         /\ Len(s) <= n => Cut(n, s) = s
         /\ n <= Len(s) => Cut(n, s) = SubSeq(s, 1, n)
<1> DEFINE m == IF n < Len(s) THEN n ELSE Len(s)
<1>1. Len(s) \in Nat /\ \A i \in 1 .. Len(s) : s[i] \in Nat
  OBVIOUS
<1>2. m \in Nat /\ m <= Len(s) /\ m <= n
  BY <1>1
<1>3. Cut(n, s) = SubSeq(s, 1, m)
  BY DEF Cut
<1>4. Len(s) <= n => m = Len(s)
  BY <1>1
<1>5. n <= Len(s) => m = n
  BY <1>1
<1> HIDE DEF m
<1>6. \A i \in 1 .. m : s[i] \in Nat
  BY <1>1, <1>2
<1>7. SubSeq(s, 1, m) \in Seq(Nat) /\ Len(SubSeq(s, 1, m)) = IF 1 <= m THEN m - 1 + 1 ELSE 0
  BY <1>2, <1>6, SubSeqProperties
<1>8. Len(SubSeq(s, 1, m)) = m
  BY <1>2, <1>7
<1>9. SubSeq(s, 1, Len(s)) = s
  BY SubSeqFull
<1> QED
  BY <1>3, <1>4, <1>5, <1>7, <1>8, <1>9 DEF m

\* A byte behind the content is not read.
LEMMA CutTheRest ==
  ASSUME NEW s \in Seq(Nat)
  PROVE  /\ Cut(Len(s), Append(s, 0)) = s
         /\ Append(s, 0) \in Seq(Nat) /\ Len(Append(s, 0)) = Len(s) + 1
<1> DEFINE longer == Append(s, 0)
<1>1. /\ longer \in Seq(Nat) /\ Len(s) \in Nat /\ Len(longer) = Len(s) + 1
      /\ \A i \in 1 .. Len(s) : longer[i] = s[i]
  OBVIOUS
<1>3. \A i \in 1 .. Len(s) : longer[i] \in Nat
  BY <1>1
<1> HIDE DEF longer
<1>2. Cut(Len(s), longer) = SubSeq(longer, 1, Len(s))
  <2>1. Len(s) <= Len(longer)
    BY <1>1
  <2> QED
    BY <1>1, <2>1, CutIs
<1>4. /\ SubSeq(longer, 1, Len(s)) \in Seq(Nat)
      /\ Len(SubSeq(longer, 1, Len(s))) = IF 1 <= Len(s) THEN Len(s) - 1 + 1 ELSE 0
      /\ \A i \in 1 .. Len(s) - 1 + 1 : SubSeq(longer, 1, Len(s))[i] = longer[1 + i - 1]
  BY <1>1, <1>3, SubSeqProperties
<1> DEFINE first == SubSeq(longer, 1, Len(s))
<1>5. first \in Seq(Nat) /\ Len(first) = Len(s)
  BY <1>1, <1>4
<1>6. \A i \in 1 .. Len(s) : first[i] = s[i]
  <2> SUFFICES ASSUME NEW i \in 1 .. Len(s) PROVE first[i] = s[i]
    OBVIOUS
  <2>1. i \in 1 .. Len(s) - 1 + 1 /\ 1 + i - 1 = i
    BY <1>1
  <2> QED
    BY <1>1, <1>4, <2>1
<1> HIDE DEF first
<1>7. first = s
  BY <1>5, <1>6, SeqEqual
<1> QED
  BY <1>1, <1>2, <1>7 DEF first, longer

\* What a flow file in memory is serialized to is a form of it.
LEMMA SerializedIsForm ==
  ASSUME NEW part, IsPart(part), NEW flowFile,
         flowFile.size = part.size, flowFile.attributes = part.attributes,
         flowFile.content = Cut(part.size, part.content), HoldsItsSize(flowFile)
  PROVE  \A form \in ToBytes(flowFile) \union Serialize(flowFile) : IsFormOf(form, part)
<1> SUFFICES ASSUME NEW form \in ToBytes(flowFile) \union Serialize(flowFile)
             PROVE  IsFormOf(form, part)
  OBVIOUS
<1>1. Cut(part.size, part.content) \in Seq(Nat)
  BY CutIs DEF IsPart
<1>2. PICK name \in {"binary", "json"} : form = Serialized(name, flowFile, flowFile.content)
  BY DEF ToBytes, Serialize
<1>3. /\ form = [form |-> name, declares |-> {part.size},
                 attributes |-> part.attributes, content |-> Cut(part.size, part.content)]
  BY <1>2 DEF Serialized
<1>4. Len(Cut(part.size, part.content)) = part.size
  BY DEF HoldsItsSize
<1> QED
  BY <1>1, <1>3, <1>4 DEF IsFormOf

\* A part that is sent is sent in a form of it.
LEMMA SentIsForm ==
  ASSUME NEW part, IsPart(part)
  PROVE  \A form \in ToBytes(part) \union Serialize(part) \union {WriteTo(part)}
                       \union SerializeStreaming(part) : IsFormOf(form, part)
<1>p. /\ part.size \in Nat /\ part.content \in Seq(Nat) /\ Len(part.content) \in Nat
      /\ Cut(part.size, part.content) \in Seq(Nat)
      /\ Len(Cut(part.size, part.content)) =
           IF part.size < Len(part.content) THEN part.size ELSE Len(part.content)
      /\ Len(part.content) <= part.size => Cut(part.size, part.content) = part.content
  BY CutIs DEF IsPart
<1>1. ASSUME NEW form \in ToBytes(part) \union Serialize(part) PROVE IsFormOf(form, part)
  <2>1. HoldsItsSize(part)
    BY <1>1 DEF ToBytes, Serialize
  <2>2. part.content = Cut(part.size, part.content)
    BY <1>p, <2>1 DEF HoldsItsSize
  <2> QED
    BY <1>1, <2>1, <2>2, SerializedIsForm
<1>2. IsFormOf(WriteTo(part), part)
  <2>1. WriteTo(part) = [form |-> "binary", declares |-> {part.size},
                         attributes |-> part.attributes, content |-> Cut(part.size, part.content)]
    BY DEF WriteTo, Serialized
  <2> QED
    BY <1>p, <2>1 DEF IsFormOf
<1>3. ASSUME NEW form \in SerializeStreaming(part) PROVE IsFormOf(form, part)
  <2>1. PICK memory \in IntoMemory(part) : form = Serialized("json", memory, memory.content)
    BY <1>3 DEF SerializeStreaming
  <2>2. /\ memory = FromParts(part.size, part.attributes, Cut(part.size, part.content))
        /\ part.size <= Len(part.content)
    BY <1>p, <2>1 DEF IntoMemory
  <2>3. form = [form |-> "json", declares |-> {part.size},
                attributes |-> part.attributes, content |-> Cut(part.size, part.content)]
    BY <2>1, <2>2 DEF Serialized, FromParts
  <2>4. Len(Cut(part.size, part.content)) = part.size
    BY <1>p, <2>2
  <2> QED
    BY <1>p, <2>3, <2>4 DEF IsFormOf
<1> QED
  BY <1>1, <1>2, <1>3

\* Whatever a reader makes of a form is the part, and holds its size; what it
\* makes nothing of is short, or has something behind it.
LEMMA ReadAsSent ==
  ASSUME NEW part, IsPart(part), NEW form, IsFormOf(form, part)
  PROVE  /\ form.form = "binary" =>
              /\ form.declares = {part.size} /\ form.content \in Seq(Nat)
              /\ \A f \in FromBytes(form) \union FromReader(form) : f = AsSent(part) /\ HoldsItsSize(f)
              /\ FromReader(form) = {} => Len(form.content) < part.size
              /\ FromBytes(form) = {} => Len(form.content) # part.size
         /\ form.form = "json" =>
              \A f \in Deserialize(form) : f = AsSent(part) /\ HoldsItsSize(f)
<1> DEFINE content == Cut(part.size, part.content)
<1>p. /\ part.size \in Nat /\ content \in Seq(Nat) /\ Len(content) \in Nat /\ Len(content) <= part.size
      /\ form.content \in Seq(Nat) /\ Len(form.content) \in Nat
  <2>1. part.size \in Nat /\ part.content \in Seq(Nat) /\ Len(part.content) \in Nat
    BY DEF IsPart
  <2>2. /\ content \in Seq(Nat)
        /\ Len(content) = IF part.size < Len(part.content) THEN part.size ELSE Len(part.content)
    BY <2>1, CutIs
  <2>3. form.content \in Seq(Nat)
    BY DEF IsFormOf
  <2> HIDE DEF content
  <2> QED
    BY <2>1, <2>2, <2>3
<1>f. /\ form.form \in {"binary", "json"} /\ form.attributes = part.attributes
      /\ \/ form.declares = {part.size}
         \/ form.form = "json" /\ form.declares = {} /\ form.content = content
      /\ \/ form.content = content
         \/ Len(content) = part.size /\ form.content = Append(content, 0)
         \/ Len(form.content) < part.size
      /\ form.form = "json" /\ form.content = content => Len(content) = part.size
  BY DEF IsFormOf
<1>a. /\ Cut(Len(content), Append(content, 0)) = content
      /\ Len(Append(content, 0)) = Len(content) + 1
  BY <1>p, CutTheRest
<1>c. part.size <= Len(content) => Cut(part.size, content) = content
  BY <1>p, CutIs
<1>s. AsSent(part) = FromParts(part.size, part.attributes, content)
  BY DEF AsSent
<1>w. AsSent(part).size = part.size /\ AsSent(part).content = content
  BY <1>s DEF FromParts
<1> HIDE DEF content
<1>1. Len(form.content) = part.size => form.content = content
  BY <1>p, <1>f, <1>a
<1>2. part.size <= Len(form.content) => Cut(part.size, form.content) = content /\ Len(content) = part.size
  <2>1. CASE form.content = content
    BY <2>1, <1>p, <1>c
  <2>2. CASE Len(content) = part.size /\ form.content = Append(content, 0)
    BY <2>2, <1>a
  <2>3. CASE Len(form.content) < part.size
    BY <2>3, <1>p
  <2> QED
    BY <1>f, <2>1, <2>2, <2>3
<1>3. ASSUME form.form = "binary"
      PROVE  /\ form.declares = {part.size}
             /\ \A f \in FromBytes(form) \union FromReader(form) : f = AsSent(part) /\ HoldsItsSize(f)
             /\ FromReader(form) = {} => Len(form.content) < part.size
             /\ FromBytes(form) = {} => Len(form.content) # part.size
  <2>1. form.declares = {part.size}
    BY <1>3, <1>f
  <2>2. ASSUME NEW f \in FromBytes(form) PROVE f = AsSent(part) /\ HoldsItsSize(f)
    <3>1. part.size = Len(form.content) /\ f = FromParts(part.size, form.attributes, form.content)
      BY <2>1, <2>2 DEF FromBytes
    <3>2. f = AsSent(part)
      BY <1>1, <1>f, <1>s, <3>1
    <3> QED
      BY <1>1, <1>w, <3>1, <3>2 DEF HoldsItsSize
  <2> DEFINE whole == FromParts(part.size, form.attributes, form.content)
  <2>w. whole.size = part.size /\ whole.content = form.content /\ whole.attributes = form.attributes
    BY DEF FromParts
  <2>3. FromReader(form) = IntoMemory(whole)
    BY <2>1 DEF FromReader
  <2> HIDE DEF whole
  <2>4. ASSUME NEW f \in FromReader(form) PROVE f = AsSent(part) /\ HoldsItsSize(f)
    <3>1. /\ part.size <= Len(form.content)
          /\ f = FromParts(part.size, form.attributes, Cut(part.size, form.content))
      BY <1>p, <2>3, <2>4, <2>w DEF IntoMemory
    <3>2. f = AsSent(part)
      BY <1>2, <1>f, <1>s, <3>1
    <3> QED
      BY <1>2, <1>w, <3>1, <3>2 DEF HoldsItsSize
  <2>5. part.size <= Len(form.content) => FromReader(form) # {}
    <3>1. part.size <= Len(form.content) => part.size \in {part.size} \intersect 0 .. Len(form.content)
      BY <1>p
    <3> QED
      BY <2>3, <2>w, <3>1 DEF IntoMemory
  <2>6. part.size = Len(form.content) => FromBytes(form) # {}
    BY <2>1 DEF FromBytes
  <2>7. FromReader(form) = {} => Len(form.content) < part.size
    BY <1>p, <2>5
  <2> QED
    BY <2>1, <2>2, <2>4, <2>6, <2>7
<1>4. ASSUME form.form = "json", NEW f \in Deserialize(form)
      PROVE  f = AsSent(part) /\ HoldsItsSize(f)
  <2>1. /\ f = FromParts(Len(form.content), form.attributes, form.content)
        /\ form.declares \subseteq {Len(form.content)}
    BY <1>4 DEF Deserialize, Build, FromParts
  <2>2. form.content = content /\ Len(content) = part.size
    BY <1>1, <1>4, <1>f, <2>1
  <2> QED
    BY <1>f, <1>s, <1>w, <2>1, <2>2 DEF HoldsItsSize
<1> QED
  BY <1>3, <1>4, <1>p

(***************************************************************************)
(* What a step does to the parts, their forms and what arrived             *)
(***************************************************************************)

\* A step that leaves the split and the bin alone.
Same == UNCHANGED fragmentsVars /\ UNCHANGED binVars

\* A step of the split: every part made before has been sent.
MakesParts == FragmentsNext /\ Len(sent) = Len(parts) /\ UNCHANGED <<sent, arrived, binVars>>

\* The next part is sent, or cannot be.
SendsOne ==
  /\ Len(sent) < Len(parts)
  /\ arrived' = Append(arrived, {})
  /\ \E forms : /\ sent' = Append(sent, forms)
                /\ \A form \in forms : IsFormOf(form, parts[Len(sent) + 1])
  /\ stage' \in {stage, "panicked"}
  /\ UNCHANGED <<setVars, count, index, parts, rest, binVars>>

\* One that is on its way is damaged or converted.
RewritesOne ==
  /\ \E i \in DOMAIN sent : \E forms :
       /\ sent[i] # {} /\ sent' = [sent EXCEPT ![i] = forms]
       /\ \A form \in forms : IsFormOf(form, parts[i])
  /\ arrived' = arrived /\ Same

\* One arrives, or is refused.
TakesOne ==
  /\ \E i \in DOMAIN sent : \E flowFiles :
       /\ sent[i] # {} /\ sent' = [sent EXCEPT ![i] = {}]
       /\ arrived' = [arrived EXCEPT ![i] = flowFiles]
       /\ \A f \in flowFiles : f = AsSent(parts[i]) /\ HoldsItsSize(f)
  /\ Same

\* Anything else changes no part, and the bin only by merging it.
LeavesAll == UNCHANGED <<fragmentsVars, sent, arrived>> /\ (merged' = merged \/ Merge)

\* All of it together.
InHand == Aligned /\ PartsOK /\ FormsOK

\* What is sent is a form of the next part, or nothing.
LEMMA SendShape ==
  ASSUME InHand, Send
  PROVE  SendsOne
<1> DEFINE part == parts[Len(sent) + 1]
<1>1. Len(sent) < Len(parts) /\ arrived' = Append(arrived, {})
  BY DEF Send, SendFromMemory, SendFromReader
<1>2. Len(sent) + 1 \in DOMAIN parts
  BY <1>1 DEF InHand, Aligned, IsList
<1>3. IsPart(part)
  BY <1>2 DEF InHand, PartsOK
<1> HIDE DEF part
<1>4. \A form \in ToBytes(part) \union Serialize(part) \union {WriteTo(part)}
                    \union SerializeStreaming(part) : IsFormOf(form, part)
  BY <1>3, SentIsForm
<1>5. CASE SendFromMemory
  <2> DEFINE forms == IF sender = "bytes" THEN ToBytes(part) ELSE Serialize(part)
  <2>1. /\ \/ sent' = Append(sent, {}) /\ stage' = "panicked"
           \/ stage' = stage /\ \E form \in forms : sent' = Append(sent, {form})
        /\ UNCHANGED <<setVars, count, index, parts, rest, binVars>>
    BY <1>5 DEF SendFromMemory, Goes, Fails, part
  <2>2. \A form \in forms : IsFormOf(form, part)
    BY <1>4
  <2> HIDE DEF forms
  <2>3. \E some : sent' = Append(sent, some) /\ \A form \in some : IsFormOf(form, part)
    <3>1. CASE sent' = Append(sent, {})
      <4> DEFINE none == {}
      <4>1. sent' = Append(sent, none) /\ \A form \in none : IsFormOf(form, part)
        BY <3>1
      <4> HIDE DEF none
      <4> QED
        BY <4>1
    <3>2. CASE \E form \in forms : sent' = Append(sent, {form})
      <4>1. PICK form \in forms : sent' = Append(sent, {form})
        BY <3>2
      <4> DEFINE only == {form}
      <4>2. sent' = Append(sent, only) /\ \A one \in only : IsFormOf(one, part)
        BY <2>2, <4>1
      <4> HIDE DEF only
      <4> QED
        BY <4>2
    <3> QED
      BY <2>1, <3>1, <3>2
  <2> QED
    BY <1>1, <2>1, <2>3 DEF SendsOne, part
<1>6. CASE SendFromReader
  <2> DEFINE forms == IF sender = "write" THEN {WriteTo(part)} ELSE SerializeStreaming(part)
  <2>1. /\ \/ sent' = Append(sent, {})
           \/ \E form \in forms : sent' = Append(sent, {form})
        /\ UNCHANGED <<fragmentsVars, binVars>>
    BY <1>6 DEF SendFromReader, Goes, Fails, part
  <2>2. \A form \in forms : IsFormOf(form, part)
    BY <1>4
  <2> HIDE DEF forms
  <2>3. \E some : sent' = Append(sent, some) /\ \A form \in some : IsFormOf(form, part)
    <3>1. CASE sent' = Append(sent, {})
      <4> DEFINE none == {}
      <4>1. sent' = Append(sent, none) /\ \A form \in none : IsFormOf(form, part)
        BY <3>1
      <4> HIDE DEF none
      <4> QED
        BY <4>1
    <3>2. CASE \E form \in forms : sent' = Append(sent, {form})
      <4>1. PICK form \in forms : sent' = Append(sent, {form})
        BY <3>2
      <4> DEFINE only == {form}
      <4>2. sent' = Append(sent, only) /\ \A one \in only : IsFormOf(one, part)
        BY <2>2, <4>1
      <4> HIDE DEF only
      <4> QED
        BY <4>2
    <3> QED
      BY <2>1, <3>1, <3>2
  <2> QED
    BY <1>1, <2>1, <2>3 DEF SendsOne, part, fragmentsVars
<1> QED
  BY <1>5, <1>6 DEF Send

\* What is under way is a form of its part.
LEMMA UnderWayIsForm ==
  ASSUME InHand, NEW i \in Transit
  PROVE  /\ i \in DOMAIN sent /\ i \in DOMAIN parts /\ sent[i] # {} /\ IsPart(parts[i])
         /\ \A form \in sent[i] : IsFormOf(form, parts[i])
<1>1. i \in DOMAIN sent /\ sent[i] # {}
  BY DEF Transit
<1>2. DOMAIN sent = 1 .. Len(sent) /\ DOMAIN parts = 1 .. Len(parts) /\ Len(sent) <= Len(parts)
      /\ Len(sent) \in Nat /\ Len(parts) \in Nat
  BY DEF InHand, Aligned, IsList
<1>3. i \in DOMAIN parts
  BY <1>1, <1>2
<1> QED
  BY <1>1, <1>3 DEF InHand, PartsOK, FormsOK

\* Damage leaves a form of the part.
LEMMA DamageShape ==
  ASSUME InHand, Damage
  PROVE  RewritesOne
<1>1. PICK i \in UnderWay : \E form \in sent[i] : \E damaged \in Damaged(form) :
        /\ form.declares # {} /\ form.content = Cut(parts[i].size, parts[i].content)
        /\ sent' = [sent EXCEPT ![i] = {damaged}]
  BY DEF Damage
<1>f. PICK form \in sent[i] : \E damaged \in Damaged(form) :
        /\ form.declares # {} /\ form.content = Cut(parts[i].size, parts[i].content)
        /\ sent' = [sent EXCEPT ![i] = {damaged}]
  BY <1>1
<1>2. PICK damaged \in Damaged(form) :
        /\ form.declares # {} /\ form.content = Cut(parts[i].size, parts[i].content)
        /\ sent' = [sent EXCEPT ![i] = {damaged}]
  BY <1>f
<1>3. i \in Transit
  BY DEF UnderWay
<1>4. /\ i \in DOMAIN sent /\ sent[i] # {} /\ IsPart(parts[i])
      /\ IsFormOf(form, parts[i])
  BY <1>3, UnderWayIsForm
<1> DEFINE part == parts[i]
           content == Cut(part.size, part.content)
<1>p. /\ part.size \in Nat /\ content \in Seq(Nat) /\ Len(content) \in Nat /\ Len(content) <= part.size
  <2>1. part.size \in Nat /\ part.content \in Seq(Nat) /\ Len(part.content) \in Nat
    BY <1>4 DEF IsPart
  <2>2. /\ content \in Seq(Nat)
        /\ Len(content) = IF part.size < Len(part.content) THEN part.size ELSE Len(part.content)
    BY <2>1, CutIs
  <2> HIDE DEF content
  <2> QED
    BY <2>1, <2>2
<1>5. /\ form = [form |-> form.form, declares |-> form.declares,
                 attributes |-> form.attributes, content |-> form.content]
      /\ form.form \in {"binary", "json"} /\ form.attributes = part.attributes
      /\ form.declares = {part.size}
      /\ form.content = content
      /\ form.form = "json" => Len(content) = part.size
  BY <1>2, <1>4 DEF IsFormOf
<1> HIDE DEF content, part
<1>6. \/ damaged = [form EXCEPT !.content = Append(@, 0)] /\ Len(content) >= part.size
      \/ \E n \in 0 .. Len(content) - 1 : damaged = [form EXCEPT !.content = Cut(n, @)]
      \/ damaged = [form EXCEPT !.declares = {}] /\ form.form = "json"
  BY <1>5 DEF Damaged
<1>7. IsFormOf(damaged, part)
  <2>1. CASE damaged = [form EXCEPT !.content = Append(@, 0)] /\ Len(content) >= part.size
    <3>1. damaged = [form |-> form.form, declares |-> {part.size},
                     attributes |-> part.attributes, content |-> Append(content, 0)]
      BY <1>5, <2>1
    <3>2. Len(content) = part.size
      BY <1>p, <2>1
    <3>3. Append(content, 0) \in Seq(Nat) /\ Len(Append(content, 0)) = Len(content) + 1
      BY <1>p, CutTheRest
    <3>4. Append(content, 0) # content
      BY <1>p, <3>3
    <3> QED
      BY <1>5, <3>1, <3>2, <3>3, <3>4 DEF IsFormOf, content
  <2>2. CASE \E n \in 0 .. Len(content) - 1 : damaged = [form EXCEPT !.content = Cut(n, @)]
    <3>1. PICK n \in 0 .. Len(content) - 1 : damaged = [form EXCEPT !.content = Cut(n, @)]
      BY <2>2
    <3>2. damaged = [form |-> form.form, declares |-> {part.size},
                     attributes |-> part.attributes, content |-> Cut(n, content)]
      BY <1>5, <3>1
    <3>3. n \in Nat /\ n < Len(content)
      BY <1>p
    <3>4. Cut(n, content) \in Seq(Nat) /\ Len(Cut(n, content)) = n
      BY <1>p, <3>3, CutIs
    <3>5. Len(Cut(n, content)) < part.size /\ Cut(n, content) # content
      BY <1>p, <3>3, <3>4
    <3> QED
      BY <1>5, <3>2, <3>4, <3>5 DEF IsFormOf, content
  <2>3. CASE damaged = [form EXCEPT !.declares = {}] /\ form.form = "json"
    <3>1. damaged = [form |-> "json", declares |-> {},
                     attributes |-> part.attributes, content |-> content]
      BY <1>5, <2>3
    <3> QED
      BY <1>p, <1>5, <2>3, <3>1 DEF IsFormOf, content
  <2> QED
    BY <1>6, <2>1, <2>2, <2>3
<1>8. \E forms : /\ sent[i] # {} /\ sent' = [sent EXCEPT ![i] = forms]
                 /\ \A one \in forms : IsFormOf(one, parts[i])
  <2> DEFINE only == {damaged}
  <2>1. /\ sent[i] # {} /\ sent' = [sent EXCEPT ![i] = only]
        /\ \A one \in only : IsFormOf(one, parts[i])
    BY <1>2, <1>4, <1>7 DEF part
  <2> HIDE DEF only
  <2> QED
    BY <2>1
<1>9. arrived' = arrived /\ Same
  BY DEF Damage, Same
<1> QED
  BY <1>4, <1>8, <1>9 DEF RewritesOne

\* to-json and from-json make another form of the part, or lose it.
LEMMA ConvertedShape ==
  ASSUME InHand, ToJson \/ FromJson
  PROVE  RewritesOne \/ LeavesAll
<1>1. arrived' = arrived /\ Same /\ merged' = merged
  BY DEF ToJson, FromJson, Same, binVars
<1>2. CASE sent' = sent
  BY <1>1, <1>2 DEF LeavesAll, Same
<1>3. ASSUME sent' # sent PROVE RewritesOne
  <2>1. PICK i \in UnderWay : \E form \in sent[i] :
          \/ /\ form.form = "binary"
             /\ sent' = [sent EXCEPT ![i] = UNION {Serialize(f) : f \in FromReader(form)}]
          \/ /\ form.form = "json"
             /\ sent' = [sent EXCEPT ![i] = UNION {ToBytes(f) : f \in Deserialize(form)}]
    <3>1. CASE ToJson
      BY <1>3, <3>1 DEF ToJson, Gone
    <3>2. CASE FromJson
      BY <1>3, <3>2 DEF FromJson, Gone
    <3> QED
      BY <3>1, <3>2
  <2>2. PICK form \in sent[i] :
          \/ /\ form.form = "binary"
             /\ sent' = [sent EXCEPT ![i] = UNION {Serialize(f) : f \in FromReader(form)}]
          \/ /\ form.form = "json"
             /\ sent' = [sent EXCEPT ![i] = UNION {ToBytes(f) : f \in Deserialize(form)}]
    BY <2>1
  <2>3. i \in Transit
    BY DEF UnderWay
  <2>4. /\ i \in DOMAIN sent /\ sent[i] # {} /\ IsPart(parts[i])
        /\ IsFormOf(form, parts[i])
    BY <2>3, UnderWayIsForm
  <2>5. ASSUME NEW f, f = AsSent(parts[i]), HoldsItsSize(f)
        PROVE  \A one \in ToBytes(f) \union Serialize(f) : IsFormOf(one, parts[i])
    <3>1. /\ f.size = parts[i].size /\ f.attributes = parts[i].attributes
          /\ f.content = Cut(parts[i].size, parts[i].content)
      BY <2>5 DEF AsSent, FromParts
    <3> QED
      BY <2>4, <2>5, <3>1, SerializedIsForm
  <2>6. /\ form.form = "binary" => \A f \in FromReader(form) : f = AsSent(parts[i]) /\ HoldsItsSize(f)
        /\ form.form = "json" => \A f \in Deserialize(form) : f = AsSent(parts[i]) /\ HoldsItsSize(f)
    BY <2>4, ReadAsSent
  <2>7. \E forms : sent' = [sent EXCEPT ![i] = forms] /\ \A one \in forms : IsFormOf(one, parts[i])
    <3>1. CASE /\ form.form = "binary"
               /\ sent' = [sent EXCEPT ![i] = UNION {Serialize(f) : f \in FromReader(form)}]
      <4>1. \A one \in UNION {Serialize(f) : f \in FromReader(form)} : IsFormOf(one, parts[i])
        BY <2>5, <2>6, <3>1
      <4> QED
        BY <3>1, <4>1
    <3>2. CASE /\ form.form = "json"
               /\ sent' = [sent EXCEPT ![i] = UNION {ToBytes(f) : f \in Deserialize(form)}]
      <4>1. \A one \in UNION {ToBytes(f) : f \in Deserialize(form)} : IsFormOf(one, parts[i])
        BY <2>5, <2>6, <3>2
      <4> QED
        BY <3>2, <4>1
    <3> QED
      BY <2>2, <3>1, <3>2
  <2> QED
    BY <1>1, <2>4, <2>7 DEF RewritesOne
<1> QED
  BY <1>2, <1>3

\* A reader takes the part as it was sent, or nothing.
LEMMA ArriveShape ==
  ASSUME InHand, Arrive
  PROVE  TakesOne
<1>0. PICK i \in Transit : \E form \in sent[i] : \E flowFiles :
        /\ Accepts(i, flowFiles)
        /\ \/ form.form = "binary" /\ flowFiles \in {FromBytes(form), FromReader(form)}
           \/ form.form = "json" /\ flowFiles = Deserialize(form)
  <2>1. CASE ArriveWhole
    BY <2>1 DEF ArriveWhole
  <2>2. CASE ArriveStreamed
    BY <2>2 DEF ArriveStreamed
  <2>3. CASE ArriveJson
    BY <2>3 DEF ArriveJson
  <2> QED
    BY <2>1, <2>2, <2>3 DEF Arrive
<1>1. PICK form \in sent[i] : \E flowFiles :
        /\ Accepts(i, flowFiles)
        /\ \/ form.form = "binary" /\ flowFiles \in {FromBytes(form), FromReader(form)}
           \/ form.form = "json" /\ flowFiles = Deserialize(form)
  BY <1>0
<1>2. PICK flowFiles :
        /\ Accepts(i, flowFiles)
        /\ \/ form.form = "binary" /\ flowFiles \in {FromBytes(form), FromReader(form)}
           \/ form.form = "json" /\ flowFiles = Deserialize(form)
  BY <1>1
<1>3. /\ i \in DOMAIN sent /\ sent[i] # {} /\ IsPart(parts[i])
      /\ IsFormOf(form, parts[i])
  BY UnderWayIsForm
<1>4. \A f \in flowFiles : f = AsSent(parts[i]) /\ HoldsItsSize(f)
  BY <1>2, <1>3, ReadAsSent
<1>5. sent' = [sent EXCEPT ![i] = {}] /\ arrived' = [arrived EXCEPT ![i] = flowFiles]
  BY <1>2 DEF Accepts
<1>6. Same
  BY DEF Arrive, ArriveWhole, ArriveStreamed, ArriveJson, Same
<1> QED
  BY <1>3, <1>4, <1>5, <1>6 DEF TakesOne

\* Every step is one of five.
LEMMA Shape ==
  ASSUME InHand, [Next]_vars
  PROVE  MakesParts \/ SendsOne \/ RewritesOne \/ TakesOne \/ LeavesAll
<1>1. CASE Split
  BY <1>1 DEF Split, MakesParts, transitVars
<1>2. CASE Merge
  BY <1>2 DEF Merge, LeavesAll, transitVars
<1>3. CASE TimesOut
  BY <1>3 DEF TimesOut, LeavesAll, transitVars
<1>4. CASE UNCHANGED vars
  BY <1>4 DEF vars, LeavesAll, transitVars, binVars
<1> QED
  BY <1>1, <1>2, <1>3, <1>4, SendShape, DamageShape, ConvertedShape, ArriveShape DEF Next

(***************************************************************************)
(* Every part is in hand, on its way, or has arrived as it was sent        *)
(***************************************************************************)

\* A sequence of some set is one of what is in it.
LEMMA ListIs ==
  ASSUME NEW S, NEW list \in Seq(S)
  PROVE  IsList(list)
<1> DEFINE Here == {list[i] : i \in DOMAIN list}
<1>1. Len(list) \in Nat /\ DOMAIN list = 1 .. Len(list) /\ list = [i \in 1 .. Len(list) |-> list[i]]
  BY LenProperties
<1>2. \A i \in 1 .. Len(list) : list[i] \in Here
  BY <1>1
<1> HIDE DEF Here
<1>3. list \in [1 .. Len(list) -> Here]
  BY <1>1, <1>2
<1>4. list \in Seq(Here)
  BY <1>1, <1>3, SeqDef
<1> QED
  BY <1>4 DEF IsList, Here

\* Such a sequence has a length, and places up to it.
LEMMA ListHas ==
  ASSUME NEW list, IsList(list)
  PROVE  Len(list) \in Nat /\ DOMAIN list = 1 .. Len(list)
BY DEF IsList

\* AppendOne, in these words.
LEMMA LongerList ==
  ASSUME NEW list, IsList(list), NEW value
  PROVE  /\ IsList(Append(list, value)) /\ Len(Append(list, value)) = Len(list) + 1
         /\ DOMAIN Append(list, value) = 1 .. Len(list) + 1
         /\ Append(list, value)[Len(list) + 1] = value
         /\ \A i \in DOMAIN list : Append(list, value)[i] = list[i]
<1> DEFINE other == Append(list, value)
<1>1. other = Append(list, value)
  OBVIOUS
<1> HIDE DEF other
<1>2. /\ IsList(other) /\ Len(other) = Len(list) + 1
      /\ DOMAIN other = 1 .. Len(list) + 1
      /\ other[Len(other)] = value
      /\ \A i \in DOMAIN list : other[i] = list[i]
  BY <1>1, AppendOne DEF IsList
<1> QED
  BY <1>2 DEF other

\* Another value in its place keeps a sequence one.
LEMMA ReplaceOne ==
  ASSUME NEW list, IsList(list), NEW i \in DOMAIN list, NEW value
  PROVE  /\ IsList([list EXCEPT ![i] = value]) /\ Len([list EXCEPT ![i] = value]) = Len(list)
         /\ DOMAIN [list EXCEPT ![i] = value] = DOMAIN list
         /\ [list EXCEPT ![i] = value][i] = value
         /\ \A j \in DOMAIN list : j # i => [list EXCEPT ![i] = value][j] = list[j]
<1> DEFINE All == {list[j] : j \in DOMAIN list} \union {value}
           other == [list EXCEPT ![i] = value]
<1>1. list \in Seq(All)
  BY DEF IsList
<1>2. Len(list) \in Nat /\ DOMAIN list = 1 .. Len(list)
  BY <1>1
<1> HIDE DEF All
<1>3. value \in All
  BY DEF All
<1>4. /\ other \in Seq(All) /\ Len(other) = Len(list)
  BY <1>1, <1>2, <1>3, ExceptSeq
<1>5. DOMAIN other = DOMAIN list
  OBVIOUS
<1>6. other[i] = value /\ \A j \in DOMAIN list : j # i => other[j] = list[j]
  OBVIOUS
<1> HIDE DEF other
<1>7. IsList(other)
  BY <1>4, ListIs
<1> QED
  BY <1>4, <1>5, <1>6, <1>7 DEF other

\* However it is made, a flow file is what it was made of.
LEMMA MadeIs ==
  ASSUME NEW attributesOf, NEW content, NEW size,
         NEW flowFile \in Made(attributesOf, content, size)
  PROVE  flowFile = FromParts(size, attributesOf, content)
<1>1. Reader(attributesOf, content, size) = FromParts(size, attributesOf, content)
  BY DEF Reader
<1>2. Build(attributesOf, content).size = size
         => Build(attributesOf, content) = FromParts(size, attributesOf, content)
  BY DEF Build, FromParts
<1>3. MapContentSized(Build(attributesOf, <<>>), content, size) = FromParts(size, attributesOf, content)
  <2>1. Build(attributesOf, <<>>)
          = [size |-> Len(<<>>), attributes |-> attributesOf, content |-> <<>>]
    BY DEF Build, FromParts
  <2>2. MapContent(Build(attributesOf, <<>>), content)
          = [size |-> Len(<<>>), attributes |-> attributesOf, content |-> content]
    BY <2>1 DEF MapContent
  <2>3. MapContentSized(Build(attributesOf, <<>>), content, size)
          = [size |-> size, attributes |-> attributesOf, content |-> content]
    BY <2>2 DEF MapContentSized, WithSize
  <2> QED
    BY <2>3 DEF FromParts
<1> QED
  BY <1>1, <1>2, <1>3 DEF Made

\* What is cut off, and what is left of the rest.
LEMMA CutOffIs ==
  ASSUME IInv, PartsOK, NextPart, ~Panics
  PROVE  \E size, held \in 0 .. Len(rest) :
           /\ parts' = Append(parts, FromParts(size, With(Part(index', count), "filename", "part"),
                                               SubSeq(rest, 1, held)))
           /\ rest' = SubSeq(rest, size + 1, Len(rest))
           /\ stage' = stage
<1>1. PICK size, held \in 0 .. Len(rest) : CutOff(size, held)
  BY DEF NextPart
<1>2. stage' = stage
  BY DEF NextPart
<1> DEFINE own == With(Part(index', count), "filename", "part")
<1>3. PICK flowFile \in Made(own, SubSeq(rest, 1, held), size) : parts' = Append(parts, flowFile)
  BY <1>1 DEF CutOff
<1> HIDE DEF own
<1>4. flowFile = FromParts(size, own, SubSeq(rest, 1, held))
  BY <1>3, MadeIs
<1>5. rest' = SubSeq(rest, size + 1, Len(rest))
  BY <1>1 DEF CutOff
<1> QED
  BY <1>2, <1>3, <1>4, <1>5 DEF own

\* A piece of a sequence of bytes is one.
LEMMA PieceIs ==
  ASSUME NEW s \in Seq(Nat), NEW m \in 1 .. Len(s) + 1, NEW n \in 0 .. Len(s)
  PROVE  SubSeq(s, m, n) \in Seq(Nat) /\ Len(SubSeq(s, m, n)) = IF m <= n THEN n - m + 1 ELSE 0
<1>1. Len(s) \in Nat /\ m \in Int /\ n \in Int /\ \A i \in m .. n : s[i] \in Nat
  OBVIOUS
<1> QED
  BY <1>1, SubSeqProperties

\* A split goes on where it was: it adds a part, or changes none.
LEMMA PartsGrow ==
  ASSUME IInv, PartsOK, FragmentsNext
  PROVE  /\ PartsOK'
         /\ parts' = parts \/ \E part : parts' = Append(parts, part)
<1>l. IsList(parts)
  BY DEF IInv, Counted, IsList
<1>r. rest \in Seq(Nat) /\ Len(rest) \in Nat /\ \A i \in DOMAIN parts : IsPart(parts[i])
  BY DEF PartsOK
<1>1. CASE parts' = parts /\ rest' = rest
  BY <1>r, <1>1 DEF PartsOK
<1>2. CASE NextPart /\ ~Panics
  <2>1. PICK size, held \in 0 .. Len(rest) :
          /\ parts' = Append(parts, FromParts(size, With(Part(index', count), "filename", "part"),
                                              SubSeq(rest, 1, held)))
          /\ rest' = SubSeq(rest, size + 1, Len(rest))
    BY <1>2, CutOffIs
  <2> DEFINE part == FromParts(size, With(Part(index', count), "filename", "part"), SubSeq(rest, 1, held))
  <2>2. part.size = size /\ part.content = SubSeq(rest, 1, held) /\ parts' = Append(parts, part)
    BY <2>1 DEF FromParts
  <2> HIDE DEF part
  <2>3. 1 \in 1 .. Len(rest) + 1 /\ size + 1 \in 1 .. Len(rest) + 1 /\ Len(rest) \in 0 .. Len(rest)
    BY <1>r
  <2>4. SubSeq(rest, 1, held) \in Seq(Nat) /\ rest' \in Seq(Nat)
    BY <1>r, <2>1, <2>3, PieceIs
  <2>5. IsPart(part)
    BY <2>2, <2>4 DEF IsPart
  <2>6. /\ DOMAIN parts' = 1 .. Len(parts) + 1 /\ DOMAIN parts = 1 .. Len(parts) /\ Len(parts) \in Nat
        /\ parts'[Len(parts) + 1] = part
        /\ \A i \in DOMAIN parts : parts'[i] = parts[i]
    BY <1>l, <2>2, AppendOne DEF IsList
  <2>7. \A i \in DOMAIN parts' : IsPart(parts'[i])
    BY <1>r, <2>5, <2>6
  <2> QED
    BY <2>2, <2>4, <2>7 DEF PartsOK, IsPart
<1>3. CASE Terminate /\ ~Panics
  <2> DEFINE part == Build(Part(index + 1, {index + 1}), <<>>)
  <2>1. parts' = Append(parts, part) /\ rest' = rest
    BY <1>3 DEF Terminate
  <2>2. IsPart(part)
    BY DEF Build, FromParts, IsPart
  <2> HIDE DEF part
  <2>6. /\ DOMAIN parts' = 1 .. Len(parts) + 1 /\ DOMAIN parts = 1 .. Len(parts) /\ Len(parts) \in Nat
        /\ parts'[Len(parts) + 1] = part
        /\ \A i \in DOMAIN parts : parts'[i] = parts[i]
    BY <1>l, <2>1, AppendOne DEF IsList
  <2>7. \A i \in DOMAIN parts' : IsPart(parts'[i])
    BY <1>r, <2>2, <2>6
  <2> QED
    BY <1>r, <2>1, <2>7 DEF PartsOK, IsPart
<1>4. CASE Panics
  BY <1>1, <1>4 DEF Panics
<1>5. CASE WithKeys \/ WithOneKey \/ Attribute \/ WithoutAttribute \/ WithOriginalFilename \/ WithCount \/ Stop
  BY <1>1, <1>5 DEF WithKeys, WithOneKey, Attribute, WithoutAttribute, WithOriginalFilename,
                    WithCount, Stop
<1> QED
  BY <1>2, <1>3, <1>4, <1>5 DEF FragmentsNext

\* A part more is no matter to those there are.
LEMMA OlderParts ==
  ASSUME IInv, PartsOK, FragmentsNext
  PROVE  /\ IsList(parts') /\ Len(parts) <= Len(parts')
         /\ \A i \in DOMAIN parts : i \in DOMAIN parts' /\ parts'[i] = parts[i]
<1>1. IsList(parts) /\ Len(parts) \in Nat
  BY DEF IInv, Counted, IsList
<1>2. CASE parts' = parts
  BY <1>1, <1>2
<1>3. CASE \E part : parts' = Append(parts, part)
  <2>1. PICK part : parts' = Append(parts, part)
    BY <1>3
  <2> QED
    BY <1>1, <2>1, AppendOne DEF IsList
<1> QED
  BY <1>2, <1>3, PartsGrow

\* The invariant of the split is kept by its own steps, and no other
\* touches what it is about.
LEMMA FragmentsKept ==
  ASSUME IInv, MakesParts \/ SendsOne \/ RewritesOne \/ TakesOne \/ LeavesAll
  PROVE  IInv'
<1>1. CASE MakesParts
  BY <1>1, StepPreserves DEF MakesParts
<1>2. CASE SendsOne
  <2>1. /\ parts' = parts /\ keys' = keys /\ original' = original /\ count' = count
        /\ index' = index /\ stage' \in {stage, "panicked"}
    BY <1>2 DEF SendsOne, setVars
  <2>2. KeysOK' /\ Counted' /\ Numbered' /\ DeclaresTheSet'
    BY <2>1 DEF IInv, KeysOK, Counted, Numbered, DeclaresTheSet
  <2>3. NothingInherited'
    BY <2>1 DEF IInv, NothingInherited, AllKeys
  <2> QED
    BY <2>2, <2>3 DEF IInv
<1>3. CASE UNCHANGED fragmentsVars
  BY <1>3, StepPreserves
<1> QED
  BY <1>1, <1>2, <1>3 DEF RewritesOne, TakesOne, LeavesAll, Same

\* What is on its way stays a form of its part, and what arrives is the part.
LEMMA InHandKept ==
  ASSUME IInv, InHand, ArrivesAsSent, MakesParts \/ SendsOne \/ RewritesOne \/ TakesOne \/ LeavesAll
  PROVE  InHand' /\ ArrivesAsSent'
<1>a. /\ IsList(parts) /\ IsList(sent) /\ IsList(arrived)
      /\ Len(parts) \in Nat /\ Len(sent) \in Nat /\ Len(arrived) = Len(sent) /\ Len(sent) <= Len(parts)
      /\ DOMAIN parts = 1 .. Len(parts) /\ DOMAIN sent = 1 .. Len(sent) /\ DOMAIN arrived = 1 .. Len(sent)
      /\ \A i \in DOMAIN sent : sent[i] = {} \/ arrived[i] = {}
      /\ \A i \in DOMAIN sent : i \in DOMAIN parts
  <2>1. /\ IsList(parts) /\ IsList(sent) /\ IsList(arrived)
        /\ Len(arrived) = Len(sent) /\ Len(sent) <= Len(parts)
        /\ \A i \in DOMAIN sent : sent[i] = {} \/ arrived[i] = {}
    BY DEF InHand, Aligned
  <2>2. /\ Len(parts) \in Nat /\ DOMAIN parts = 1 .. Len(parts)
        /\ Len(sent) \in Nat /\ DOMAIN sent = 1 .. Len(sent)
        /\ DOMAIN arrived = 1 .. Len(arrived)
    BY <2>1, ListHas
  <2>3. \A i \in DOMAIN sent : i \in DOMAIN parts
    BY <2>1, <2>2
  <2> QED
    BY <2>1, <2>2, <2>3
<1>b. \A i \in DOMAIN sent : \A form \in sent[i] : IsFormOf(form, parts[i])
  BY DEF InHand, FormsOK
<1>c. PartsOK
  BY DEF InHand
<1>d. \A i \in DOMAIN arrived : \A f \in arrived[i] : f = AsSent(parts[i]) /\ HoldsItsSize(f)
  BY DEF ArrivesAsSent, Bin, AsSent
<1> DEFINE Fine ==
      /\ \A i \in DOMAIN sent' : \A form \in sent'[i] : IsFormOf(form, parts'[i])
      /\ \A i \in DOMAIN arrived' : \A f \in arrived'[i] : f = AsSent(parts'[i]) /\ HoldsItsSize(f)
<1>e. Aligned' /\ PartsOK' /\ Fine => InHand' /\ ArrivesAsSent'
  <2>1. FormsOK' <=> \A i \in DOMAIN sent' : \A form \in sent'[i] : IsFormOf(form, parts'[i])
    BY DEF FormsOK, IsFormOf
  <2>2. ArrivesAsSent' <=> \A i \in Bin' : \A f \in arrived'[i] : f = AsSent(parts'[i]) /\ HoldsItsSize(f)
    BY DEF ArrivesAsSent, AsSent, HoldsItsSize
  <2>3. Bin' \subseteq DOMAIN arrived'
    BY DEF Bin
  <2> QED
    BY <2>1, <2>2, <2>3 DEF InHand
<1> HIDE DEF Fine
<1>1. CASE MakesParts
  <2>1. sent' = sent /\ arrived' = arrived /\ Len(sent) = Len(parts) /\ FragmentsNext
    BY <1>1 DEF MakesParts
  <2>2. /\ IsList(parts') /\ Len(parts) <= Len(parts')
        /\ \A i \in DOMAIN parts : i \in DOMAIN parts' /\ parts'[i] = parts[i]
    BY <1>c, <2>1, OlderParts
  <2>3. Aligned'
    BY <1>a, <2>1, <2>2 DEF Aligned, IsList
  <2>4. Fine
    BY <1>a, <1>b, <1>d, <2>1, <2>2 DEF Fine
  <2>5. PartsOK'
    BY <1>c, <2>1, PartsGrow
  <2> QED
    BY <1>e, <2>3, <2>4, <2>5
<1>2. CASE SendsOne
  <2>1. PICK forms : /\ sent' = Append(sent, forms)
                     /\ \A form \in forms : IsFormOf(form, parts[Len(sent) + 1])
    BY <1>2 DEF SendsOne
  <2>2. /\ arrived' = Append(arrived, {}) /\ parts' = parts /\ rest' = rest
        /\ Len(sent) < Len(parts)
    BY <1>2 DEF SendsOne
  <2>3. /\ IsList(sent') /\ Len(sent') = Len(sent) + 1 /\ DOMAIN sent' = 1 .. Len(sent) + 1
        /\ sent'[Len(sent) + 1] = forms
        /\ \A i \in DOMAIN sent : sent'[i] = sent[i]
    <3>1. IsList(sent)
      BY <1>a
    <3>2. /\ IsList(Append(sent, forms)) /\ Len(Append(sent, forms)) = Len(sent) + 1
          /\ DOMAIN Append(sent, forms) = 1 .. Len(sent) + 1
          /\ Append(sent, forms)[Len(sent) + 1] = forms
          /\ \A i \in DOMAIN sent : Append(sent, forms)[i] = sent[i]
      BY <3>1, LongerList
    <3> QED
      BY <2>1, <3>2, Zenon
  <2>4. /\ IsList(arrived') /\ Len(arrived') = Len(sent) + 1 /\ DOMAIN arrived' = 1 .. Len(sent) + 1
        /\ arrived'[Len(sent) + 1] = {}
        /\ \A i \in DOMAIN sent : arrived'[i] = arrived[i]
    <3>1. IsList(arrived)
      BY <1>a
    <3>2. /\ IsList(Append(arrived, {})) /\ Len(Append(arrived, {})) = Len(arrived) + 1
          /\ DOMAIN Append(arrived, {}) = 1 .. Len(arrived) + 1
          /\ Append(arrived, {})[Len(arrived) + 1] = {}
          /\ \A i \in DOMAIN arrived : Append(arrived, {})[i] = arrived[i]
      BY <3>1, LongerList
    <3>3. Len(arrived) = Len(sent) /\ DOMAIN arrived = DOMAIN sent
      BY <1>a
    <3> QED
      BY <2>2, <3>2, <3>3, Zenon
  <2>5. \A i \in DOMAIN sent' : i \in DOMAIN sent \/ i = Len(sent) + 1
    BY <1>a, <2>3
  <2>6. Aligned'
    <3>1. Len(arrived') = Len(sent') /\ Len(sent') <= Len(parts')
      BY <1>a, <2>2, <2>3, <2>4
    <3>2. \A i \in DOMAIN sent' : sent'[i] = {} \/ arrived'[i] = {}
      BY <1>a, <2>3, <2>4, <2>5
    <3>3. IsList(parts') /\ IsList(sent') /\ IsList(arrived')
      BY <1>a, <2>2, <2>3, <2>4
    <3> QED
      BY <3>1, <3>2, <3>3 DEF Aligned, IsList
  <2>7. Fine
    <3>1. DOMAIN arrived' = DOMAIN sent'
      BY <2>3, <2>4
    <3>2. \A i \in DOMAIN sent : i \in DOMAIN arrived
      BY <1>a
    <3> QED
      BY <1>b, <1>d, <2>1, <2>2, <2>3, <2>4, <2>5, <3>1, <3>2 DEF Fine
  <2>8. PartsOK'
    BY <1>c, <2>2 DEF PartsOK, IsPart
  <2> QED
    BY <1>e, <2>6, <2>7, <2>8
<1>3. CASE RewritesOne
  <2>1. PICK i \in DOMAIN sent : \E forms :
          /\ sent[i] # {} /\ sent' = [sent EXCEPT ![i] = forms]
          /\ \A form \in forms : IsFormOf(form, parts[i])
    BY <1>3 DEF RewritesOne
  <2>2. PICK forms :
          /\ sent[i] # {} /\ sent' = [sent EXCEPT ![i] = forms]
          /\ \A form \in forms : IsFormOf(form, parts[i])
    BY <2>1
  <2>3. arrived' = arrived /\ parts' = parts /\ rest' = rest
    BY <1>3 DEF RewritesOne, Same, fragmentsVars
  <2>4. /\ IsList(sent') /\ Len(sent') = Len(sent) /\ DOMAIN sent' = DOMAIN sent
        /\ sent'[i] = forms /\ \A j \in DOMAIN sent : j # i => sent'[j] = sent[j]
    <3>1. IsList(sent)
      BY <1>a
    <3>2. /\ IsList([sent EXCEPT ![i] = forms]) /\ Len([sent EXCEPT ![i] = forms]) = Len(sent)
          /\ DOMAIN [sent EXCEPT ![i] = forms] = DOMAIN sent
          /\ [sent EXCEPT ![i] = forms][i] = forms
          /\ \A j \in DOMAIN sent : j # i => [sent EXCEPT ![i] = forms][j] = sent[j]
      BY <3>1, ReplaceOne
    <3> QED
      BY <2>2, <3>2, Zenon
  <2>5. Aligned'
    <3>1. \A j \in DOMAIN sent' : sent'[j] = {} \/ arrived'[j] = {}
      BY <1>a, <2>2, <2>3, <2>4
    <3> QED
      BY <1>a, <2>3, <2>4, <3>1 DEF Aligned, IsList
  <2>6. Fine
    BY <1>b, <1>d, <2>2, <2>3, <2>4 DEF Fine
  <2>7. PartsOK'
    BY <1>c, <2>3 DEF PartsOK, IsPart
  <2> QED
    BY <1>e, <2>5, <2>6, <2>7
<1>4. CASE TakesOne
  <2>1. PICK i \in DOMAIN sent : \E flowFiles :
          /\ sent[i] # {} /\ sent' = [sent EXCEPT ![i] = {}]
          /\ arrived' = [arrived EXCEPT ![i] = flowFiles]
          /\ \A f \in flowFiles : f = AsSent(parts[i]) /\ HoldsItsSize(f)
    BY <1>4 DEF TakesOne
  <2>2. PICK flowFiles :
          /\ sent[i] # {} /\ sent' = [sent EXCEPT ![i] = {}]
          /\ arrived' = [arrived EXCEPT ![i] = flowFiles]
          /\ \A f \in flowFiles : f = AsSent(parts[i]) /\ HoldsItsSize(f)
    BY <2>1
  <2>3. parts' = parts /\ rest' = rest
    BY <1>4 DEF TakesOne, Same, fragmentsVars
  <2>4. /\ IsList(sent') /\ Len(sent') = Len(sent) /\ DOMAIN sent' = DOMAIN sent
        /\ sent'[i] = {} /\ \A j \in DOMAIN sent : j # i => sent'[j] = sent[j]
    <3>1. IsList(sent)
      BY <1>a
    <3>2. /\ IsList([sent EXCEPT ![i] = {}]) /\ Len([sent EXCEPT ![i] = {}]) = Len(sent)
          /\ DOMAIN [sent EXCEPT ![i] = {}] = DOMAIN sent
          /\ [sent EXCEPT ![i] = {}][i] = {}
          /\ \A j \in DOMAIN sent : j # i => [sent EXCEPT ![i] = {}][j] = sent[j]
      BY <3>1, ReplaceOne
    <3> QED
      BY <2>2, <3>2, Zenon
  <2>i. i \in DOMAIN arrived
    BY <1>a
  <2>5. /\ IsList(arrived') /\ Len(arrived') = Len(arrived) /\ DOMAIN arrived' = DOMAIN arrived
        /\ arrived'[i] = flowFiles /\ \A j \in DOMAIN arrived : j # i => arrived'[j] = arrived[j]
    <3>1. IsList(arrived)
      BY <1>a
    <3>2. /\ IsList([arrived EXCEPT ![i] = flowFiles]) /\ Len([arrived EXCEPT ![i] = flowFiles]) = Len(arrived)
          /\ DOMAIN [arrived EXCEPT ![i] = flowFiles] = DOMAIN arrived
          /\ [arrived EXCEPT ![i] = flowFiles][i] = flowFiles
          /\ \A j \in DOMAIN arrived : j # i => [arrived EXCEPT ![i] = flowFiles][j] = arrived[j]
      BY <2>i, <3>1, ReplaceOne
    <3> QED
      BY <2>2, <3>2, Zenon
  <2>6. Aligned'
    <3>1. \A j \in DOMAIN sent' : sent'[j] = {} \/ arrived'[j] = {}
      BY <1>a, <2>4, <2>5
    <3> QED
      BY <1>a, <2>3, <2>4, <2>5, <3>1 DEF Aligned, IsList
  <2>7. Fine
    BY <1>b, <1>d, <2>2, <2>3, <2>4, <2>5 DEF Fine
  <2>8. PartsOK'
    BY <1>c, <2>3 DEF PartsOK, IsPart
  <2> QED
    BY <1>e, <2>6, <2>7, <2>8
<1>5. CASE LeavesAll
  <2>1. parts' = parts /\ rest' = rest /\ sent' = sent /\ arrived' = arrived
    BY <1>5 DEF LeavesAll, fragmentsVars
  <2>2. Aligned'
    BY <1>a, <2>1 DEF Aligned, IsList
  <2>3. Fine
    BY <1>b, <1>d, <2>1 DEF Fine
  <2>4. PartsOK'
    BY <1>c, <2>1 DEF PartsOK, IsPart
  <2> QED
    BY <1>e, <2>2, <2>3, <2>4
<1> QED
  BY <1>1, <1>2, <1>3, <1>4, <1>5

(***************************************************************************)
(* Errors                                                                  *)
(***************************************************************************)

\* What is told is told of two sizes.
LEMMA Telling ==
  ASSUME NEW e, NEW expected \in Nat, NEW actual \in Nat, Tell(e, expected, actual),
         \/ actual < expected /\ e \in {Truncated(expected, actual), SizeMismatch(expected, actual)}
         \/ ~(actual < expected) /\ e \in {TrailingData(actual - expected), Refused("ContentTooLarge")}
  PROVE  ToldRight'
<1>1. told' = {e} /\ cause' = {<<expected, actual>>}
  BY DEF Tell
<1> QED
  BY <1>1 DEF ToldRight

\* into_memory tells of a truncation when there was one.
LEMMA TellingTruncated ==
  ASSUME NEW part, IsPart(part), NEW form, IsFormOf(form, part), form.form = "binary",
         FromReader(form) = {}, TellTruncated(form)
  PROVE  ToldRight'
<1>1. /\ form.declares = {part.size} /\ form.content \in Seq(Nat) /\ Len(form.content) < part.size
  BY ReadAsSent
<1>2. Tell(Truncated(part.size, Len(form.content)), part.size, Len(form.content))
  BY <1>1 DEF TellTruncated
<1>3. part.size \in Nat /\ Len(form.content) \in Nat
  BY <1>1 DEF IsPart
<1> QED
  BY <1>1, <1>2, <1>3, Telling

\* A limit says nothing of a truncation.
LEMMA TellingTooLarge ==
  ASSUME NEW size \in Nat, TellTooLarge(size)
  PROVE  ToldRight'
<1>1. Tell(Refused("ContentTooLarge"), size, size) /\ ~(size < size)
  BY DEF TellTooLarge
<1> QED
  BY <1>1, Telling

\* Every error that is told is of the kind its sizes ask for.
LEMMA ToldRightKept ==
  ASSUME InHand, ToldRight, [Next]_vars
  PROVE  ToldRight'
<1>0. CASE UNCHANGED errorVars
  BY <1>0 DEF errorVars, ToldRight
<1>1. CASE SendFromReader
  <2> DEFINE part == parts[Len(sent) + 1]
  <2>1. Len(sent) + 1 \in DOMAIN parts
    <3>1. IsList(sent) /\ IsList(parts) /\ Len(sent) < Len(parts)
      BY <1>1 DEF InHand, Aligned, SendFromReader
    <3>2. Len(sent) \in Nat /\ Len(parts) \in Nat /\ DOMAIN parts = 1 .. Len(parts)
      BY <3>1, ListHas
    <3> QED
      BY <3>1, <3>2
  <2>2. IsPart(part)
    BY <2>1 DEF InHand, PartsOK
  <2>3. \/ UNCHANGED errorVars
        \/ /\ Len(part.content) < part.size
           /\ Tell(Truncated(part.size, Len(part.content)), part.size, Len(part.content))
    BY <1>1 DEF SendFromReader
  <2> HIDE DEF part
  <2>4. part.size \in Nat /\ Len(part.content) \in Nat
    BY <2>2 DEF IsPart
  <2> QED
    BY <1>0, <2>3, <2>4, Telling
<1>2. CASE ToJson
  <2>1. PICK i \in UnderWay : \E form \in sent[i] :
          /\ form.form = "binary"
          /\ \/ UNCHANGED errorVars
             \/ \E size \in form.declares : TellTooLarge(size)
             \/ FromReader(form) = {} /\ TellTruncated(form)
    BY <1>2 DEF ToJson
  <2>2. PICK form \in sent[i] :
          /\ form.form = "binary"
          /\ \/ UNCHANGED errorVars
             \/ \E size \in form.declares : TellTooLarge(size)
             \/ FromReader(form) = {} /\ TellTruncated(form)
    BY <2>1
  <2>3. IsPart(parts[i]) /\ IsFormOf(form, parts[i])
    BY UnderWayIsForm DEF UnderWay
  <2>4. CASE \E size \in form.declares : TellTooLarge(size)
    <3>1. form.declares = {parts[i].size} /\ parts[i].size \in Nat
      BY <2>2, <2>3, ReadAsSent DEF IsPart
    <3> QED
      BY <2>4, <3>1, TellingTooLarge
  <2>5. CASE FromReader(form) = {} /\ TellTruncated(form)
    BY <2>2, <2>3, <2>5, TellingTruncated
  <2> QED
    BY <1>0, <2>2, <2>4, <2>5
<1>3. CASE FromJson
  <2>1. PICK i \in UnderWay : \E form \in sent[i] :
          UNCHANGED errorVars \/ TellTooLarge(Len(form.content))
    BY <1>3 DEF FromJson
  <2>2. PICK form \in sent[i] : UNCHANGED errorVars \/ TellTooLarge(Len(form.content))
    BY <2>1
  <2>3. IsFormOf(form, parts[i])
    BY UnderWayIsForm DEF UnderWay
  <2>4. Len(form.content) \in Nat
    BY <2>3 DEF IsFormOf
  <2> QED
    BY <1>0, <2>2, <2>4, TellingTooLarge
<1>4. CASE ArriveWhole
  <2>1. PICK i \in Transit : \E form \in sent[i] :
          /\ form.form = "binary"
          /\ \/ UNCHANGED errorVars
             \/ /\ FromBytes(form) = {}
                /\ \E size \in form.declares : Tell(ContentError(form), size, Len(form.content))
    BY <1>4 DEF ArriveWhole
  <2>2. PICK form \in sent[i] :
          /\ form.form = "binary"
          /\ \/ UNCHANGED errorVars
             \/ /\ FromBytes(form) = {}
                /\ \E size \in form.declares : Tell(ContentError(form), size, Len(form.content))
    BY <2>1
  <2>3. IsPart(parts[i]) /\ IsFormOf(form, parts[i])
    BY UnderWayIsForm
  <2> DEFINE size == parts[i].size
             length == Len(form.content)
  <2>4. CASE /\ FromBytes(form) = {}
             /\ \E n \in form.declares : Tell(ContentError(form), n, Len(form.content))
    <3>1. form.declares = {size} /\ size \in Nat /\ length \in Nat /\ length # size
      BY <2>2, <2>3, <2>4, ReadAsSent DEF IsPart
    <3>2. Tell(ContentError(form), size, length)
      BY <2>4, <3>1
    <3>3. (CHOOSE n \in form.declares : TRUE) = size
      BY <3>1
    <3>4. ContentError(form) = IF length < size THEN SizeMismatch(size, length)
                                                ELSE TrailingData(length - size)
      <4> DEFINE chosen == CHOOSE n \in form.declares : TRUE
      <4>1. ContentError(form) = IF Len(form.content) < chosen
                                   THEN SizeMismatch(chosen, Len(form.content))
                                   ELSE TrailingData(Len(form.content) - chosen)
        BY DEF ContentError
      <4>2. chosen = size
        BY <3>3
      <4> HIDE DEF chosen, size
      <4> QED
        BY <4>1, <4>2, Zenon
    <3> HIDE DEF size, length
    <3>5. \/ length < size /\ ContentError(form) \in {Truncated(size, length), SizeMismatch(size, length)}
          \/ ~(length < size) /\ ContentError(form) \in {TrailingData(length - size), Refused("ContentTooLarge")}
      BY <3>4, Zenon
    <3> QED
      BY <3>1, <3>2, <3>5, Telling
  <2> QED
    BY <1>0, <2>2, <2>4
<1>5. CASE ArriveStreamed
  <2>1. PICK i \in Transit : \E form \in sent[i] :
          /\ form.form = "binary"
          /\ UNCHANGED errorVars \/ (FromReader(form) = {} /\ TellTruncated(form))
    BY <1>5 DEF ArriveStreamed
  <2>2. PICK form \in sent[i] :
          /\ form.form = "binary"
          /\ UNCHANGED errorVars \/ (FromReader(form) = {} /\ TellTruncated(form))
    BY <2>1
  <2>3. IsPart(parts[i]) /\ IsFormOf(form, parts[i])
    BY UnderWayIsForm
  <2> QED
    BY <1>0, <2>2, <2>3, TellingTruncated
<1>6. CASE Split \/ SendFromMemory \/ Damage \/ ArriveJson \/ Merge \/ TimesOut \/ UNCHANGED vars
  BY <1>0, <1>6 DEF Split, SendFromMemory, Damage, ArriveJson, Merge, TimesOut, vars
<1> QED
  BY <1>1, <1>2, <1>3, <1>4, <1>5, <1>6 DEF Next, Send, Arrive

\* An error goes back and forth between its two forms.
LEMMA ErrorsKeep ==
  ASSUME NEW x, NEW a
  PROVE  /\ PassedOn(SizeMismatch(x, a)) = Truncated(x, a)
         /\ PassedOn(Truncated(x, a)) = SizeMismatch(x, a)
         /\ "error" \in DOMAIN SizeMismatch(x, a) /\ "error" \notin DOMAIN Truncated(x, a)
<1>1. "error" \in DOMAIN SizeMismatch(x, a) /\ SizeMismatch(x, a).error = "SizeMismatch"
  BY DEF SizeMismatch
<1>2. /\ "error" \notin DOMAIN Truncated(x, a)
      /\ Truncated(x, a).kind = "UnexpectedEof" /\ Truncated(x, a).carried = {SizeMismatch(x, a)}
  BY DEF Truncated, IoError
<1>3. IntoIo(SizeMismatch(x, a)) = IoError("UnexpectedEof", {SizeMismatch(x, a)})
  BY <1>1 DEF IntoIo
<1>4. PassedOn(SizeMismatch(x, a)) = Truncated(x, a)
  BY <1>1, <1>3 DEF PassedOn, Truncated
<1>5. UnwrapIo(Truncated(x, a)) = SizeMismatch(x, a)
  BY <1>1, <1>2 DEF UnwrapIo
<1> QED
  BY <1>1, <1>2, <1>4, <1>5 DEF PassedOn

\* Any other goes into an io::Error, and never becomes a truncation.
LEMMA OthersKeep ==
  ASSUME NEW e, "error" \in DOMAIN e, e.error \notin {"Io", "SizeMismatch", "WriterPoisoned"}
  PROVE  LET io == IoError("InvalidData", {e})
         IN  /\ PassedOn(e) = io
             /\ PassedOn(io) = [error |-> "Io", io |-> io]
             /\ PassedOn([error |-> "Io", io |-> io]) = io
             /\ "error" \notin DOMAIN io /\ "error" \in DOMAIN [error |-> "Io", io |-> io]
<1> DEFINE io == IoError("InvalidData", {e})
           back == [error |-> "Io", io |-> io]
<1>1. "error" \notin DOMAIN io /\ io.kind = "InvalidData"
  BY DEF IoError
<1>2. "error" \in DOMAIN back /\ back.error = "Io" /\ back.io = io
  OBVIOUS
<1>3. PassedOn(e) = io
  BY DEF PassedOn, IntoIo
<1>4. PassedOn(io) = back
  <2> HIDE DEF io
  <2> QED
    BY <1>1 DEF PassedOn, UnwrapIo
<1>5. PassedOn(back) = io
  <2> HIDE DEF back, io
  <2> QED
    BY <1>2 DEF PassedOn, IntoIo
<1> QED
  BY <1>1, <1>2, <1>3, <1>4, <1>5

\* So a truncation is told as one, whoever passes it on.
LEMMA TellsTruncations ==
  ASSUME ToldRight
  PROVE  TruncationIsTold
<1> SUFFICES ASSUME NEW e \in told, NEW sizes \in cause,
                    NEW passed \in {e, PassedOn(e), PassedOn(PassedOn(e)),
                                    PassedOn(PassedOn(PassedOn(e)))},
                    "error" \in DOMAIN passed
             PROVE  IF sizes[2] < sizes[1]
                    THEN passed = SizeMismatch(sizes[1], sizes[2])
                    ELSE passed.error # "SizeMismatch"
  BY DEF TruncationIsTold
<1>1. \/ sizes[2] < sizes[1] /\ e \in {Truncated(sizes[1], sizes[2]), SizeMismatch(sizes[1], sizes[2])}
      \/ ~(sizes[2] < sizes[1]) /\ e \in {TrailingData(sizes[2] - sizes[1]), Refused("ContentTooLarge")}
  BY DEF ToldRight
<1>2. CASE sizes[2] < sizes[1] /\ e \in {Truncated(sizes[1], sizes[2]), SizeMismatch(sizes[1], sizes[2])}
  <2>1. passed \in {Truncated(sizes[1], sizes[2]), SizeMismatch(sizes[1], sizes[2])}
    BY <1>2, ErrorsKeep, Zenon
  <2> QED
    BY <1>2, <2>1, ErrorsKeep, Zenon
<1>3. CASE /\ ~(sizes[2] < sizes[1])
           /\ e \in {TrailingData(sizes[2] - sizes[1]), Refused("ContentTooLarge")}
  <2>1. "error" \in DOMAIN e /\ e.error \in {"TrailingData", "ContentTooLarge"}
    BY <1>3 DEF TrailingData, Refused
  <2> DEFINE io == IoError("InvalidData", {e})
             back == [error |-> "Io", io |-> io]
  <2>2. /\ PassedOn(e) = io /\ PassedOn(io) = back /\ PassedOn(back) = io
        /\ "error" \notin DOMAIN io
    BY <2>1, OthersKeep
  <2>3. back.error = "Io"
    OBVIOUS
  <2> HIDE DEF io, back
  <2>4. passed \in {e, io, back}
    BY <2>2, Zenon
  <2>5. passed \in {e, back}
    BY <2>2, <2>4, Zenon
  <2>6. passed.error # "SizeMismatch"
    BY <2>1, <2>3, <2>5
  <2> QED
    BY <1>3, <2>6, Zenon
<1> QED
  BY <1>1, <1>2, <1>3

(***************************************************************************)
(* Attributes                                                              *)
(***************************************************************************)

\* One value under the key that is set, and the rest as they were.
LEMMA ValuesWith ==
  ASSUME NEW attributesOf, NEW set, NEW value, NEW key
  PROVE  /\ key = set => Values(With(attributesOf, set, value), key) = {value}
         /\ key # set => Values(With(attributesOf, set, value), key) = Values(attributesOf, key)
<1> DEFINE other == With(attributesOf, set, value)
<1>1. /\ DOMAIN other = DOMAIN attributesOf \union {set} /\ other[set] = value
      /\ \A k \in DOMAIN attributesOf : k # set => other[k] = attributesOf[k]
  BY DEF With
<1> HIDE DEF other
<1>2. key = set => Values(other, key) = {value}
  BY <1>1 DEF Values
<1>3. key # set => Values(other, key) = Values(attributesOf, key)
  BY <1>1 DEF Values
<1> QED
  BY <1>2, <1>3 DEF other

\* No value under the keys that are dropped.
LEMMA ValuesWithout ==
  ASSUME NEW attributesOf, NEW some, NEW key
  PROVE  /\ key \in some => Values(Without(attributesOf, some), key) = {}
         /\ key \notin some => Values(Without(attributesOf, some), key) = Values(attributesOf, key)
<1> DEFINE other == Without(attributesOf, some)
<1>1. /\ DOMAIN other = DOMAIN attributesOf \ some
      /\ \A k \in DOMAIN other : other[k] = attributesOf[k]
  BY DEF Without
<1> HIDE DEF other
<1>2. key \in some => Values(other, key) = {}
  BY <1>1 DEF Values
<1>3. key \notin some => Values(other, key) = Values(attributesOf, key)
  BY <1>1 DEF Values
<1> QED
  BY <1>2, <1>3 DEF other

\* One value, if there was one to set.
LEMMA ValuesWithEach ==
  ASSUME NEW attributesOf, NEW set, NEW some, NEW key
  PROVE  /\ key = set /\ some # {} =>
              Values(WithEach(attributesOf, set, some), key) = {CHOOSE value \in some : TRUE}
         /\ key # set \/ some = {} =>
              Values(WithEach(attributesOf, set, some), key) = Values(attributesOf, key)
<1> DEFINE one == CHOOSE value \in some : TRUE
<1>1. CASE some = {}
  <2>1. WithEach(attributesOf, set, some) = attributesOf
    BY <1>1 DEF WithEach
  <2> QED
    BY <1>1, <2>1
<1>2. CASE some # {}
  <2>1. WithEach(attributesOf, set, some) = With(attributesOf, set, one)
    BY <1>2 DEF WithEach
  <2> HIDE DEF one
  <2>2. /\ key = set => Values(With(attributesOf, set, one), key) = {one}
        /\ key # set => Values(With(attributesOf, set, one), key) = Values(attributesOf, key)
    BY ValuesWith
  <2>3. /\ key = set => Values(WithEach(attributesOf, set, some), key) = {one}
        /\ key # set => Values(WithEach(attributesOf, set, some), key) = Values(attributesOf, key)
    BY <2>1, <2>2
  <2> QED
    BY <1>2, <2>3 DEF one
<1> QED
  BY <1>1, <1>2

\* A part, with a name of its own or none, has what all parts inherit and the
\* original name.
LEMMA PartLooks ==
  ASSUME IInv, NEW i, NEW declares
  PROVE  Looks(Part(i, declares)) /\ Looks(With(Part(i, declares), "filename", "part"))
<1> DEFINE bare     == Without(attributes, AllKeys(keys))
           named    == With(bare, "uuid", Uuid(i))
           owned    == With(named, keys.identifier, "this split's")
           numbered == With(owned, keys.index, Decimal(i))
           counted  == WithEach(numbered, keys.count, {Decimal(n) : n \in declares})
           whole    == WithEach(counted, keys.original, original)
           own      == With(whole, "filename", "part")
<1>k. {"uuid", "filename"} \intersect AllKeys(keys) = {}
  BY ChosenKeys DEF IInv, KeysOK
<1>d. Part(i, declares) = whole
  BY DEF Part
<1>1. ASSUME NEW key, key \notin AllKeys(keys) \union {"uuid", "filename"}
      PROVE  Values(whole, key) = Values(attributes, key) /\ Values(own, key) = Values(attributes, key)
  <2>1. /\ key \notin AllKeys(keys) /\ key # "uuid" /\ key # "filename"
        /\ key # keys.identifier /\ key # keys.index /\ key # keys.count /\ key # keys.original
    BY <1>1 DEF AllKeys
  <2>2. Values(bare, key) = Values(attributes, key)
    BY <2>1, ValuesWithout
  <2> HIDE DEF bare
  <2>3. Values(named, key) = Values(bare, key)
    BY <2>1, ValuesWith
  <2> HIDE DEF named
  <2>4. Values(owned, key) = Values(named, key)
    <3> DEFINE name == "this split's"
    <3>1. owned = With(named, keys.identifier, name)
      OBVIOUS
    <3> HIDE DEF name, owned
    <3>2. Values(With(named, keys.identifier, name), key) = Values(named, key)
      BY <2>1, ValuesWith
    <3> QED
      BY <3>1, <3>2
  <2> HIDE DEF owned
  <2>5. Values(numbered, key) = Values(owned, key)
    BY <2>1, ValuesWith
  <2> HIDE DEF numbered
  <2>6. Values(counted, key) = Values(numbered, key)
    BY <2>1, ValuesWithEach
  <2> HIDE DEF counted
  <2>7. Values(whole, key) = Values(counted, key)
    BY <2>1, ValuesWithEach
  <2> HIDE DEF whole
  <2>8. Values(own, key) = Values(whole, key)
    BY <2>1, ValuesWith
  <2> HIDE DEF own
  <2> QED
    BY <2>2, <2>3, <2>4, <2>5, <2>6, <2>7, <2>8
<1> HIDE DEF counted
<1> DEFINE one == CHOOSE value \in original : TRUE
<1>2. original # {} => Values(whole, keys.original) = {one}
  BY ValuesWithEach
<1>3. keys.original # "filename"
  BY <1>k DEF AllKeys
<1> HIDE DEF whole, one
<1>4. Values(own, keys.original) = Values(whole, keys.original)
  BY <1>3, ValuesWith
<1> HIDE DEF own
<1>5. Looks(whole) /\ Looks(own)
  BY <1>1, <1>2, <1>4 DEF Looks, one
<1> QED
  BY <1>d, <1>5 DEF own

\* The split is set up, or has no part yet.
Fixed == UNCHANGED setVars
Unset == SettingUp /\ parts' = parts /\ parts = <<>>

\* Once there is a part, the split is set up.
LEMMA SetUp ==
  ASSUME IInv, MakesParts \/ SendsOne \/ RewritesOne \/ TakesOne \/ LeavesAll
  PROVE  Fixed \/ Unset
<1>1. CASE MakesParts
  <2>1. SettingUp => parts = <<>>
    BY DEF SettingUp, IInv, Counted
  <2>2. FragmentsNext
    BY <1>1 DEF MakesParts
  <2>3. CASE WithCount \/ NextPart \/ Terminate \/ Stop
    BY <2>3 DEF WithCount, NextPart, Terminate, Stop, Fixed
  <2>4. CASE WithKeys \/ WithOneKey \/ Attribute \/ WithoutAttribute \/ WithOriginalFilename
    BY <2>1, <2>4 DEF WithKeys, WithOneKey, Attribute, WithoutAttribute, WithOriginalFilename, Unset
  <2> QED
    BY <2>2, <2>3, <2>4 DEF FragmentsNext
<1>2. CASE SendsOne \/ UNCHANGED fragmentsVars
  BY <1>2 DEF SendsOne, fragmentsVars, Fixed
<1> QED
  BY <1>1, <1>2 DEF RewritesOne, TakesOne, LeavesAll, Same

\* What nobody set or dropped is the parent's.
LEMMA InheritsKept ==
  ASSUME IInv, Inherits, MakesParts \/ SendsOne \/ RewritesOne \/ TakesOne \/ LeavesAll
  PROVE  Inherits'
<1>0. CASE Fixed
  BY <1>0 DEF Fixed, setVars, Inherits
<1>1. CASE MakesParts
  <2>1. CASE WithKeys \/ WithOneKey
    BY <2>1 DEF WithKeys, WithOneKey, Inherits
  <2>2. CASE Attribute
    <3>1. PICK key \in Adjustable \ adjusted :
            attributes' = With(attributes, key, "caller's") /\ adjusted' = adjusted \union {key}
      BY <2>2 DEF Attribute
    <3>2. parent' = parent /\ original' = original
      BY <2>2 DEF Attribute
    <3>3. ASSUME NEW other, other \notin AllKeys(DefaultKeys) \union adjusted \union {key}
          PROVE  Values(attributes', other) = Values(parent.attributes, other)
      <4>1. other # key /\ Values(attributes, other) = Values(parent.attributes, other)
        BY <3>3 DEF Inherits
      <4>2. Values(With(attributes, key, "caller's"), other) = Values(attributes, other)
        BY <4>1, ValuesWith
      <4> QED
        BY <3>1, <4>1, <4>2
    <3> QED
      BY <3>1, <3>2, <3>3 DEF Inherits
  <2>3. CASE WithoutAttribute
    <3>1. PICK key :
            attributes' = Without(attributes, {key}) /\ adjusted' = adjusted \union {key}
      BY <2>3 DEF WithoutAttribute
    <3>2. parent' = parent /\ original' = original
      BY <2>3 DEF WithoutAttribute
    <3>3. ASSUME NEW other, other \notin AllKeys(DefaultKeys) \union adjusted \union {key}
          PROVE  Values(attributes', other) = Values(parent.attributes, other)
      <4>1. other \notin {key} /\ Values(attributes, other) = Values(parent.attributes, other)
        BY <3>3 DEF Inherits
      <4>2. Values(Without(attributes, {key}), other) = Values(attributes, other)
        BY <4>1, ValuesWithout
      <4> QED
        BY <3>1, <4>1, <4>2
    <3> QED
      BY <3>1, <3>2, <3>3 DEF Inherits
  <2>4. CASE WithOriginalFilename
    <3>1. /\ parent' = parent /\ attributes' = attributes
          /\ adjusted' = adjusted \union {"original"}
      BY <2>4 DEF WithOriginalFilename
    <3> QED
      BY <3>1 DEF Inherits
  <2>5. CASE WithCount \/ NextPart \/ Terminate \/ Stop
    BY <1>0, <2>5 DEF WithCount, NextPart, Terminate, Stop, Fixed
  <2> QED
    BY <1>1, <2>1, <2>2, <2>3, <2>4, <2>5 DEF MakesParts, FragmentsNext
<1>2. CASE SendsOne \/ UNCHANGED fragmentsVars
  BY <1>0, <1>2 DEF SendsOne, fragmentsVars, Fixed
<1> QED
  BY <1>1, <1>2 DEF RewritesOne, TakesOne, LeavesAll, Same

\* What a step adds to the parts.
LEMMA NewPart ==
  ASSUME IInv, PartsOK, MakesParts \/ SendsOne \/ RewritesOne \/ TakesOne \/ LeavesAll
  PROVE  \/ parts' = parts
         \/ /\ MakesParts /\ NextPart /\ ~Panics
         \/ /\ MakesParts /\ Terminate /\ ~Panics
<1>1. CASE MakesParts
  <2>1. CASE Panics
    BY <2>1 DEF Panics
  <2>2. CASE WithKeys \/ WithOneKey \/ Attribute \/ WithoutAttribute \/ WithOriginalFilename \/ WithCount \/ Stop
    BY <2>2 DEF WithKeys, WithOneKey, Attribute, WithoutAttribute, WithOriginalFilename, WithCount, Stop
  <2> QED
    BY <1>1, <2>1, <2>2 DEF MakesParts, FragmentsNext
<1>2. CASE SendsOne \/ UNCHANGED fragmentsVars
  BY <1>2 DEF SendsOne, fragmentsVars
<1> QED
  BY <1>1, <1>2 DEF RewritesOne, TakesOne, LeavesAll, Same

\* Every part that is made has what the parts inherit.
LEMMA PartsLookKept ==
  ASSUME IInv, PartsOK, PartsLook, MakesParts \/ SendsOne \/ RewritesOne \/ TakesOne \/ LeavesAll
  PROVE  PartsLook'
<1>0. CASE Unset
  BY <1>0 DEF Unset, PartsLook
<1>1. CASE Fixed
  <2>1. keys' = keys /\ attributes' = attributes /\ original' = original
    BY <1>1 DEF Fixed, setVars
  <2>2. ASSUME NEW attributesOf, Looks(attributesOf)
        PROVE  /\ original' # {} => Values(attributesOf, keys'.original) = {CHOOSE value \in original' : TRUE}
               /\ \A key : key \notin AllKeys(keys') \union {"uuid", "filename"} =>
                    Values(attributesOf, key) = Values(attributes', key)
    BY <2>1, <2>2 DEF Looks
  <2>3. (\A i \in DOMAIN parts' : Looks(parts'[i].attributes)) => PartsLook'
    <3> SUFFICES ASSUME \A i \in DOMAIN parts' : Looks(parts'[i].attributes),
                        NEW i \in DOMAIN parts'
                 PROVE  /\ original' # {} => Values(parts'[i].attributes, keys'.original)
                                               = {CHOOSE value \in original' : TRUE}
                        /\ \A key : key \notin AllKeys(keys') \union {"uuid", "filename"} =>
                             Values(parts'[i].attributes, key) = Values(attributes', key)
      BY DEF PartsLook, Looks
    <3> QED
      BY <2>2
  <2>4. CASE parts' = parts
    BY <2>3, <2>4 DEF PartsLook
  <2>l. IsList(parts)
    BY DEF IInv, Counted, IsList
  <2>5. ASSUME NEW part, parts' = Append(parts, part), Looks(part.attributes) PROVE PartsLook'
    <3>1. /\ DOMAIN Append(parts, part) = 1 .. Len(parts) + 1
          /\ Append(parts, part)[Len(parts) + 1] = part
          /\ \A i \in DOMAIN parts : Append(parts, part)[i] = parts[i]
      BY <2>l, LongerList
    <3>2. DOMAIN parts = 1 .. Len(parts) /\ Len(parts) \in Nat
      BY <2>l, ListHas
    <3>3. \A i \in 1 .. Len(parts) + 1 : i \in DOMAIN parts \/ i = Len(parts) + 1
      BY <3>2
    <3>4. \A i \in DOMAIN parts' : Looks(parts'[i].attributes)
      BY <2>5, <3>1, <3>3 DEF PartsLook
    <3> QED
      BY <2>3, <3>4
  <2>6. CASE NextPart /\ ~Panics
    <3>1. PICK size, held \in 0 .. Len(rest) :
            parts' = Append(parts, FromParts(size, With(Part(index', count), "filename", "part"),
                                             SubSeq(rest, 1, held)))
      BY <2>6, CutOffIs
    <3>2. FromParts(size, With(Part(index', count), "filename", "part"), SubSeq(rest, 1, held)).attributes
            = With(Part(index', count), "filename", "part")
      BY DEF FromParts
    <3> QED
      BY <2>5, <3>1, <3>2, PartLooks
  <2>7. CASE Terminate /\ ~Panics
    <3>1. parts' = Append(parts, Build(Part(index + 1, {index + 1}), <<>>))
      BY <2>7 DEF Terminate
    <3>2. Build(Part(index + 1, {index + 1}), <<>>).attributes = Part(index + 1, {index + 1})
      BY DEF Build, FromParts
    <3> QED
      BY <2>5, <3>1, <3>2, PartLooks
  <2> QED
    BY <2>4, <2>6, <2>7, NewPart
<1> QED
  BY <1>0, <1>1, SetUp

(***************************************************************************)
(* How many parts there are                                                *)
(***************************************************************************)

\* next_part counts, and panics rather than go over what was declared.
LEMMA BudgetedKept ==
  ASSUME IInv, PartsOK, Budgeted, MakesParts \/ SendsOne \/ RewritesOne \/ TakesOne \/ LeavesAll
  PROVE  Budgeted'
<1>t. /\ index \in Nat /\ MaxParts \in Nat /\ count \subseteq Nat /\ Len(parts) \in Nat
      /\ IsList(parts) /\ (stage = "open" => Len(parts) = index)
  <2>1. IsList(parts)
    BY DEF IInv, Counted, IsList
  <2> QED
    BY <2>1, ListHas, FragmentsAssumption DEF IInv, Counted
<1>b. /\ Len(parts) <= MaxParts /\ \A n \in count : count = {n} /\ Len(parts) <= n
      /\ rest # <<>> => index >= Len(parts)
  BY DEF Budgeted
<1>0. CASE UNCHANGED <<count, parts, rest>> /\ index' \in {index, index + 1}
  <2>1. index' >= index /\ index' \in Nat
    BY <1>0, <1>t
  <2> QED
    BY <1>0, <1>t, <1>b, <2>1 DEF Budgeted
<1>1. CASE MakesParts
  <2>1. CASE WithKeys \/ WithOneKey \/ Attribute \/ WithoutAttribute \/ WithOriginalFilename \/ Stop
    BY <1>0, <2>1 DEF WithKeys, WithOneKey, Attribute, WithoutAttribute, WithOriginalFilename, Stop
  <2>2. CASE WithCount
    <3>1. PICK n \in index .. MaxParts : count' = {n}
      BY <2>2 DEF WithCount
    <3>2. UNCHANGED <<index, parts, rest>> /\ Len(parts) = index
      BY <1>t, <2>2 DEF WithCount
    <3> QED
      BY <1>t, <1>b, <3>1, <3>2 DEF Budgeted
  <2>3. CASE (NextPart \/ Terminate) /\ Panics
    BY <1>0, <2>3 DEF NextPart, Terminate, Panics
  <2>4. CASE NextPart /\ ~Panics
    <3>1. PICK part : parts' = Append(parts, part)
      BY <2>4, CutOffIs
    <3>2. Len(parts') = Len(parts) + 1
      BY <1>t, <3>1, LongerList
    <3>3. /\ index' = index + 1 /\ index < MaxParts /\ Len(parts) = index /\ count' = count
          /\ \A n \in count : index' <= n
      BY <1>t, <2>4 DEF NextPart
    <3> QED
      BY <1>t, <1>b, <3>2, <3>3 DEF Budgeted
  <2>5. CASE Terminate /\ ~Panics
    <3>1. /\ parts' = Append(parts, Build(Part(index + 1, {index + 1}), <<>>))
          /\ index < MaxParts /\ Len(parts) = index /\ count' = count /\ index' = index
          /\ rest = <<>> /\ rest' = rest /\ \A n \in count : n = index + 1
      BY <1>t, <2>5 DEF Terminate
    <3>2. Len(parts') = Len(parts) + 1
      BY <1>t, <3>1, LongerList
    <3> QED
      BY <1>t, <1>b, <3>1, <3>2 DEF Budgeted
  <2> QED
    BY <1>1, <2>1, <2>2, <2>3, <2>4, <2>5 DEF MakesParts, FragmentsNext
<1>2. CASE SendsOne \/ UNCHANGED fragmentsVars
  BY <1>0, <1>2 DEF SendsOne, fragmentsVars
<1> QED
  BY <1>1, <1>2 DEF RewritesOne, TakesOne, LeavesAll, Same

\* What a part says of their number is what it was given to say.
LEMMA PartDeclares ==
  ASSUME IInv, NEW i, NEW declares, NEW attributesOf,
         attributesOf \in {Part(i, declares), With(Part(i, declares), "filename", "part")},
         keys.count \in DOMAIN attributesOf
  PROVE  \E n \in declares : attributesOf[keys.count] = Decimal(n)
<1> DEFINE counts   == {Decimal(n) : n \in declares}
           key      == keys.count
           bare     == Without(attributes, AllKeys(keys))
           named    == With(bare, "uuid", Uuid(i))
           name     == "this split's"
           owned    == With(named, keys.identifier, name)
           numbered == With(owned, keys.index, Decimal(i))
           counted  == WithEach(numbered, keys.count, counts)
           whole    == WithEach(counted, keys.original, original)
           own      == With(whole, "filename", "part")
<1>k. /\ key # "uuid" /\ key # "filename" /\ key # keys.identifier /\ key # keys.index
      /\ key # keys.original /\ key \in AllKeys(keys)
  <2>1. /\ keys.identifier # keys.count /\ keys.count # keys.original /\ keys.index # keys.count
        /\ {"uuid", "filename"} \intersect AllKeys(keys) = {}
    BY ChosenKeys DEF IInv, KeysOK
  <2> QED
    BY <2>1 DEF AllKeys
<1>d. Part(i, declares) = whole
  BY DEF Part
<1> HIDE DEF key, counts
<1>1. Values(bare, key) = {}
  BY <1>k, ValuesWithout
<1> HIDE DEF bare
<1>2. Values(named, key) = Values(bare, key)
  BY <1>k, ValuesWith
<1> HIDE DEF named, name
<1>3. Values(owned, key) = Values(named, key)
  BY <1>k, ValuesWith
<1> HIDE DEF owned
<1>4. Values(numbered, key) = Values(owned, key)
  BY <1>k, ValuesWith
<1> HIDE DEF numbered
<1>5. Values(counted, key) \subseteq counts
  <2>1. counts # {} => Values(WithEach(numbered, key, counts), key) = {CHOOSE value \in counts : TRUE}
    BY ValuesWithEach
  <2>2. counts = {} => Values(WithEach(numbered, key, counts), key) = Values(numbered, key)
    BY ValuesWithEach
  <2>3. counted = WithEach(numbered, key, counts)
    BY DEF key
  <2> HIDE DEF counted
  <2> QED
    BY <1>1, <1>2, <1>3, <1>4, <2>1, <2>2, <2>3
<1> HIDE DEF counted
<1>6. Values(whole, key) = Values(counted, key)
  BY <1>k, ValuesWithEach
<1> HIDE DEF whole
<1>7. Values(own, key) = Values(whole, key)
  BY <1>k, ValuesWith
<1>8. attributesOf \in {whole, own}
  BY <1>d
<1> HIDE DEF own
<1>9. Values(attributesOf, key) \subseteq counts
  BY <1>5, <1>6, <1>7, <1>8
<1>10. attributesOf[key] \in Values(attributesOf, key)
  BY DEF Values, key
<1> QED
  BY <1>9, <1>10 DEF counts, key

\* The count that was declared is kept, and a terminator's is that of the
\* parts.
LEMMA DeclaresRightKept ==
  ASSUME IInv, PartsOK, Budgeted, DeclaresRight,
         MakesParts \/ SendsOne \/ RewritesOne \/ TakesOne \/ LeavesAll
  PROVE  DeclaresRight'
<1>t. /\ Len(parts) \in Nat /\ DOMAIN parts = 1 .. Len(parts)
      /\ IsList(parts) /\ (stage = "open" => Len(parts) = index)
  <2>1. IsList(parts)
    BY DEF IInv, Counted, IsList
  <2> QED
    BY <2>1, ListHas DEF IInv, Counted
<1>0. CASE Unset
  BY <1>0 DEF Unset, DeclaresRight
<1>1. CASE Fixed
  <2>k. keys' = keys
    BY <1>1 DEF Fixed, setVars
  <2>1. CASE UNCHANGED <<parts, rest>> /\ (count' = count \/ count = {}) /\ stage' # "open"
    BY <2>k, <2>1 DEF DeclaresRight
  <2>2. CASE UNCHANGED <<parts, rest, stage>> /\ (count' = count \/ count = {})
    BY <2>k, <2>2 DEF DeclaresRight
  <2>3. ASSUME NEW part, parts' = Append(parts, part), stage = "open", count' = count,
               keys.count \in DOMAIN part.attributes =>
                 \/ \E n \in count : part.attributes[keys.count] = Decimal(n)
                 \/ /\ stage' # "open" /\ rest' = <<>>
                    /\ part.attributes[keys.count] = Decimal(Len(parts) + 1)
        PROVE  DeclaresRight'
    <3>1. /\ Len(Append(parts, part)) = Len(parts) + 1
          /\ DOMAIN Append(parts, part) = 1 .. Len(parts) + 1
          /\ Append(parts, part)[Len(parts) + 1] = part
          /\ \A i \in DOMAIN parts : Append(parts, part)[i] = parts[i]
      BY <1>t, LongerList
    <3>2. /\ Len(parts') = Len(parts) + 1 /\ DOMAIN parts' = 1 .. Len(parts) + 1
          /\ parts'[Len(parts) + 1] = part /\ \A i \in DOMAIN parts : parts'[i] = parts[i]
      BY <2>3, <3>1, Zenon
    <3>3. \A i \in DOMAIN parts' : i \in DOMAIN parts \/ i = Len(parts) + 1
      BY <1>t, <3>2
    <3>4. \A i \in DOMAIN parts : keys.count \in DOMAIN parts[i].attributes =>
            \E n \in count : parts[i].attributes[keys.count] = Decimal(n)
      BY <2>3 DEF DeclaresRight
    <3> QED
      BY <2>k, <2>3, <3>2, <3>3, <3>4 DEF DeclaresRight
  <2>4. CASE NextPart /\ ~Panics
    <3>1. PICK size, held \in 0 .. Len(rest) :
            parts' = Append(parts, FromParts(size, With(Part(index', count), "filename", "part"),
                                             SubSeq(rest, 1, held)))
      BY <2>4, CutOffIs
    <3> DEFINE own  == With(Part(index', count), "filename", "part")
               part == FromParts(size, own, SubSeq(rest, 1, held))
    <3>2. part.attributes = own
      BY DEF FromParts
    <3>3. keys.count \in DOMAIN own => \E n \in count : own[keys.count] = Decimal(n)
      BY PartDeclares
    <3>4. stage = "open" /\ count' = count
      BY <2>4 DEF NextPart
    <3> HIDE DEF own
    <3>5. parts' = Append(parts, part)
      BY <3>1 DEF own
    <3> HIDE DEF part
    <3> QED
      BY <2>3, <3>2, <3>3, <3>4, <3>5
  <2>5. CASE Terminate /\ ~Panics
    <3> DEFINE own  == Part(index + 1, {index + 1})
               part == Build(own, <<>>)
    <3>1. /\ parts' = Append(parts, part) /\ stage = "open" /\ stage' = "terminated"
          /\ rest' = <<>> /\ count' = count
      BY <2>5 DEF Terminate
    <3>2. part.attributes = own
      BY DEF Build, FromParts
    <3>3. keys.count \in DOMAIN own => \E n \in {index + 1} : own[keys.count] = Decimal(n)
      BY PartDeclares
    <3>4. index + 1 = Len(parts) + 1
      BY <1>t, <3>1
    <3> HIDE DEF own, part
    <3> QED
      BY <2>3, <3>1, <3>2, <3>3, <3>4
  <2>6. CASE MakesParts
    <3>1. CASE WithKeys \/ WithOneKey \/ Attribute \/ WithoutAttribute \/ WithOriginalFilename
      BY <2>2, <3>1 DEF WithKeys, WithOneKey, Attribute, WithoutAttribute, WithOriginalFilename
    <3>2. CASE Stop \/ (NextPart /\ Panics) \/ (Terminate /\ Panics)
      BY <2>1, <3>2 DEF Stop, NextPart, Terminate, Panics
    <3>3. CASE WithCount
      <4>1. UNCHANGED <<keys, parts>> /\ \A i \in DOMAIN parts : keys.count \notin DOMAIN parts[i].attributes
        BY <3>3 DEF WithCount, setVars
      <4>2. \A i \in DOMAIN parts' : keys'.count \notin DOMAIN parts'[i].attributes
        BY <4>1
      <4> QED
        BY <4>2 DEF DeclaresRight
    <3> QED
      BY <2>4, <2>5, <2>6, <3>1, <3>2, <3>3 DEF MakesParts, FragmentsNext
  <2>7. CASE SendsOne
    <3>1. UNCHANGED <<parts, rest, count>> /\ stage' \in {stage, "panicked"}
      BY <2>7 DEF SendsOne
    <3> QED
      BY <2>1, <2>2, <3>1
  <2>8. CASE UNCHANGED fragmentsVars
    BY <2>2, <2>8 DEF fragmentsVars
  <2> QED
    BY <2>6, <2>7, <2>8 DEF RewritesOne, TakesOne, LeavesAll, Same
<1> QED
  BY <1>0, <1>1, SetUp

(***************************************************************************)
(* What was cut off for them                                               *)
(***************************************************************************)

\* What is cut out of a piece is a piece.
LEMMA PieceOfPiece ==
  ASSUME NEW s \in Seq(Nat), NEW m \in 1 .. Len(s) + 1, NEW n \in 0 .. Len(s),
         NEW i \in Nat, 1 <= i, NEW j \in Nat, m + j - 1 <= n
  PROVE  SubSeq(SubSeq(s, m, n), i, j) = SubSeq(s, m + i - 1, m + j - 1)
<1> DEFINE piece == SubSeq(s, m, n)
           inner == SubSeq(piece, i, j)
           outer == SubSeq(s, m + i - 1, m + j - 1)
<1>0. Len(s) \in Nat /\ m \in Nat /\ 1 <= m /\ n \in Nat /\ n <= Len(s) /\ \A k \in 1 .. Len(s) : s[k] \in Nat
  OBVIOUS
<1>1. \A k \in 1 .. n - m + 1 : piece[k] = s[m + k - 1]
  <2>1. m \in Int /\ n \in Int /\ \A k \in m .. n : s[k] \in Nat
    BY <1>0
  <2>2. \A k \in 1 .. n - m + 1 : SubSeq(s, m, n)[k] = s[m + k - 1]
    BY <2>1, SubSeqProperties
  <2> QED
    BY <2>2
<1> HIDE DEF piece
<1>2. \A k \in i .. j : piece[k] = s[m + k - 1] /\ piece[k] \in Nat
  BY <1>0, <1>1
<1>3. /\ inner \in Seq(Nat) /\ Len(inner) = IF i <= j THEN j - i + 1 ELSE 0
      /\ \A k \in 1 .. j - i + 1 : inner[k] = piece[i + k - 1]
  BY <1>2, SubSeqProperties
<1>4. /\ outer \in Seq(Nat) /\ Len(outer) = IF m + i - 1 <= m + j - 1 THEN m + j - 1 - (m + i - 1) + 1 ELSE 0
      /\ \A k \in 1 .. m + j - 1 - (m + i - 1) + 1 : outer[k] = s[m + i - 1 + k - 1]
  <2>1. \A k \in m + i - 1 .. m + j - 1 : s[k] \in Nat
    BY <1>0
  <2>2. m + i - 1 \in Int /\ m + j - 1 \in Int
    BY <1>0
  <2> QED
    BY <2>1, <2>2, SubSeqProperties
<1> HIDE DEF inner, outer
<1>5. Len(inner) = Len(outer) /\ Len(outer) \in Nat
  BY <1>0, <1>3, <1>4
<1>6. \A k \in 1 .. Len(outer) : inner[k] = outer[k]
  <2> SUFFICES ASSUME NEW k \in 1 .. Len(outer) PROVE inner[k] = outer[k]
    OBVIOUS
  <2>1. k \in 1 .. j - i + 1 /\ k \in 1 .. m + j - 1 - (m + i - 1) + 1
    BY <1>0, <1>4
  <2>2. inner[k] = piece[i + k - 1] /\ outer[k] = s[m + i - 1 + k - 1]
    BY <1>3, <1>4, <2>1
  <2>3. piece[i + k - 1] = s[m + (i + k - 1) - 1]
    BY <1>2, <2>1
  <2>4. m + (i + k - 1) - 1 = m + i - 1 + k - 1
    BY <1>0
  <2> QED
    BY <2>2, <2>3, <2>4
<1>7. inner = outer
  BY <1>3, <1>4, <1>5, <1>6, SeqEqual
<1> QED
  BY <1>7 DEF inner, outer, piece

\* A part more, and the end of what was cut off for it.
LEMMA OnePieceMore ==
  ASSUME NEW ends \in [0 .. Len(parts) -> Nat], Pieces(ends), PartsOK, IsList(parts),
         parent \in Parents, parent' = parent,
         NEW part, IsPart(part), parts' = Append(parts, part),
         part.size <= Len(rest), rest' = SubSeq(rest, part.size + 1, Len(rest)),
         Len(part.content) >= part.size =>
           Cut(part.size, part.content) = SubSeq(rest, 1, part.size)
  PROVE  CutInPieces'
<1>g. parent.content \in Seq(Nat)
  BY FragmentsAssumption
<1> DEFINE whole == parent.content
           n     == Len(parts)
           full  == Len(whole)
           size  == part.size
           e     == ends[n]
           more  == [i \in 0 .. n + 1 |-> IF i = n + 1 THEN e + size ELSE ends[i]]
<1>l. /\ n \in Nat /\ DOMAIN parts = 1 .. n /\ full \in Nat /\ size \in Nat
      /\ e \in Nat /\ e <= full /\ rest = SubSeq(whole, e + 1, full) /\ size <= Len(rest)
  <2>1. n \in Nat /\ DOMAIN parts = 1 .. n
    BY ListHas
  <2>2. n \in 0 .. n
    BY <2>1
  <2>3. e \in Nat
    BY <2>2
  <2>4. full \in Nat
    BY <1>g
  <2>5. e <= full /\ rest = SubSeq(whole, e + 1, full)
    BY <2>2 DEF Pieces
  <2> QED
    BY <2>1, <2>3, <2>4, <2>5 DEF IsPart
<1>1. /\ Len(Append(parts, part)) = Len(parts) + 1
      /\ DOMAIN Append(parts, part) = 1 .. Len(parts) + 1
      /\ Append(parts, part)[Len(parts) + 1] = part
      /\ \A i \in DOMAIN parts : Append(parts, part)[i] = parts[i]
  BY LongerList
<1>2. /\ Len(parts') = n + 1 /\ DOMAIN parts' = 1 .. n + 1
      /\ parts'[n + 1] = part /\ \A i \in DOMAIN parts : parts'[i] = parts[i]
  BY <1>1, Zenon
<1>s. whole \in Seq(Nat)
  BY <1>g
<1>f. full = Len(whole)
  OBVIOUS
<1>b. \A i \in 0 .. n : ends[i] <= full
  BY DEF Pieces
<1>0. ends[0] = 0 /\ \A i \in 1 .. n :
        /\ ends[i] = ends[i - 1] + parts[i].size
        /\ Len(parts[i].content) >= parts[i].size =>
             Cut(parts[i].size, parts[i].content) = SubSeq(whole, ends[i - 1] + 1, ends[i])
  BY <1>l DEF Pieces
<1>9. ASSUME more \in [0 .. n + 1 -> Nat], more[0] = 0, \A i \in 0 .. n + 1 : more[i] <= full,
             rest' = SubSeq(whole, more[n + 1] + 1, full),
             \A i \in 1 .. n + 1 :
               /\ more[i] = more[i - 1] + parts'[i].size
               /\ Len(parts'[i].content) >= parts'[i].size =>
                    Cut(parts'[i].size, parts'[i].content) = SubSeq(whole, more[i - 1] + 1, more[i])
      PROVE  CutInPieces'
  <2> HIDE DEF more
  <2> QED
    <3>1. more \in [0 .. Len(parts') -> Nat]
      BY <1>2, <1>9
    <3>2. /\ more[0] = 0 /\ \A i \in 0 .. Len(parts') : more[i] <= Len(parent'.content)
          /\ rest' = SubSeq(parent'.content, more[Len(parts')] + 1, Len(parent'.content))
          /\ \A i \in DOMAIN parts' :
               /\ more[i] = more[i - 1] + parts'[i].size
               /\ Len(parts'[i].content) >= parts'[i].size =>
                    Cut(parts'[i].size, parts'[i].content)
                      = SubSeq(parent'.content, more[i - 1] + 1, more[i])
      BY <1>2, <1>9
    <3>3. parent' \in Parents
      OBVIOUS
    <3> QED
      BY <3>1, <3>2, <3>3 DEF CutInPieces, Pieces
<1>c. /\ rest' = SubSeq(rest, size + 1, Len(rest))
      /\ Len(part.content) >= size => Cut(size, part.content) = SubSeq(rest, 1, size)
  OBVIOUS
<1>p. part.size = size
  OBVIOUS
<1>6. /\ more \in [0 .. n + 1 -> Nat] /\ more[n + 1] = e + size
      /\ \A i \in 0 .. n : more[i] = ends[i]
  <2> HIDE DEF e, n, size, full
  <2>1. \A i \in 0 .. n + 1 : i # n + 1 => i \in 0 .. n
    BY <1>l
  <2>2. \A i \in 0 .. n : ends[i] \in Nat
    BY DEF n
  <2> QED
    BY <1>l, <2>1, <2>2
<1>e. e = ends[n]
  OBVIOUS
<1> HIDE DEF n, full, size, e, more, whole
<1>3. Len(rest) = full - e
  <2>1. e + 1 \in 1 .. full + 1 /\ full \in 0 .. full
    BY <1>l
  <2>2. Len(SubSeq(whole, e + 1, full)) = IF e + 1 <= full THEN full - (e + 1) + 1 ELSE 0
    BY <1>s, <1>f, <2>1, PieceIs
  <2> QED
    BY <1>l, <2>2
<1>4. rest' = SubSeq(whole, e + size + 1, full) /\ e + size <= full
  <2>1. /\ e + 1 \in 1 .. full + 1 /\ full \in 0 .. full /\ size + 1 \in Nat /\ 1 <= size + 1
        /\ full - e \in Nat /\ e + 1 + (full - e) - 1 <= full
    BY <1>l
  <2>2. SubSeq(SubSeq(whole, e + 1, full), size + 1, full - e)
          = SubSeq(whole, e + 1 + (size + 1) - 1, e + 1 + (full - e) - 1)
    BY <1>s, <1>f, <2>1, PieceOfPiece
  <2>3. e + 1 + (size + 1) - 1 = e + size + 1 /\ e + 1 + (full - e) - 1 = full /\ e + size <= full
    BY <1>l, <1>3
  <2> QED
    BY <1>c, <1>l, <1>3, <2>2, <2>3
<1>5. Len(part.content) >= size => Cut(size, part.content) = SubSeq(whole, e + 1, e + size)
  <2>1. e + 1 \in 1 .. full + 1 /\ full \in 0 .. full /\ 1 \in Nat /\ 1 <= 1 /\ e + 1 + size - 1 <= full
    BY <1>l, <1>4
  <2>2. SubSeq(SubSeq(whole, e + 1, full), 1, size) = SubSeq(whole, e + 1 + 1 - 1, e + 1 + size - 1)
    <3>1. size \in Nat
      BY <1>l
    <3> QED
      BY <1>s, <1>f, <2>1, <3>1, PieceOfPiece
  <2>3. e + 1 + 1 - 1 = e + 1 /\ e + 1 + size - 1 = e + size
    BY <1>l
  <2> QED
    BY <1>c, <1>l, <2>2, <2>3
<1>7. more[0] = 0 /\ more[n] = e
  <2>1. 0 \in 0 .. n /\ n \in 0 .. n
    BY <1>l
  <2> QED
    BY <1>0, <1>6, <1>e, <2>1
<1>m. \A i \in 0 .. n + 1 : more[i] <= full
  <2>1. \A i \in 0 .. n + 1 : i \in 0 .. n \/ i = n + 1
    BY <1>l
  <2> QED
    BY <1>b, <1>4, <1>6, <2>1
<1>8. ASSUME NEW i \in 1 .. n + 1
      PROVE  /\ more[i] = more[i - 1] + parts'[i].size
             /\ Len(parts'[i].content) >= parts'[i].size =>
                  Cut(parts'[i].size, parts'[i].content) = SubSeq(whole, more[i - 1] + 1, more[i])
  <2>1. CASE i = n + 1
    <3>1. more[i] = e + size /\ more[i - 1] = e /\ parts'[i] = part
      <4>1. i - 1 = n
        BY <1>l, <2>1
      <4> QED
        BY <1>2, <1>6, <1>7, <2>1, <4>1
    <3> QED
      BY <1>5, <1>p, <3>1
  <2>2. CASE i # n + 1
    <3>1. i \in 1 .. n /\ i \in 0 .. n /\ i - 1 \in 0 .. n
      BY <1>l, <2>2
    <3>2. more[i] = ends[i] /\ more[i - 1] = ends[i - 1] /\ parts'[i] = parts[i]
      BY <1>l, <1>2, <1>6, <3>1
    <3> QED
      BY <1>0, <3>1, <3>2
  <2> QED
    BY <2>1, <2>2
<1> QED
  BY <1>2, <1>4, <1>6, <1>7, <1>8, <1>9, <1>m

\* Whatever is cut off goes to the part that is made of it.
LEMMA CutInPiecesKept ==
  ASSUME IInv, PartsOK, CutInPieces, MakesParts \/ SendsOne \/ RewritesOne \/ TakesOne \/ LeavesAll
  PROVE  CutInPieces'
<1>l. IsList(parts)
  BY DEF IInv, Counted, IsList
<1>r. rest \in Seq(Nat) /\ Len(rest) \in Nat
  BY DEF PartsOK
<1>e. PICK ends \in [0 .. Len(parts) -> Nat] : Pieces(ends)
  BY DEF CutInPieces
<1>p. parent \in Parents
  BY DEF CutInPieces
<1>f. parent' = parent
  <2>1. UNCHANGED setVars => parent' = parent
    BY DEF setVars
  <2>2. CASE MakesParts
    BY <2>1, <2>2 DEF MakesParts, FragmentsNext, WithKeys, WithOneKey, Attribute, WithoutAttribute,
                      WithOriginalFilename, WithCount, NextPart, Terminate, Stop
  <2> QED
    BY <2>1, <2>2 DEF SendsOne, RewritesOne, TakesOne, LeavesAll, Same, fragmentsVars
<1>1. CASE parts' = parts /\ rest' = rest
  BY <1>1, <1>f DEF CutInPieces, Pieces
<1>2. CASE NextPart /\ ~Panics
  <2>1. PICK size, held \in 0 .. Len(rest) :
          /\ parts' = Append(parts, FromParts(size, With(Part(index', count), "filename", "part"),
                                              SubSeq(rest, 1, held)))
          /\ rest' = SubSeq(rest, size + 1, Len(rest))
    BY <1>2, CutOffIs
  <2> DEFINE part == FromParts(size, With(Part(index', count), "filename", "part"), SubSeq(rest, 1, held))
  <2>2. part.size = size /\ part.content = SubSeq(rest, 1, held) /\ parts' = Append(parts, part)
    BY <2>1 DEF FromParts
  <2> HIDE DEF part
  <2>3. 1 \in 1 .. Len(rest) + 1 /\ held - 1 + 1 = held /\ size \in Nat /\ held \in Nat
    BY <1>r
  <2>4. SubSeq(rest, 1, held) \in Seq(Nat) /\ Len(SubSeq(rest, 1, held)) = IF 1 <= held THEN held - 1 + 1 ELSE 0
    BY <1>r, <2>3, PieceIs
  <2>5. Len(SubSeq(rest, 1, held)) = held
    BY <2>3, <2>4
  <2>6. IsPart(part)
    BY <2>2, <2>3, <2>4 DEF IsPart
  <2>7. held >= size => Cut(size, SubSeq(rest, 1, held)) = SubSeq(rest, 1, size)
    <3> SUFFICES ASSUME held >= size PROVE Cut(size, SubSeq(rest, 1, held)) = SubSeq(rest, 1, size)
      OBVIOUS
    <3> DEFINE read == SubSeq(rest, 1, held)
    <3>1. read \in Seq(Nat) /\ size <= Len(read)
      BY <2>3, <2>4, <2>5
    <3>3. SubSeq(read, 1, size) = SubSeq(rest, 1 + 1 - 1, 1 + size - 1)
      <4>1. 1 \in Nat /\ 1 <= 1 /\ 1 + size - 1 <= held
        BY <2>3
      <4> QED
        BY <1>r, <2>3, <4>1, PieceOfPiece
    <3> HIDE DEF read
    <3>2. Cut(size, read) = SubSeq(read, 1, size)
      BY <2>3, <3>1, CutIs
    <3>4. 1 + 1 - 1 = 1 /\ 1 + size - 1 = size
      BY <2>3
    <3>5. Cut(size, read) = SubSeq(rest, 1, size)
      BY <3>2, <3>3, <3>4
    <3> QED
      BY <3>5 DEF read
  <2>8. /\ part.size <= Len(rest) /\ rest' = SubSeq(rest, part.size + 1, Len(rest))
        /\ Len(part.content) >= part.size =>
             Cut(part.size, part.content) = SubSeq(rest, 1, part.size)
    BY <1>r, <2>1, <2>2, <2>5, <2>7
  <2> QED
    BY <1>e, <1>f, <1>l, <1>p, <2>2, <2>6, <2>8, OnePieceMore
<1>3. CASE Terminate /\ ~Panics
  <2> DEFINE part == Build(Part(index + 1, {index + 1}), <<>>)
  <2>1. parts' = Append(parts, part) /\ rest' = rest /\ rest = <<>>
    BY <1>3 DEF Terminate
  <2>2. part.size = 0 /\ part.content = <<>>
    BY DEF Build, FromParts
  <2> HIDE DEF part
  <2>3. IsPart(part)
    BY <2>2 DEF IsPart
  <2> DEFINE none == <<>>
  <2>4. none \in Seq(Nat) /\ Len(none) = 0 /\ SubSeq(none, 1, 0) = none
    <3>1. none \in Seq(Nat) /\ Len(none) = 0
      OBVIOUS
    <3>2. SubSeq(none, 1, 0) = <<>>
      BY SubSeqEmpty
    <3> QED
      BY <3>1, <3>2
  <2>5. rest = none /\ part.content = none
    BY <2>1, <2>2
  <2> HIDE DEF none
  <2>6. Cut(0, none) = none
    BY <2>4, CutIs
  <2>7. /\ part.size <= Len(rest) /\ rest' = SubSeq(rest, part.size + 1, Len(rest))
        /\ Len(part.content) >= part.size =>
             Cut(part.size, part.content) = SubSeq(rest, 1, part.size)
    BY <2>1, <2>2, <2>4, <2>5, <2>6
  <2> QED
    BY <1>e, <1>f, <1>l, <1>p, <2>1, <2>3, <2>7, OnePieceMore
<1>4. CASE MakesParts
  <2>1. CASE Panics
    BY <1>1, <2>1 DEF Panics
  <2>2. CASE WithKeys \/ WithOneKey \/ Attribute \/ WithoutAttribute \/ WithOriginalFilename \/ WithCount \/ Stop
    BY <1>1, <2>2 DEF WithKeys, WithOneKey, Attribute, WithoutAttribute, WithOriginalFilename, WithCount, Stop
  <2> QED
    BY <1>2, <1>3, <1>4, <2>1, <2>2 DEF MakesParts, FragmentsNext
<1>5. CASE SendsOne \/ UNCHANGED fragmentsVars
  BY <1>1, <1>5 DEF SendsOne, fragmentsVars
<1> QED
  BY <1>4, <1>5 DEF RewritesOne, TakesOne, LeavesAll, Same

(***************************************************************************)
(* Putting the pieces together                                             *)
(***************************************************************************)

\* What holds of 0, and of a number with the one before, holds of all.
LEMMA Upwards ==
  ASSUME NEW n \in Nat, NEW T, 0 \in T, \A k \in 1 .. n : k - 1 \in T => k \in T
  PROVE  n \in T
<1> DEFINE Missing == {k \in 0 .. n : k \notin T}
<1> SUFFICES ASSUME Missing # {} PROVE FALSE
  OBVIOUS
<1>1. Missing \in SUBSET Nat
  OBVIOUS
<1> DEFINE Less == {pair \in Nat \X Nat : pair[1] < pair[2]}
<1>2. PICK x \in Missing : \A y \in Missing : ~ (<<y, x>> \in Less)
  <2>1. IsWellFoundedOn(Less, Nat)
    BY NatLessThanWellFounded DEF OpToRel
  <2> HIDE DEF Missing, Less
  <2> QED
    BY <1>1, <2>1, WFMin, Zenon
<1>3. \A y \in Missing : ~ (y < x)
  BY <1>1, <1>2
<1>4. x \in 1 .. n
  OBVIOUS
<1>5. x - 1 \in 0 .. n /\ x - 1 < x /\ x \notin T
  BY <1>4
<1> QED
  BY <1>3, <1>4, <1>5

\* A concatenation as FlattenSeq makes it.
Flattens(flat, pieces) ==
  flat = [i \in 1 .. Len(pieces) |-> IF i = 1 THEN pieces[i] ELSE flat[i - 1] \o pieces[i]]

\* The pieces of a content, one behind the other, are what it begins with.
LEMMA FlattenIs ==
  ASSUME NEW s \in Seq(Nat), NEW n \in Nat, n >= 1, NEW ends \in [0 .. n -> 0 .. Len(s)],
         ends[0] = 0, \A k \in 1 .. n : ends[k - 1] <= ends[k],
         NEW pieces, pieces = [k \in 1 .. n |-> SubSeq(s, ends[k - 1] + 1, ends[k])]
  PROVE  FlattenSeq(pieces) = SubSeq(s, 1, ends[n])
<1> DEFINE begins == [k \in 1 .. n |-> SubSeq(s, 1, ends[k])]
<1>1. Len(pieces) = n
  OBVIOUS
<1>2. \A k \in 1 .. n : k \in 0 .. n /\ k - 1 \in 0 .. n /\ (k # 1 => k - 1 \in 1 .. n)
  OBVIOUS
<1>3. ASSUME NEW k \in 1 .. n
      PROVE  SubSeq(s, 1, ends[k - 1]) \o SubSeq(s, ends[k - 1] + 1, ends[k]) = SubSeq(s, 1, ends[k])
  <2>1. /\ 1 \in 1 .. Len(s) + 1 /\ ends[k - 1] \in 1 - 1 .. Len(s)
        /\ ends[k] \in ends[k - 1] .. Len(s)
    <3>1. ends[k - 1] \in 0 .. Len(s) /\ ends[k] \in 0 .. Len(s) /\ ends[k - 1] <= ends[k]
      BY <1>2
    <3>2. Len(s) \in Nat
      OBVIOUS
    <3> QED
      BY <3>1, <3>2
  <2> QED
    BY <2>1, ConcatAdjacentSubSeq
<1>4. \A k \in 1 .. n : pieces[k] = SubSeq(s, ends[k - 1] + 1, ends[k])
  OBVIOUS
<1>5. pieces[1] = SubSeq(s, 1, ends[1])
  <2>1. 1 \in 1 .. n /\ ends[1 - 1] = 0
    OBVIOUS
  <2>2. pieces[1] = SubSeq(s, 0 + 1, ends[1])
    BY <1>4, <2>1
  <2> QED
    BY <2>2
<1>6. Flattens(begins, pieces)
  <2>1. \A k \in 1 .. n : k # 1 => begins[k - 1] = SubSeq(s, 1, ends[k - 1])
    BY <1>2
  <2>2. \A k \in 1 .. n : begins[k] = IF k = 1 THEN pieces[k] ELSE begins[k - 1] \o pieces[k]
    BY <1>3, <1>4, <1>5, <2>1
  <2>3. begins = [k \in 1 .. n |-> begins[k]]
    OBVIOUS
  <2> HIDE DEF begins
  <2>4. begins = [k \in 1 .. n |-> IF k = 1 THEN pieces[k] ELSE begins[k - 1] \o pieces[k]]
    BY <2>2, <2>3, Zenon
  <2> QED
    BY <1>1, <2>4 DEF Flattens
<1> DEFINE flat == CHOOSE f : Flattens(f, pieces)
<1>7. Flattens(flat, pieces)
  <2> HIDE DEF begins
  <2> QED
    BY <1>6
<1>8. FlattenSeq(pieces) = flat[n]
  <2>1. Len(pieces) # 0
    BY <1>1
  <2> HIDE DEF begins
  <2>2. FlattenSeq(pieces) = flat[Len(pieces)]
    BY <2>1 DEF FlattenSeq, Flattens
  <2> QED
    BY <1>1, <2>2
<1> HIDE DEF flat, begins
<1>9. \A k \in 1 .. n : flat[k] = IF k = 1 THEN pieces[k] ELSE flat[k - 1] \o pieces[k]
  BY <1>1, <1>7 DEF Flattens
<1> DEFINE T == {k \in 0 .. n : k = 0 \/ flat[k] = SubSeq(s, 1, ends[k])}
<1>10. 0 \in T
  OBVIOUS
<1>11. ASSUME NEW k \in 1 .. n, k - 1 \in T PROVE k \in T
  <2>1. CASE k = 1
    <3>1. flat[1] = pieces[1]
      BY <1>9, <2>1, Zenon
    <3>2. flat[k] = SubSeq(s, 1, ends[k])
      BY <1>5, <2>1, <3>1, Zenon
    <3> QED
      BY <3>2
  <2>2. CASE k # 1
    <3>1. flat[k - 1] = SubSeq(s, 1, ends[k - 1])
      BY <1>11, <2>2
    <3>2. flat[k] = flat[k - 1] \o pieces[k] /\ pieces[k] = SubSeq(s, ends[k - 1] + 1, ends[k])
      BY <1>4, <1>9, <2>2, Zenon
    <3>3. flat[k] = SubSeq(s, 1, ends[k])
      BY <1>3, <3>1, <3>2, Zenon
    <3> QED
      BY <3>3
  <2> QED
    BY <2>1, <2>2
<1>12. n \in T
  <2> HIDE DEF T
  <2> QED
    BY <1>10, <1>11, Upwards
<1>13. flat[n] = SubSeq(s, 1, ends[n])
  <2>1. n # 0
    OBVIOUS
  <2> QED
    BY <1>12, <2>1
<1> QED
  BY <1>8, <1>13

(***************************************************************************)
(* The merge                                                               *)
(***************************************************************************)

\* What a bin has gathered are the parts as they were sent.
LEMMA GatheredAre ==
  ASSUME InHand, ArrivesAsSent, NEW f \in Gathered
  PROVE  \E i \in Bin : /\ i \in DOMAIN parts /\ f \in arrived[i]
                        /\ f = AsSent(parts[i]) /\ HoldsItsSize(f)
                        /\ f.attributes = parts[i].attributes
<1>1. PICK i \in Bin : f \in arrived[i]
  BY DEF Gathered
<1>2. f = AsSent(parts[i]) /\ HoldsItsSize(f)
  BY <1>1 DEF ArrivesAsSent, AsSent
<1>3. i \in DOMAIN parts
  <2>1. i \in DOMAIN arrived /\ IsList(parts) /\ IsList(arrived) /\ Len(arrived) <= Len(parts)
    BY DEF Bin, InHand, Aligned
  <2>2. /\ DOMAIN arrived = 1 .. Len(arrived) /\ DOMAIN parts = 1 .. Len(parts)
        /\ Len(arrived) \in Nat /\ Len(parts) \in Nat
    BY <2>1, ListHas
  <2> QED
    BY <2>1, <2>2
<1>4. AsSent(parts[i]).attributes = parts[i].attributes
  BY DEF AsSent, FromParts
<1> QED
  BY <1>1, <1>2, <1>3, <1>4

\* A bin that fills has them all, and no more will be made.
LEMMA AllThere ==
  ASSUME IInv, InHand, ArrivesAsSent, Budgeted, DeclaresRight, Filled
  PROVE  /\ Bin = DOMAIN parts /\ parts # <<>>
         /\ \E i \in DOMAIN parts : keys.count \in DOMAIN parts[i].attributes
         /\ count = {Len(parts)} \/ (stage # "open" /\ rest = <<>>)
<1>1. PICK f \in Gathered : \E n \in 0 .. MaxParts :
        Values(f.attributes, keys.count) = {Decimal(n)} /\ Cardinality(Bin) >= n
  BY DEF Filled
<1>2. PICK n \in 0 .. MaxParts :
        Values(f.attributes, keys.count) = {Decimal(n)} /\ Cardinality(Bin) >= n
  BY <1>1
<1>3. PICK i \in Bin : i \in DOMAIN parts /\ f.attributes = parts[i].attributes
  BY GatheredAre
<1>4. keys.count \in DOMAIN parts[i].attributes /\ parts[i].attributes[keys.count] = Decimal(n)
  BY <1>2, <1>3 DEF Values
<1>l. /\ IsList(parts) /\ Len(parts) \in Nat /\ DOMAIN parts = 1 .. Len(parts)
      /\ IsList(arrived) /\ Len(arrived) \in Nat /\ DOMAIN arrived = 1 .. Len(arrived)
      /\ Len(arrived) <= Len(parts)
  <2>1. IsList(parts) /\ IsList(arrived) /\ Len(arrived) <= Len(parts)
    BY DEF InHand, Aligned
  <2> QED
    BY <2>1, ListHas
<1>m. /\ Len(parts) <= MaxParts /\ MaxParts \in Nat /\ count \subseteq 0 .. MaxParts
      /\ \A m \in count : count = {m} /\ Len(parts) <= m
  BY FragmentsAssumption DEF Budgeted, IInv, Counted
<1>5. Bin \subseteq 1 .. Len(parts)
  BY <1>l DEF Bin
<1>6. /\ Cardinality(Bin) \in Nat /\ Cardinality(Bin) <= Len(parts)
      /\ Cardinality(Bin) = Len(parts) => Bin = 1 .. Len(parts)
  <2>1. IsFiniteSet(1 .. Len(parts)) /\ Cardinality(1 .. Len(parts)) = Len(parts)
    <3>1. 1 \in Int /\ Len(parts) \in Int
      BY <1>l
    <3>2. /\ IsFiniteSet(1 .. Len(parts))
          /\ Cardinality(1 .. Len(parts)) = IF 1 > Len(parts) THEN 0 ELSE Len(parts) - 1 + 1
      BY <3>1, FS_Interval
    <3> QED
      BY <1>l, <3>2
  <2>2. /\ IsFiniteSet(Bin) /\ Cardinality(Bin) <= Cardinality(1 .. Len(parts))
        /\ Cardinality(1 .. Len(parts)) = Cardinality(Bin) => 1 .. Len(parts) = Bin
    BY <1>5, <2>1, FS_Subset
  <2>3. Cardinality(Bin) \in Nat
    BY <2>2, FS_CardinalityType
  <2> QED
    BY <2>1, <2>2, <2>3
<1>7. n >= Len(parts) /\ (count = {n} \/ (stage # "open" /\ rest = <<>>))
  <2>1. CASE \E m \in count : parts[i].attributes[keys.count] = Decimal(m)
    <3>1. PICK m \in count : parts[i].attributes[keys.count] = Decimal(m)
      BY <2>1
    <3>2. m \in 0 .. MaxParts /\ count = {m} /\ Len(parts) <= m
      BY <1>m
    <3>3. m = n
      BY <1>4, <3>1, <3>2, FragmentsAssumption
    <3> QED
      BY <3>2, <3>3
  <2>2. CASE /\ stage # "open" /\ rest = <<>>
             /\ parts[i].attributes[keys.count] = Decimal(Len(parts))
    <3>1. Len(parts) \in 0 .. MaxParts
      BY <1>l, <1>m
    <3>2. Len(parts) = n
      BY <1>4, <2>2, <3>1, FragmentsAssumption
    <3> QED
      BY <1>l, <2>2, <3>2
  <2> QED
    BY <1>3, <1>4, <2>1, <2>2 DEF DeclaresRight
<1>8. Cardinality(Bin) = Len(parts) /\ n = Len(parts)
  <2> DEFINE held == Cardinality(Bin)
  <2>1. held >= n /\ held \in Nat /\ held <= Len(parts) /\ n >= Len(parts)
    BY <1>2, <1>6, <1>7
  <2> DEFINE made == Len(parts)
  <2>2. n \in Nat /\ made \in Nat
    BY <1>l, <1>m
  <2>4. held >= n /\ held <= made /\ n >= made
    BY <2>1
  <2> HIDE DEF held, made
  <2>3. held = made /\ n = made
    BY <2>1, <2>2, <2>4
  <2> QED
    BY <2>3 DEF held, made
<1>9. parts # <<>> /\ \E j \in DOMAIN parts : keys.count \in DOMAIN parts[j].attributes
  <2>1. i \in DOMAIN parts
    BY <1>3
  <2> QED
    BY <1>4, <2>1
<1> QED
  BY <1>6, <1>7, <1>8, <1>9, <1>l

\* All parts, in the order of their index, are what was cut off.
LEMMA ReassembledIs ==
  ASSUME IInv, InHand, ArrivesAsSent, Budgeted, CutInPieces, Bin = DOMAIN parts, parts # <<>>
  PROVE  Reassembled \o rest = parent.content
<1>e. PICK ends \in [0 .. Len(parts) -> Nat] : Pieces(ends)
  BY DEF CutInPieces
<1> DEFINE whole == parent.content
           n     == Len(parts)
           full  == Len(whole)
           e     == ends[n]
           Indexed(k) == {f \in Gathered : Values(f.attributes, keys.index) = {Decimal(k)}}
           all    == [k \in 0 .. MaxParts |-> IF k <= n THEN ends[k] ELSE e]
           pieces == [k \in 1 .. MaxParts |->
                        IF Indexed(k) = {} THEN <<>> ELSE (CHOOSE f \in Indexed(k) : TRUE).content]
<1>s. whole \in Seq(Nat) /\ full \in Nat
  BY FragmentsAssumption DEF CutInPieces
<1>l. n \in Nat /\ DOMAIN parts = 1 .. n /\ n >= 1
  <2>1. IsList(parts)
    BY DEF InHand, Aligned
  <2>2. n \in Nat /\ DOMAIN parts = 1 .. n
    BY <2>1, ListHas
  <2>3. n = 0 => parts = <<>>
    BY <2>1 DEF IsList
  <2> QED
    BY <2>2, <2>3
<1>m. MaxParts \in Nat /\ n <= MaxParts
  BY FragmentsAssumption DEF Budgeted
<1>p. /\ ends[0] = 0 /\ \A k \in 0 .. n : ends[k] <= full /\ ends[k] \in Nat
      /\ rest = SubSeq(whole, e + 1, full)
      /\ \A k \in 1 .. n :
           /\ ends[k] = ends[k - 1] + parts[k].size
           /\ Len(parts[k].content) >= parts[k].size =>
                Cut(parts[k].size, parts[k].content) = SubSeq(whole, ends[k - 1] + 1, ends[k])
  BY <1>e, <1>l DEF Pieces
<1>r. Reassembled = FlattenSeq(pieces)
  BY DEF Reassembled
<1>f. full = Len(whole) /\ e = ends[n]
  OBVIOUS
<1>i. ASSUME NEW f \in Gathered, NEW k \in 1 .. MaxParts, Values(f.attributes, keys.index) = {Decimal(k)}
      PROVE  k \in 1 .. n /\ f = AsSent(parts[k]) /\ HoldsItsSize(f)
  <2>1. PICK i \in Bin : /\ i \in DOMAIN parts /\ f = AsSent(parts[i]) /\ HoldsItsSize(f)
                         /\ f.attributes = parts[i].attributes
    BY GatheredAre
  <2>2. keys.index \in DOMAIN parts[i].attributes /\ parts[i].attributes[keys.index] = Decimal(i)
    BY <2>1 DEF IInv, Numbered
  <2>3. Decimal(i) = Decimal(k)
    BY <1>i, <2>1, <2>2 DEF Values
  <2>4. i \in 1 .. n /\ i \in 0 .. MaxParts /\ k \in 0 .. MaxParts
    BY <1>l, <1>m, <2>1
  <2>5. i = k
    BY <2>3, <2>4, FragmentsAssumption
  <2> QED
    BY <2>1, <2>4, <2>5
<1>j. ASSUME NEW k \in 1 .. n
      PROVE  Indexed(k) # {}
  <2>1. k \in Bin /\ arrived[k] # {} /\ k \in DOMAIN parts
    BY <1>l DEF Bin
  <2>2. PICK f \in arrived[k] : TRUE
    BY <2>1
  <2>3. f \in Gathered /\ f = AsSent(parts[k])
    BY <2>1, <2>2 DEF Gathered, ArrivesAsSent, AsSent
  <2>4. f.attributes = parts[k].attributes
    BY <2>3 DEF AsSent, FromParts
  <2>5. keys.index \in DOMAIN parts[k].attributes /\ parts[k].attributes[keys.index] = Decimal(k)
    BY <2>1 DEF IInv, Numbered
  <2>6. Values(f.attributes, keys.index) = {Decimal(k)}
    BY <2>4, <2>5 DEF Values
  <2> QED
    BY <2>3, <2>6
<1>c. ASSUME NEW k \in 1 .. n
      PROVE  pieces[k] = SubSeq(whole, ends[k - 1] + 1, ends[k])
  <2> DEFINE one == CHOOSE f \in Indexed(k) : TRUE
  <2>1. k \in 1 .. MaxParts
    BY <1>l, <1>m
  <2>2. one \in Indexed(k)
    BY <1>j
  <2>3. pieces[k] = one.content
    BY <1>j, <2>1
  <2> HIDE DEF one
  <2>4. one = AsSent(parts[k]) /\ HoldsItsSize(one)
    BY <1>i, <2>1, <2>2
  <2> DEFINE read == Cut(parts[k].size, parts[k].content)
  <2>5. one.size = parts[k].size /\ one.content = read
    BY <2>4 DEF AsSent, FromParts
  <2>6. IsPart(parts[k])
    BY <1>l DEF InHand, PartsOK
  <2>7. /\ Len(read) = IF parts[k].size < Len(parts[k].content)
                       THEN parts[k].size ELSE Len(parts[k].content)
        /\ parts[k].size \in Nat /\ Len(parts[k].content) \in Nat
    BY <2>6, CutIs DEF IsPart
  <2> HIDE DEF read
  <2>8. Len(parts[k].content) >= parts[k].size
    BY <2>4, <2>5, <2>7 DEF HoldsItsSize
  <2> USE DEF read
  <2> QED
    BY <1>p, <2>3, <2>5, <2>8
<1>d. ASSUME NEW k \in 1 .. MaxParts, k \notin 1 .. n
      PROVE  pieces[k] = <<>>
  <2>1. Indexed(k) = {}
    BY <1>d, <1>i
  <2> QED
    BY <2>1
<1>g. pieces = [k \in 1 .. MaxParts |-> pieces[k]]
  OBVIOUS
<1> HIDE DEF pieces, Indexed, whole, full, n, e
<1>1. /\ all \in [0 .. MaxParts -> 0 .. Len(whole)]
      /\ \A k \in 0 .. MaxParts : all[k] = IF k <= n THEN ends[k] ELSE e
  <2>1. \A k \in 0 .. MaxParts : k <= n => k \in 0 .. n
    BY <1>l, <1>m
  <2>2. n \in 0 .. n
    BY <1>l
  <2>3. \A k \in 0 .. n : ends[k] \in 0 .. Len(whole)
    BY <1>f, <1>p, <1>s
  <2> QED
    BY <1>f, <2>1, <2>2, <2>3
<1> HIDE DEF all
<1>2. all[0] = 0 /\ all[MaxParts] = e
  <2>1. 0 \in 0 .. MaxParts /\ MaxParts \in 0 .. MaxParts /\ 0 <= n
    BY <1>l, <1>m
  <2>2. MaxParts <= n => MaxParts = n
    BY <1>l, <1>m
  <2> QED
    BY <1>1, <1>f, <1>p, <2>1, <2>2
<1>3. ASSUME NEW k \in 1 .. MaxParts
      PROVE  all[k - 1] <= all[k] /\ pieces[k] = SubSeq(whole, all[k - 1] + 1, all[k])
  <2>1. k \in 0 .. MaxParts /\ k - 1 \in 0 .. MaxParts
    BY <1>m
  <2>2. CASE k <= n
    <3>1. k \in 1 .. n /\ k - 1 <= n /\ k \in 0 .. n /\ k - 1 \in 0 .. n
      BY <1>l, <2>2
    <3>2. all[k] = ends[k] /\ all[k - 1] = ends[k - 1]
      BY <1>1, <2>1, <2>2, <3>1
    <3>3. ends[k] = ends[k - 1] + parts[k].size /\ parts[k].size \in Nat
      BY <1>l, <1>p, <3>1 DEF InHand, PartsOK, IsPart
    <3>4. ends[k - 1] <= ends[k]
      BY <1>p, <3>1, <3>3
    <3> QED
      BY <1>c, <3>1, <3>2, <3>4
  <2>3. CASE ~(k <= n)
    <3>1. k \notin 1 .. n /\ (k - 1 <= n => k - 1 = n)
      BY <1>l, <2>3
    <3>2. all[k] = e /\ all[k - 1] = e
      BY <1>1, <1>f, <2>1, <2>3, <3>1
    <3>3. pieces[k] = <<>>
      BY <1>d, <3>1
    <3>4. e \in Nat
      BY <1>1, <1>2, <1>m
    <3>5. SubSeq(whole, e + 1, e) = <<>>
      BY <3>4, SubSeqEmpty
    <3> QED
      BY <3>2, <3>3, <3>4, <3>5
  <2> QED
    BY <2>2, <2>3
<1>4. pieces = [k \in 1 .. MaxParts |-> SubSeq(whole, all[k - 1] + 1, all[k])]
  BY <1>3, <1>g, Zenon
<1>5. FlattenSeq(pieces) = SubSeq(whole, 1, all[MaxParts])
  <2>1. MaxParts >= 1
    BY <1>l, <1>m
  <2>2. \A k \in 1 .. MaxParts : all[k - 1] <= all[k]
    BY <1>3
  <2> QED
    BY <1>1, <1>2, <1>4, <1>m, <1>s, <2>1, <2>2, FlattenIs
<1>6. SubSeq(whole, 1, e) \o SubSeq(whole, e + 1, full) = SubSeq(whole, 1, full)
  <2>1. e \in 0 .. full
    BY <1>1, <1>2, <1>f, <1>m
  <2>2. 1 \in 1 .. Len(whole) + 1 /\ e \in 1 - 1 .. Len(whole) /\ full \in e .. Len(whole)
    BY <1>f, <1>s, <2>1
  <2> QED
    BY <1>s, <2>2, ConcatAdjacentSubSeq
<1>7. SubSeq(whole, 1, full) = whole
  BY <1>f, <1>s, SubSeqFull
<1>8. Reassembled \o rest = whole
  BY <1>2, <1>5, <1>6, <1>7, <1>p, <1>r
<1> QED
  BY <1>8 DEF whole

\* What is merged looks like the parent.
LEMMA LooksBack ==
  ASSUME IInv, Inherits, NEW attributesOf, Looks(attributesOf),
         NEW own \in {attributesOf, With(attributesOf, "uuid", "merged")}
  PROVE  LET made == DefragmentWith(own, keys)
         IN  /\ AllKeys(keys) \intersect DOMAIN made = {}
             /\ "original" \notin adjusted /\ "filename" \in DOMAIN parent.attributes =>
                  made["filename"] = parent.attributes["filename"]
             /\ \A key : key \notin (AllKeys(keys) \union AllKeys(DefaultKeys) \union adjusted
                                       \union {"uuid", "filename"}) =>
                  Values(made, key) = Values(parent.attributes, key)
<1> DEFINE first  == Without(own, {keys.original})
           names  == Values(own, keys.original)
           named  == WithEach(first, "filename", names)
           others == {keys.identifier, keys.index, keys.count}
           made   == Without(named, others)
<1>d. DefragmentWith(own, keys) = made
  BY DEF DefragmentWith
<1>k. /\ keys.identifier # "filename" /\ keys.index # "filename" /\ keys.count # "filename"
      /\ keys.original # "filename" /\ keys.original # "uuid"
      /\ AllKeys(keys) = others \union {keys.original}
  <2>1. {"uuid", "filename"} \intersect AllKeys(keys) = {}
    BY ChosenKeys DEF IInv, KeysOK
  <2> QED
    BY <2>1 DEF AllKeys
<1>o. ASSUME NEW key, key # "uuid"
      PROVE  Values(own, key) = Values(attributesOf, key)
  <2>1. Values(With(attributesOf, "uuid", "merged"), key) = Values(attributesOf, key)
    <3> DEFINE uuid == "uuid"
               fresh == "merged"
    <3>1. key # uuid
      BY <1>o
    <3> HIDE DEF uuid, fresh
    <3>2. Values(With(attributesOf, uuid, fresh), key) = Values(attributesOf, key)
      BY <3>1, ValuesWith
    <3> QED
      BY <3>2 DEF uuid, fresh
  <2> QED
    BY <2>1
<1> HIDE DEF first, names, named, others, made
<1>1. ASSUME NEW key
      PROVE  /\ key \in others => Values(made, key) = {}
             /\ key \notin others => Values(made, key) = Values(named, key)
  BY ValuesWithout DEF made
<1>2. ASSUME NEW key
      PROVE  /\ key = "filename" /\ names # {} => Values(named, key) = {CHOOSE value \in names : TRUE}
             /\ key # "filename" \/ names = {} => Values(named, key) = Values(first, key)
  BY ValuesWithEach DEF named
<1>3. ASSUME NEW key
      PROVE  /\ key = keys.original => Values(first, key) = {}
             /\ key # keys.original => Values(first, key) = Values(own, key)
  <2> DEFINE dropped == {keys.original}
  <2>1. first = Without(own, dropped) /\ (key \in dropped <=> key = keys.original)
    BY DEF first
  <2> HIDE DEF dropped
  <2>2. /\ key \in dropped => Values(Without(own, dropped), key) = {}
        /\ key \notin dropped => Values(Without(own, dropped), key) = Values(own, key)
    BY ValuesWithout
  <2> QED
    BY <2>1, <2>2
<1>4. AllKeys(keys) \intersect DOMAIN made = {}
  <2> SUFFICES ASSUME NEW key \in AllKeys(keys), key \in DOMAIN made PROVE FALSE
    OBVIOUS
  <2>1. Values(made, key) # {}
    BY DEF Values
  <2>2. key \notin others
    BY <1>1, <2>1
  <2>3. key = keys.original /\ key # "filename"
    BY <1>k, <2>2
  <2>4. Values(made, key) = Values(named, key) /\ Values(named, key) = Values(first, key)
        /\ Values(first, key) = {}
    BY <1>1, <1>2, <1>3, <2>2, <2>3
  <2> QED
    BY <2>1, <2>4
<1>5. ASSUME "original" \notin adjusted, "filename" \in DOMAIN parent.attributes
      PROVE  made["filename"] = parent.attributes["filename"]
  <2> DEFINE name == parent.attributes["filename"]
  <2>1. original = {name}
    BY <1>5 DEF Inherits, Values
  <2>2. Values(attributesOf, keys.original) = {name}
    BY <2>1 DEF Looks
  <2>3. names = {name}
    BY <1>k, <1>o, <2>2 DEF names
  <2> HIDE DEF name
  <2>4. Values(named, "filename") = {name}
    BY <1>2, <2>3
  <2>5. "filename" \notin others
    BY <1>k DEF others
  <2>6. Values(made, "filename") = {name}
    BY <1>1, <2>4, <2>5
  <2>7. made["filename"] = name
    BY <2>6 DEF Values
  <2> QED
    BY <2>7 DEF name
<1>6. ASSUME NEW key, key \notin (AllKeys(keys) \union AllKeys(DefaultKeys) \union adjusted
                                    \union {"uuid", "filename"})
      PROVE  Values(made, key) = Values(parent.attributes, key)
  <2>1. key \notin others /\ key # keys.original /\ key # "filename" /\ key # "uuid"
    BY <1>6, <1>k
  <2>2. Values(made, key) = Values(named, key)
    BY <1>1, <2>1
  <2>3. Values(named, key) = Values(first, key)
    BY <1>2, <2>1
  <2>4. Values(first, key) = Values(own, key)
    BY <1>3, <2>1
  <2>5. Values(own, key) = Values(attributesOf, key)
    BY <1>o, <2>1
  <2>6. Values(attributesOf, key) = Values(attributes, key)
    BY <1>6 DEF Looks
  <2>7. Values(attributes, key) = Values(parent.attributes, key)
    BY <1>6 DEF Inherits
  <2> QED
    BY <2>2, <2>3, <2>4, <2>5, <2>6, <2>7
<1> QED
  BY <1>4, <1>5, <1>6, <1>d

\* Nothing is added to what was merged.
LEMMA AfterMerge ==
  ASSUME IInv, InHand, Merged, merged # {},
         MakesParts \/ SendsOne \/ RewritesOne \/ TakesOne \/ LeavesAll
  PROVE  /\ UNCHANGED <<setVars, count, parts, rest>> /\ Bin' = Bin
         /\ stage # "open" => stage' # "open"
<1>b. /\ Bin = DOMAIN parts
      /\ count = {Len(parts)} \/ (stage # "open" /\ rest = <<>>)
      /\ \E i \in DOMAIN parts : keys.count \in DOMAIN parts[i].attributes
  BY DEF Merged
<1>a. /\ IsList(parts) /\ IsList(sent) /\ IsList(arrived)
      /\ Len(parts) \in Nat /\ Len(sent) \in Nat /\ Len(arrived) = Len(sent)
      /\ DOMAIN parts = 1 .. Len(parts) /\ DOMAIN sent = 1 .. Len(sent) /\ DOMAIN arrived = 1 .. Len(sent)
  <2>1. IsList(parts) /\ IsList(sent) /\ IsList(arrived) /\ Len(arrived) = Len(sent)
    BY DEF InHand, Aligned
  <2> QED
    BY <2>1, ListHas
<1>1. CASE UNCHANGED <<setVars, count, parts, rest, arrived>> /\ (stage # "open" => stage' # "open")
  BY <1>1 DEF Bin
<1>2. CASE MakesParts
  <2>1. arrived' = arrived
    BY <1>2 DEF MakesParts
  <2>2. ~ SettingUp /\ ~ WithCount
    <3>1. ~ WithCount
      BY <1>b DEF WithCount
    <3>2. ASSUME SettingUp PROVE FALSE
      <4>1. index = 0 /\ Len(parts) = 0
        BY <3>2 DEF SettingUp, IInv, Counted
      <4> QED
        BY <1>a, <1>b, <4>1
    <3> QED
      BY <3>1, <3>2
  <2>3. ASSUME NextPart \/ Terminate PROVE Panics
    <3>1. stage = "open" /\ Len(parts) = index /\ index \in Nat
      BY <1>a, <2>3 DEF NextPart, Terminate, IInv, Counted
    <3>2. count = {index}
      BY <1>b, <3>1
    <3>3. ~ (index + 1 <= index) /\ index # index + 1
      BY <3>1
    <3> QED
      BY <2>3, <3>2, <3>3 DEF NextPart, Terminate
  <2>4. CASE NextPart \/ Terminate
    <3>1. UNCHANGED <<setVars, count>>
      BY <2>4 DEF NextPart, Terminate
    <3> QED
      BY <1>1, <2>1, <2>3, <2>4, <3>1 DEF Panics
  <2>5. CASE Stop
    BY <1>1, <2>1, <2>5 DEF Stop
  <2> QED
    BY <1>2, <2>2, <2>4, <2>5 DEF MakesParts, FragmentsNext, WithKeys, WithOneKey, Attribute,
                                  WithoutAttribute, WithOriginalFilename
<1>3. CASE SendsOne
  <2>1. Len(sent) < Len(parts)
    BY <1>3 DEF SendsOne
  <2>2. Len(parts) \in DOMAIN parts /\ Len(parts) \notin DOMAIN arrived
    BY <1>a, <2>1
  <2> QED
    BY <1>b, <2>2 DEF Bin
<1>4. CASE TakesOne
  <2>1. PICK i \in DOMAIN sent : sent[i] # {}
    BY <1>4 DEF TakesOne
  <2>2. arrived[i] = {}
    BY <2>1 DEF InHand, Aligned
  <2>3. i \in DOMAIN parts
    <3>1. Len(sent) <= Len(parts)
      BY DEF InHand, Aligned
    <3> QED
      BY <1>a, <3>1
  <2> QED
    BY <1>b, <2>2, <2>3 DEF Bin
<1>5. CASE RewritesOne \/ LeavesAll
  BY <1>1, <1>5 DEF RewritesOne, LeavesAll, Same, fragmentsVars
<1> QED
  BY <1>2, <1>3, <1>4, <1>5

\* What the merge makes, of which parts.
LEMMA MergeMakes ==
  ASSUME InHand, ArrivesAsSent, PartsLook, Merge
  PROVE  \E attributesOf : Looks(attributesOf) /\
           \E own \in {attributesOf, With(attributesOf, "uuid", "merged")} :
             merged' = {Build(DefragmentWith(own, keys), Reassembled)}
<1>1. PICK f \in Gathered :
        \E own \in {DeriveKeepUuid(f), Derive(f, "merged")} :
          merged' = {Build(DefragmentWith(own, keys), Reassembled)}
  BY DEF Merge
<1>2. PICK i \in Bin : i \in DOMAIN parts /\ f.attributes = parts[i].attributes
  BY GatheredAre
<1>3. Looks(f.attributes)
  BY <1>2 DEF PartsLook
<1> DEFINE of == f.attributes
<1>4. \E own \in {of, With(of, "uuid", "merged")} :
        merged' = {Build(DefragmentWith(own, keys), Reassembled)}
  BY <1>1 DEF DeriveKeepUuid, Derive
<1>5. Looks(of)
  BY <1>3
<1> HIDE DEF of
<1> QED
  BY <1>4, <1>5

\* A bin is merged when it has everything, and nothing comes after.
LEMMA MergedKept ==
  ASSUME IInv, InHand, ArrivesAsSent, PartsLook, Budgeted, DeclaresRight, CutInPieces, Merged,
         MakesParts \/ SendsOne \/ RewritesOne \/ TakesOne \/ LeavesAll
  PROVE  Merged'
<1>1. CASE Merge
  <2>1. UNCHANGED <<setVars, count, parts, rest, stage, arrived>>
    BY <1>1 DEF Merge, fragmentsVars, transitVars
  <2>2. /\ Bin = DOMAIN parts /\ parts # <<>>
        /\ \E i \in DOMAIN parts : keys.count \in DOMAIN parts[i].attributes
        /\ count = {Len(parts)} \/ (stage # "open" /\ rest = <<>>)
    BY <1>1, AllThere DEF Merge
  <2>3. PICK own : merged' = {Build(own, Reassembled)}
    BY <1>1, MergeMakes
  <2>4. Build(own, Reassembled).content = Reassembled
    BY DEF Build, FromParts
  <2>5. Reassembled \o rest = parent.content
    BY <2>2, ReassembledIs
  <2>6. \A flowFile \in merged' : flowFile.content \o rest' = parent'.content
    BY <2>1, <2>3, <2>4, <2>5 DEF setVars
  <2>7. Bin' = Bin
    BY <2>1 DEF Bin
  <2> QED
    BY <2>1, <2>2, <2>6, <2>7 DEF Merged, setVars
<1>2. CASE merged' = merged /\ merged # {}
  <2>1. /\ UNCHANGED <<setVars, count, parts, rest>> /\ Bin' = Bin
        /\ stage # "open" => stage' # "open"
    BY <1>2, AfterMerge
  <2> QED
    BY <1>2, <2>1 DEF Merged, setVars
<1>3. CASE merged' = merged /\ merged = {}
  BY <1>3 DEF Merged
<1> QED
  BY <1>1, <1>2, <1>3 DEF MakesParts, SendsOne, RewritesOne, TakesOne, LeavesAll, Same, binVars

\* What was merged of a part has what the part had of the parent.
LEMMA LooksLikeTheParentKept ==
  ASSUME IInv, InHand, ArrivesAsSent, Inherits, PartsLook, Merged, LooksLikeTheParent,
         MakesParts \/ SendsOne \/ RewritesOne \/ TakesOne \/ LeavesAll
  PROVE  LooksLikeTheParent'
<1>1. CASE Merge
  <2>1. UNCHANGED setVars
    BY <1>1 DEF Merge, fragmentsVars
  <2>2. PICK attributesOf : Looks(attributesOf) /\
          \E own \in {attributesOf, With(attributesOf, "uuid", "merged")} :
            merged' = {Build(DefragmentWith(own, keys), Reassembled)}
    BY <1>1, MergeMakes
  <2>3. PICK own \in {attributesOf, With(attributesOf, "uuid", "merged")} :
          merged' = {Build(DefragmentWith(own, keys), Reassembled)}
    BY <2>2
  <2> DEFINE made == DefragmentWith(own, keys)
  <2>4. /\ AllKeys(keys) \intersect DOMAIN made = {}
        /\ "original" \notin adjusted /\ "filename" \in DOMAIN parent.attributes =>
             made["filename"] = parent.attributes["filename"]
        /\ \A key : key \notin (AllKeys(keys) \union AllKeys(DefaultKeys) \union adjusted
                                  \union {"uuid", "filename"}) =>
             Values(made, key) = Values(parent.attributes, key)
    BY <2>2, LooksBack
  <2>5. \A flowFile \in merged' : flowFile.attributes = made
    <3>1. Build(made, Reassembled).attributes = made
      BY DEF Build, FromParts
    <3> QED
      BY <2>3, <3>1
  <2> HIDE DEF made
  <2> QED
    BY <2>1, <2>4, <2>5 DEF LooksLikeTheParent, setVars
<1>2. CASE merged' = merged /\ merged # {}
  <2>1. UNCHANGED setVars
    BY <1>2, AfterMerge
  <2> QED
    BY <1>2, <2>1 DEF LooksLikeTheParent, setVars
<1>3. CASE merged' = merged /\ merged = {}
  BY <1>3 DEF LooksLikeTheParent
<1> QED
  BY <1>1, <1>2, <1>3 DEF MakesParts, SendsOne, RewritesOne, TakesOne, LeavesAll, Same, binVars

\* The set was whole when it was merged.
LEMMA Whole ==
  ASSUME IInv, InHand, Budgeted, Merged
  PROVE  MergesTheWhole
<1> SUFFICES ASSUME NEW flowFile \in merged
             PROVE  /\ flowFile.content \o rest = parent.content
                    /\ rest # <<>> => Overdrawn
                    /\ Cardinality(Bin) = Len(parts)
  BY DEF MergesTheWhole
<1>1. /\ flowFile.content \o rest = parent.content /\ Bin = DOMAIN parts
      /\ count = {Len(parts)} \/ (stage # "open" /\ rest = <<>>)
  BY DEF Merged
<1>2. rest # <<>> => Overdrawn
  BY <1>1 DEF Overdrawn, Budgeted
<1>3. Len(parts) \in Nat /\ DOMAIN parts = 1 .. Len(parts)
  <2>1. IsList(parts)
    BY DEF InHand, Aligned
  <2> QED
    BY <2>1, ListHas
<1>4. Cardinality(Bin) = Len(parts)
  <2>1. 1 \in Int /\ Len(parts) \in Int
    BY <1>3
  <2>2. Cardinality(1 .. Len(parts)) = IF 1 > Len(parts) THEN 0 ELSE Len(parts) - 1 + 1
    BY <2>1, FS_Interval
  <2> QED
    BY <1>1, <1>3, <2>2
<1> QED
  BY <1>1, <1>2, <1>4

(***************************************************************************)
(* The invariant, and what follows                                         *)
(***************************************************************************)

\* What the parts have of the parent.
PartsMade == Inherits /\ PartsLook /\ Budgeted /\ DeclaresRight /\ CutInPieces

\* All of the invariant.
BundleIInv ==
  /\ IInv /\ InHand /\ ArrivesAsSent /\ ToldRight
  /\ PartsMade /\ Merged /\ LooksLikeTheParent

\* It holds of a split that has not begun,
LEMMA BundleInit == Init => BundleIInv
<1> SUFFICES ASSUME Init PROVE BundleIInv
  OBVIOUS
<1>i. /\ FragmentsInit /\ parent \in Parents /\ parent.content \in Seq(Nat)
      /\ parts = <<>> /\ sent = <<>> /\ arrived = <<>> /\ rest = parent.content
      /\ told = {} /\ merged = {} /\ count = {} /\ index = 0 /\ adjusted = {}
      /\ original = Values(parent.attributes, "filename")
      /\ attributes = Without(parent.attributes, AllKeys(DefaultKeys))
  BY FragmentsAssumption DEF Init, FragmentsInit
<1>1. IInv
  BY <1>i, InitEstablishes
<1> DEFINE none == <<>>
<1>e. none \in Seq({}) /\ Len(none) = 0 /\ DOMAIN none = {}
  OBVIOUS
<1>2. InHand
  <2>1. IsList(none)
    BY <1>e, ListIs
  <2>2. parts = none /\ sent = none /\ arrived = none
    BY <1>i
  <2> HIDE DEF none
  <2> QED
    BY <1>e, <1>i, <2>1, <2>2 DEF InHand, Aligned, PartsOK, FormsOK
<1>3. ArrivesAsSent /\ ToldRight /\ Merged /\ LooksLikeTheParent /\ PartsLook /\ DeclaresRight
  BY <1>i DEF ArrivesAsSent, Bin, ToldRight, Merged, LooksLikeTheParent, PartsLook, DeclaresRight
<1>4. Inherits
  <2>1. ASSUME NEW key, key \notin AllKeys(DefaultKeys)
        PROVE  Values(attributes, key) = Values(parent.attributes, key)
    BY <1>i, <2>1, ValuesWithout
  <2> QED
    BY <1>i, <2>1 DEF Inherits
<1>5. Budgeted
  BY <1>e, <1>i, FragmentsAssumption DEF Budgeted
<1>6. CutInPieces
  <2> DEFINE ends == [i \in 0 .. 0 |-> 0]
  <2>1. /\ ends \in [0 .. Len(parts) -> Nat] /\ ends[0] = 0 /\ DOMAIN parts = {}
        /\ \A i \in 0 .. Len(parts) : ends[i] = 0
    BY <1>e, <1>i
  <2>2. Len(parts) = 0 /\ Len(parent.content) \in Nat
    BY <1>e, <1>i
  <2>3. rest = SubSeq(parent.content, 0 + 1, Len(parent.content))
    BY <1>i, SubSeqFull
  <2>4. ends[Len(parts)] = 0 /\ \A i \in 0 .. Len(parts) : ends[i] <= Len(parent.content)
    BY <2>1, <2>2
  <2> HIDE DEF ends
  <2>5. Pieces(ends)
    BY <2>1, <2>3, <2>4 DEF Pieces
  <2> QED
    BY <1>i, <2>1, <2>5 DEF CutInPieces
<1> QED
  BY <1>1, <1>2, <1>3, <1>4, <1>5, <1>6 DEF BundleIInv, PartsMade

\* and every step keeps it.
LEMMA BundleStep == BundleIInv /\ [Next]_vars => BundleIInv'
<1> SUFFICES ASSUME BundleIInv, [Next]_vars PROVE BundleIInv'
  OBVIOUS
<1>b. /\ IInv /\ InHand /\ ArrivesAsSent /\ ToldRight /\ Merged /\ LooksLikeTheParent
      /\ Inherits /\ PartsLook /\ Budgeted /\ DeclaresRight /\ CutInPieces
  BY DEF BundleIInv, PartsMade
<1>p. PartsOK
  BY <1>b DEF InHand
<1>s. MakesParts \/ SendsOne \/ RewritesOne \/ TakesOne \/ LeavesAll
  BY <1>b, Shape
<1>1. IInv'
  BY <1>b, <1>s, FragmentsKept
<1>2. InHand' /\ ArrivesAsSent'
  BY <1>b, <1>s, InHandKept
<1>3. ToldRight'
  BY <1>b, ToldRightKept
<1>4. Inherits' /\ PartsLook'
  BY <1>b, <1>p, <1>s, InheritsKept, PartsLookKept
<1>5. Budgeted' /\ DeclaresRight'
  BY <1>b, <1>p, <1>s, BudgetedKept, DeclaresRightKept
<1>6. CutInPieces'
  BY <1>b, <1>p, <1>s, CutInPiecesKept
<1>7. Merged'
  BY <1>b, <1>s, MergedKept
<1>8. LooksLikeTheParent'
  BY <1>b, <1>s, LooksLikeTheParentKept
<1> QED
  BY <1>1, <1>2, <1>3, <1>4, <1>5, <1>6, <1>7, <1>8 DEF BundleIInv, PartsMade

\* The invariant is one: what is on its way, what arrived and what was merged
\* is what the split made of the parent.
THEOREM BundleInvariance == Spec => []BundleIInv
BY BundleInit, BundleStep, PTL DEF Spec

\* Whichever forms a part takes on its way, of to_bytes, write_to, to-json and
\* from-json, and whatever damages it, what from_bytes, from_reader or
\* Deserialize accept is that part.
THEOREM PartsOnTheirWay == Spec => []ArrivesAsSent
<1>1. BundleIInv => ArrivesAsSent
  BY DEF BundleIInv
<1> QED
  BY <1>1, BundleInvariance, PTL

\* No part carries a value of an earlier split under a key of this one, whether
\* it is sent as it is made or not.
THEOREM PartsStayOwn == Spec => []NothingInherited
<1>1. BundleIInv => NothingInherited
  BY DEF BundleIInv, IInv
<1> QED
  BY <1>1, BundleInvariance, PTL

\* From<io::Error> for Error and From<Error> for io::Error undo each other
\* where it matters: a truncation is told as one however often it is passed on.
THEOREM TruncationsAreTold == Spec => []TruncationIsTold
<1>1. BundleIInv => TruncationIsTold
  BY TellsTruncations DEF BundleIInv
<1> QED
  BY <1>1, BundleInvariance, PTL

\* A bin that fills by the fragment.count of one of its parts holds them all,
\* and defragment puts the content back together.
THEOREM WholeSetsMerge == Spec => []MergesTheWhole
<1>1. BundleIInv => MergesTheWhole
  BY Whole DEF BundleIInv, PartsMade
<1> QED
  BY <1>1, BundleInvariance, PTL

\* defragment_with gives the result the parent's name and attributes, and
\* none of the split's.
THEOREM TheParentIsBack == Spec => []LooksLikeTheParent
<1>1. BundleIInv => LooksLikeTheParent
  BY DEF BundleIInv
<1> QED
  BY <1>1, BundleInvariance, PTL

(***************************************************************************)
(* Every set is dealt with                                                 *)
(***************************************************************************)

\* No part drops out of sight: one that is not under way has arrived, or is
\* known to be lost.
Watched ==
  /\ sender \in {"bytes", "write", "json", "streamed"}
  /\ lost \subseteq DOMAIN sent /\ handled \in 0 .. MaxHandled
  /\ \A i \in DOMAIN sent : sent[i] = {} => i \in lost \/ arrived[i] # {}

WatchedIInv == BundleIInv /\ Watched

\* The next part is sent, or is lost.
SendsNext ==
  /\ \E forms : /\ sent' = Append(sent, forms)
                /\ lost' = IF forms = {} THEN lost \union {Len(sent) + 1} ELSE lost
  /\ arrived' = Append(arrived, {})
  /\ UNCHANGED <<handled, outcome>>

\* One under way is changed, or is lost.
HandlesOne ==
  /\ \E i \in Transit :
       \/ sent' = sent /\ lost' = lost \union {i}
       \/ lost' = lost /\ \E forms : forms # {} /\ sent' = [sent EXCEPT ![i] = forms]
  /\ handled < MaxHandled /\ handled' = handled + 1
  /\ UNCHANGED <<arrived, outcome>>

\* One arrives, or is lost.
ReceivesOne ==
  /\ \E i \in Transit : \E flowFiles : Accepts(i, flowFiles)
  /\ UNCHANGED <<handled, outcome>>

\* The bin is merged or given up.
Finishes == outcome = "open" /\ outcome' # "open" /\ UNCHANGED transitVars

\* What was converted is something.
LEMMA ConvertedIsSomething ==
  ASSUME InHand, NEW i \in Transit, NEW form \in sent[i]
  PROVE  /\ form.form = "binary" /\ FromReader(form) # {} =>
              UNION {Serialize(f) : f \in FromReader(form)} # {}
         /\ form.form = "json" /\ Deserialize(form) # {} =>
              UNION {ToBytes(f) : f \in Deserialize(form)} # {}
<1>1. IsPart(parts[i]) /\ IsFormOf(form, parts[i])
  BY UnderWayIsForm
<1>2. ASSUME NEW f, HoldsItsSize(f) PROVE Serialize(f) # {} /\ ToBytes(f) # {}
  BY <1>2 DEF Serialize, ToBytes
<1>3. ASSUME form.form = "binary", NEW f \in FromReader(form) PROVE Serialize(f) # {}
  BY <1>1, <1>2, <1>3, ReadAsSent
<1>4. ASSUME form.form = "json", NEW f \in Deserialize(form) PROVE ToBytes(f) # {}
  BY <1>1, <1>2, <1>4, ReadAsSent
<1> QED
  BY <1>3, <1>4

\* Each step of the transport or the bin is one of these.
LEMMA DealtWith ==
  ASSUME InHand, Next, ~Split
  PROVE  SendsNext \/ HandlesOne \/ ReceivesOne \/ Finishes
<1>1. CASE Send
  <2>1. CASE SendFromMemory
    <3>1. /\ arrived' = Append(arrived, {}) /\ UNCHANGED <<handled, outcome>>
          /\ \/ Fails
             \/ \E form : Goes(form) /\ lost' = lost
      BY <2>1 DEF SendFromMemory, binVars
    <3>2. CASE Fails
      BY <3>1, <3>2 DEF Fails, SendsNext
    <3> QED
      BY <3>1, <3>2 DEF Goes, SendsNext
  <2>2. CASE SendFromReader
    <3>1. /\ arrived' = Append(arrived, {}) /\ UNCHANGED <<handled, outcome>>
          /\ \/ Fails
             \/ \E form : Goes(form) /\ lost' = lost
      BY <2>2 DEF SendFromReader, binVars
    <3>2. CASE Fails
      BY <3>1, <3>2 DEF Fails, SendsNext
    <3> QED
      BY <3>1, <3>2 DEF Goes, SendsNext
  <2> QED
    BY <1>1, <2>1, <2>2 DEF Send
<1>2. CASE Damage
  <2>1. PICK i \in UnderWay : \E damaged : sent' = [sent EXCEPT ![i] = {damaged}]
    BY <1>2 DEF Damage
  <2>2. i \in Transit /\ \E forms : forms # {} /\ sent' = [sent EXCEPT ![i] = forms]
    BY <2>1 DEF UnderWay
  <2>3. /\ handled < MaxHandled /\ handled' = handled + 1
        /\ lost' = lost /\ UNCHANGED <<arrived, outcome>>
    BY <1>2 DEF Damage, binVars
  <2> QED
    BY <2>2, <2>3 DEF HandlesOne
<1>3. CASE ToJson
  <2>1. /\ handled < MaxHandled /\ handled' = handled + 1 /\ UNCHANGED <<arrived, outcome>>
    BY <1>3 DEF ToJson, binVars
  <2>2. PICK i \in UnderWay : \E form \in sent[i] :
          \/ Gone(i)
          \/ /\ form.form = "binary" /\ FromReader(form) # {} /\ lost' = lost
             /\ sent' = [sent EXCEPT ![i] = UNION {Serialize(f) : f \in FromReader(form)}]
    BY <1>3 DEF ToJson
  <2>3. PICK form \in sent[i] :
          \/ Gone(i)
          \/ /\ form.form = "binary" /\ FromReader(form) # {} /\ lost' = lost
             /\ sent' = [sent EXCEPT ![i] = UNION {Serialize(f) : f \in FromReader(form)}]
    BY <2>2
  <2>4. i \in Transit
    BY DEF UnderWay
  <2>5. CASE Gone(i)
    BY <2>1, <2>4, <2>5 DEF Gone, HandlesOne
  <2>6. CASE ~Gone(i)
    <3>1. UNION {Serialize(f) : f \in FromReader(form)} # {}
      BY <2>3, <2>4, <2>6, ConvertedIsSomething
    <3>2. \E forms : forms # {} /\ sent' = [sent EXCEPT ![i] = forms]
      BY <2>3, <2>6, <3>1
    <3> QED
      BY <2>1, <2>3, <2>4, <2>6, <3>2 DEF HandlesOne
  <2> QED
    BY <2>5, <2>6
<1>4. CASE FromJson
  <2>1. /\ handled < MaxHandled /\ handled' = handled + 1 /\ UNCHANGED <<arrived, outcome>>
    BY <1>4 DEF FromJson, binVars
  <2>2. PICK i \in UnderWay : \E form \in sent[i] :
          \/ Gone(i)
          \/ /\ form.form = "json" /\ Deserialize(form) # {} /\ lost' = lost
             /\ sent' = [sent EXCEPT ![i] = UNION {ToBytes(f) : f \in Deserialize(form)}]
    BY <1>4 DEF FromJson
  <2>3. PICK form \in sent[i] :
          \/ Gone(i)
          \/ /\ form.form = "json" /\ Deserialize(form) # {} /\ lost' = lost
             /\ sent' = [sent EXCEPT ![i] = UNION {ToBytes(f) : f \in Deserialize(form)}]
    BY <2>2
  <2>4. i \in Transit
    BY DEF UnderWay
  <2>5. CASE Gone(i)
    BY <2>1, <2>4, <2>5 DEF Gone, HandlesOne
  <2>6. CASE ~Gone(i)
    <3>1. UNION {ToBytes(f) : f \in Deserialize(form)} # {}
      BY <2>3, <2>4, <2>6, ConvertedIsSomething
    <3>2. \E forms : forms # {} /\ sent' = [sent EXCEPT ![i] = forms]
      BY <2>3, <2>6, <3>1
    <3> QED
      BY <2>1, <2>3, <2>4, <2>6, <3>2 DEF HandlesOne
  <2> QED
    BY <2>5, <2>6
<1>5. CASE Arrive
  <2>1. UNCHANGED <<handled, outcome>>
    BY <1>5 DEF Arrive, ArriveWhole, ArriveStreamed, ArriveJson, binVars
  <2>2. \E i \in Transit : \E flowFiles : Accepts(i, flowFiles)
    BY <1>5 DEF Arrive, ArriveWhole, ArriveStreamed, ArriveJson
  <2> QED
    BY <2>1, <2>2 DEF ReceivesOne
<1>6. CASE Merge \/ TimesOut
  BY <1>6 DEF Merge, TimesOut, Finishes
<1> QED
  BY <1>1, <1>2, <1>3, <1>4, <1>5, <1>6 DEF Next

\* A list of flow files and a list of forms have the same places.
LEMMA SamePlaces ==
  ASSUME InHand
  PROVE  /\ IsList(sent) /\ IsList(arrived) /\ Len(sent) \in Nat /\ Len(arrived) = Len(sent)
         /\ DOMAIN sent = 1 .. Len(sent) /\ DOMAIN arrived = DOMAIN sent
         /\ Len(parts) \in Nat /\ DOMAIN parts = 1 .. Len(parts) /\ Len(sent) <= Len(parts)
<1>1. IsList(sent) /\ IsList(arrived) /\ IsList(parts) /\ Len(arrived) = Len(sent) /\ Len(sent) <= Len(parts)
  BY DEF InHand, Aligned
<1> QED
  BY <1>1, ListHas

LEMMA WatchedKept ==
  ASSUME InHand, Watched, [Next]_vars
  PROVE  Watched'
<1>1. /\ IsList(sent) /\ IsList(arrived) /\ Len(sent) \in Nat /\ Len(arrived) = Len(sent)
      /\ DOMAIN sent = 1 .. Len(sent) /\ DOMAIN arrived = DOMAIN sent
  BY SamePlaces
<1>2. sender' = sender
  BY DEF Next, vars, Split, Send, SendFromMemory, SendFromReader, Arrive, ArriveWhole, ArriveStreamed,
         ArriveJson, Damage, ToJson, FromJson, Merge, TimesOut
<1>3. CASE UNCHANGED transitVars
  BY <1>2, <1>3 DEF Watched, transitVars
<1>4. CASE SendsNext
  <2>1. PICK forms : /\ sent' = Append(sent, forms)
                     /\ lost' = IF forms = {} THEN lost \union {Len(sent) + 1} ELSE lost
    BY <1>4 DEF SendsNext
  <2>2. /\ DOMAIN sent' = 1 .. Len(sent) + 1 /\ sent'[Len(sent) + 1] = forms
        /\ \A i \in DOMAIN sent : sent'[i] = sent[i]
    BY <1>1, <2>1, LongerList
  <2>3. \A i \in DOMAIN sent : arrived'[i] = arrived[i]
    BY <1>1, <1>4, LongerList DEF SendsNext
  <2>4. \A i \in DOMAIN sent' : i \in DOMAIN sent \/ i = Len(sent) + 1
    BY <1>1, <2>2
  <2>5. DOMAIN sent \subseteq DOMAIN sent' /\ Len(sent) + 1 \in DOMAIN sent'
    BY <1>1, <2>2
  <2>6. handled' = handled
    BY <1>4 DEF SendsNext
  <2>7. lost' \subseteq DOMAIN sent'
    BY <2>1, <2>5 DEF Watched
  <2>8. \A i \in DOMAIN sent' : sent'[i] = {} => i \in lost' \/ arrived'[i] # {}
    BY <2>1, <2>2, <2>3, <2>4 DEF Watched
  <2> QED
    BY <1>2, <2>6, <2>7, <2>8 DEF Watched
<1>5. CASE HandlesOne
  <2>1. PICK i \in Transit :
          \/ sent' = sent /\ lost' = lost \union {i}
          \/ lost' = lost /\ \E forms : forms # {} /\ sent' = [sent EXCEPT ![i] = forms]
    BY <1>5 DEF HandlesOne
  <2>2. i \in DOMAIN sent /\ arrived' = arrived
    BY <1>5 DEF HandlesOne, Transit
  <2>3. handled' \in 0 .. MaxHandled
    BY <1>5, BundleAssumption DEF HandlesOne, Watched
  <2>4. CASE sent' = sent /\ lost' = lost \union {i}
    BY <1>2, <2>2, <2>3, <2>4 DEF Watched
  <2>5. CASE lost' = lost /\ \E forms : forms # {} /\ sent' = [sent EXCEPT ![i] = forms]
    BY <1>2, <2>2, <2>3, <2>5 DEF Watched
  <2> QED
    BY <2>1, <2>4, <2>5
<1>6. CASE ReceivesOne
  <2>0. PICK i \in Transit : \E flowFiles : Accepts(i, flowFiles)
    BY <1>6 DEF ReceivesOne
  <2>1. PICK flowFiles : Accepts(i, flowFiles)
    BY <2>0
  <2>2. i \in DOMAIN sent /\ i \in DOMAIN arrived /\ handled' = handled
    BY <1>1, <1>6 DEF ReceivesOne, Transit
  <2>3. /\ sent' = [sent EXCEPT ![i] = {}] /\ arrived' = [arrived EXCEPT ![i] = flowFiles]
        /\ lost' = IF flowFiles = {} THEN lost \union {i} ELSE lost
    BY <2>1 DEF Accepts
  <2>4. /\ DOMAIN sent' = DOMAIN sent /\ sent'[i] = {} /\ arrived'[i] = flowFiles
        /\ \A j \in DOMAIN sent : j # i => sent'[j] = sent[j] /\ arrived'[j] = arrived[j]
    BY <1>1, <2>2, <2>3
  <2>5. lost' \subseteq DOMAIN sent' /\ lost \subseteq lost'
    BY <2>2, <2>3, <2>4 DEF Watched
  <2>6. ASSUME NEW j \in DOMAIN sent', sent'[j] = {} PROVE j \in lost' \/ arrived'[j] # {}
    <3>1. CASE j = i
      BY <2>3, <2>4, <3>1
    <3>2. CASE j # i
      BY <2>4, <2>5, <2>6, <3>2 DEF Watched
    <3> QED
      BY <3>1, <3>2
  <2> QED
    BY <1>2, <2>2, <2>5, <2>6 DEF Watched
<1> QED
  BY <1>3, <1>4, <1>5, <1>6, DealtWith DEF vars, Split, Finishes

LEMMA WatchedInvariance == Spec => []WatchedIInv
<1>1. Init => WatchedIInv
  <2> SUFFICES ASSUME Init PROVE Watched
    BY BundleInit DEF WatchedIInv
  <2>1. /\ sent = <<>> /\ lost = {} /\ handled = 0
        /\ \E split \in Splits : sender = split[2]
    BY DEF Init
  <2>2. sender \in {"bytes", "write", "json", "streamed"}
    BY <2>1, BundleAssumption
  <2> QED
    BY <2>1, <2>2, BundleAssumption DEF Watched
<1>2. WatchedIInv /\ [Next]_vars => WatchedIInv'
  BY BundleStep, WatchedKept DEF WatchedIInv, BundleIInv
<1> QED
  BY <1>1, <1>2, PTL DEF Spec

\* How far a set is: the parts sent, those dealt with, what was done to them
\* on their way, and the bin.
Settled   == IF outcome = "open" THEN 0 ELSE 1
Delivered == 2 * Len(sent) - Cardinality(Transit) + handled + Settled

LEMMA DeliveredIs ==
  ASSUME InHand, Watched
  PROVE  /\ IsFiniteSet(Transit) /\ Cardinality(Transit) \in 0 .. Len(sent)
         /\ Len(sent) \in 0 .. Len(parts) /\ Len(parts) \in Nat
         /\ handled \in 0 .. MaxHandled /\ MaxHandled \in Nat /\ Settled \in {0, 1}
<1>1. Len(sent) \in Nat /\ DOMAIN sent = 1 .. Len(sent) /\ Len(parts) \in Nat /\ Len(sent) <= Len(parts)
  BY SamePlaces
<1>2. IsFiniteSet(1 .. Len(sent)) /\ Cardinality(1 .. Len(sent)) = Len(sent)
  <2>1. 1 \in Int /\ Len(sent) \in Int
    BY <1>1
  <2>2. /\ IsFiniteSet(1 .. Len(sent))
        /\ Cardinality(1 .. Len(sent)) = IF 1 > Len(sent) THEN 0 ELSE Len(sent) - 1 + 1
    BY <2>1, FS_Interval
  <2> QED
    BY <1>1, <2>2
<1>3. Transit \subseteq 1 .. Len(sent)
  BY <1>1 DEF Transit
<1>4. IsFiniteSet(Transit) /\ Cardinality(Transit) <= Len(sent)
  BY <1>2, <1>3, FS_Subset
<1>5. Cardinality(Transit) \in Nat
  BY <1>4, FS_CardinalityType
<1> QED
  BY <1>1, <1>4, <1>5, BundleAssumption DEF Watched, Settled

\* Sending, receiving, whatever is done on the way and the bin take a set
\* further.
LEMMA DeliversMore ==
  ASSUME InHand, Watched, Next, ~Split
  PROVE  Delivered' > Delivered
<1>1. /\ IsFiniteSet(Transit) /\ Cardinality(Transit) \in Nat /\ Len(sent) \in Nat
      /\ handled \in Nat /\ Settled \in {0, 1}
  BY DeliveredIs
<1>2. /\ IsList(sent) /\ DOMAIN sent = 1 .. Len(sent)
  BY SamePlaces
<1>3. CASE SendsNext
  <2>1. PICK forms : /\ sent' = Append(sent, forms)
                     /\ lost' = IF forms = {} THEN lost \union {Len(sent) + 1} ELSE lost
    BY <1>3 DEF SendsNext
  <2>2. /\ Len(sent') = Len(sent) + 1 /\ DOMAIN sent' = 1 .. Len(sent) + 1
        /\ \A i \in DOMAIN sent : sent'[i] = sent[i]
    BY <1>2, <2>1, LongerList
  <2>3. \A i \in DOMAIN sent' : i \in DOMAIN sent \/ i = Len(sent) + 1
    BY <1>1, <1>2, <2>2
  <2>4. Transit' \subseteq Transit \union {Len(sent) + 1}
    BY <2>1, <2>2, <2>3 DEF Transit
  <2>5. /\ IsFiniteSet(Transit \union {Len(sent) + 1})
        /\ Cardinality(Transit \union {Len(sent) + 1}) <= Cardinality(Transit) + 1
    <3>1. /\ IsFiniteSet(Transit \union {Len(sent) + 1})
          /\ \/ Cardinality(Transit \union {Len(sent) + 1}) = Cardinality(Transit)
             \/ Cardinality(Transit \union {Len(sent) + 1}) = Cardinality(Transit) + 1
      BY <1>1, FS_AddElement, Zenon
    <3> QED
      BY <1>1, <3>1
  <2>6. IsFiniteSet(Transit') /\ Cardinality(Transit') <= Cardinality(Transit \union {Len(sent) + 1})
    BY <2>4, <2>5, FS_Subset
  <2>7. PICK c \in Nat : Cardinality(Transit') = c
    BY <2>6, FS_CardinalityType
  <2>8. Cardinality(Transit \union {Len(sent) + 1}) \in Nat
    BY <2>5, FS_CardinalityType
  <2>9. c <= Cardinality(Transit) + 1
    BY <1>1, <2>5, <2>6, <2>7, <2>8
  <2>10. handled' = handled /\ Settled' = Settled
    BY <1>3 DEF SendsNext, Settled
  <2>11. Delivered' = 2 * (Len(sent) + 1) - c + handled + Settled
    BY <2>2, <2>7, <2>10 DEF Delivered
  <2>12. 2 * (Len(sent) + 1) - c + handled + Settled > Delivered
    BY <1>1, <2>9 DEF Delivered
  <2> QED
    BY <2>11, <2>12
<1>4. CASE HandlesOne
  <2>1. PICK i \in Transit :
          \/ sent' = sent /\ lost' = lost \union {i}
          \/ lost' = lost /\ \E forms : forms # {} /\ sent' = [sent EXCEPT ![i] = forms]
    BY <1>4 DEF HandlesOne
  <2>2. i \in DOMAIN sent /\ i \notin lost /\ sent[i] # {}
    BY DEF Transit
  <2>3. /\ Len(sent') = Len(sent) /\ DOMAIN sent' = DOMAIN sent
        /\ \A j \in DOMAIN sent : j # i => sent'[j] = sent[j]
    BY <1>2, <2>1, <2>2, ReplaceOne
  <2>4. Transit' \subseteq Transit
    BY <2>1, <2>2, <2>3 DEF Transit
  <2>5. IsFiniteSet(Transit') /\ Cardinality(Transit') <= Cardinality(Transit)
    BY <1>1, <2>4, FS_Subset
  <2>6. PICK c \in Nat : Cardinality(Transit') = c
    BY <2>5, FS_CardinalityType
  <2>7. handled' = handled + 1 /\ Settled' = Settled
    BY <1>4 DEF HandlesOne, Settled
  <2>8. Delivered' = 2 * Len(sent) - c + (handled + 1) + Settled /\ c <= Cardinality(Transit)
    BY <2>3, <2>5, <2>6, <2>7 DEF Delivered
  <2> QED
    BY <1>1, <2>6, <2>8 DEF Delivered
<1>5. CASE ReceivesOne
  <2>0. PICK i \in Transit : \E flowFiles : Accepts(i, flowFiles)
    BY <1>5 DEF ReceivesOne
  <2>1. PICK flowFiles : Accepts(i, flowFiles)
    BY <2>0
  <2>2. i \in DOMAIN sent /\ sent' = [sent EXCEPT ![i] = {}] /\ lost \subseteq lost'
    BY <2>1 DEF Transit, Accepts
  <2>3. /\ Len(sent') = Len(sent) /\ DOMAIN sent' = DOMAIN sent /\ sent'[i] = {}
        /\ \A j \in DOMAIN sent : j # i => sent'[j] = sent[j]
    BY <1>2, <2>2, ReplaceOne
  <2>4. Transit' \subseteq Transit \ {i}
    BY <2>2, <2>3 DEF Transit
  <2>5. IsFiniteSet(Transit \ {i}) /\ Cardinality(Transit \ {i}) = Cardinality(Transit) - 1
    BY <1>1, <2>1, FS_RemoveElement
  <2>6. IsFiniteSet(Transit') /\ Cardinality(Transit') <= Cardinality(Transit) - 1
    BY <2>4, <2>5, FS_Subset
  <2>7. PICK c \in Nat : Cardinality(Transit') = c
    BY <2>6, FS_CardinalityType
  <2>8. handled' = handled /\ Settled' = Settled
    BY <1>5 DEF ReceivesOne, Settled
  <2>9. Delivered' = 2 * Len(sent) - c + handled + Settled /\ c <= Cardinality(Transit) - 1
    BY <2>3, <2>6, <2>7, <2>8 DEF Delivered
  <2> QED
    BY <1>1, <2>7, <2>9 DEF Delivered
<1>6. CASE Finishes
  <2>1. UNCHANGED <<sent, lost, handled>> /\ Settled = 0 /\ Settled' = 1
    BY <1>6 DEF Finishes, transitVars, Settled
  <2>2. Delivered' = 2 * Len(sent) - Cardinality(Transit) + handled + 1
    BY <2>1 DEF Delivered, Transit
  <2> QED
    BY <1>1, <2>1, <2>2 DEF Delivered
<1> QED
  BY <1>3, <1>4, <1>5, <1>6, DealtWith

\* A set does not go round between its sender and its bin for ever: every step
\* that is not the caller's takes it further, and how far depends on its parts
\* and on how often they are handled.
THEOREM SetsStop ==
  Spec => /\ [][Delivered' > Delivered \/ Split]_vars
          /\ [](Delivered \in 0 .. 2 * Len(parts) + MaxHandled + 1)
<1>1. WatchedIInv /\ [Next]_vars => [Delivered' > Delivered \/ Split]_vars
  BY DeliversMore DEF WatchedIInv, BundleIInv
<1>2. WatchedIInv => Delivered \in 0 .. 2 * Len(parts) + MaxHandled + 1
  <2> SUFFICES ASSUME WatchedIInv PROVE Delivered \in 0 .. 2 * Len(parts) + MaxHandled + 1
    OBVIOUS
  <2>1. /\ Cardinality(Transit) \in 0 .. Len(sent) /\ Len(sent) \in 0 .. Len(parts) /\ Len(parts) \in Nat
        /\ handled \in 0 .. MaxHandled /\ MaxHandled \in Nat /\ Settled \in {0, 1}
    BY DeliveredIs DEF WatchedIInv, BundleIInv
  <2> QED
    BY <2>1 DEF Delivered
<1> QED
  BY <1>1, <1>2, WatchedInvariance, PTL DEF Spec

\* A closed set of which nothing is lost fills its bin once it has arrived:
\* whichever part declares the count, it declares no more than there are.
THEOREM ClosedSetsFill ==
  Spec => [](Closed /\ Len(sent) = Len(parts) /\ Transit = {} /\ lost = {} => Filled)
<1>1. ASSUME WatchedIInv, Closed, Len(sent) = Len(parts), Transit = {}, lost = {} PROVE Filled
  <2>1. IInv /\ InHand /\ ArrivesAsSent /\ Budgeted /\ DeclaresRight /\ Watched
    BY <1>1 DEF WatchedIInv, BundleIInv, PartsMade
  <2>2. /\ Len(sent) \in Nat /\ DOMAIN sent = 1 .. Len(sent) /\ DOMAIN arrived = DOMAIN sent
        /\ Len(parts) \in Nat /\ DOMAIN parts = 1 .. Len(parts)
    BY <2>1, SamePlaces
  <2>3. Bin = DOMAIN parts
    <3>1. \A i \in DOMAIN sent : sent[i] = {}
      BY <1>1 DEF Transit
    <3> QED
      BY <1>1, <2>1, <2>2, <3>1 DEF Watched, Bin
  <2>4. Cardinality(Bin) = Len(parts)
    <3>1. 1 \in Int /\ Len(parts) \in Int
      BY <2>2
    <3>2. Cardinality(1 .. Len(parts)) = IF 1 > Len(parts) THEN 0 ELSE Len(parts) - 1 + 1
      BY <3>1, FS_Interval
    <3> QED
      BY <2>2, <2>3, <3>2
  <2>5. PICK i \in DOMAIN parts : /\ keys.count \in DOMAIN parts[i].attributes
                                  /\ parts[i].attributes[keys.count] = Decimal(Len(parts))
    <3>1. CASE stage = "terminated"
      <4>1. Len(parts) = index + 1 /\ index \in Nat
        BY <2>1, <3>1, FragmentsAssumption DEF IInv, Counted
      <4>2. Len(parts) \in DOMAIN parts
        BY <2>2, <4>1
      <4> QED
        BY <2>1, <3>1, <4>2 DEF IInv, DeclaresTheSet
    <3>2. CASE stage = "stopped" /\ count = {Len(parts)} /\ rest = <<>>
               /\ \E i \in DOMAIN parts : keys.count \in DOMAIN parts[i].attributes
      BY <2>1, <3>2 DEF DeclaresRight
    <3> QED
      BY <1>1, <3>1, <3>2 DEF Closed
  <2>6. PICK f \in arrived[i] : TRUE
    BY <2>3 DEF Bin
  <2>7. f \in Gathered
    BY <2>3, <2>6 DEF Gathered
  <2>8. f.attributes = parts[i].attributes
    BY <2>1, <2>3, <2>6 DEF ArrivesAsSent, FromParts
  <2>9. Values(f.attributes, keys.count) = {Decimal(Len(parts))}
    BY <2>5, <2>8 DEF Values
  <2>10. Len(parts) \in 0 .. MaxParts /\ Cardinality(Bin) >= Len(parts)
    BY <2>1, <2>2, <2>4, FragmentsAssumption DEF Budgeted
  <2> QED
    BY <2>7, <2>9, <2>10 DEF Filled
<1> QED
  BY <1>1, WatchedInvariance, PTL

\* What sending needs for a step, and what arriving does.
SendCanGoOn   == Len(sent) < Len(parts) /\ sender \in {"bytes", "write", "json", "streamed"}
ArriveCanGoOn ==
  \E i \in Transit : \E form \in sent[i] :
    \/ form.form = "json"
    \/ form.form = "binary" /\ form.declares # {}

\* Nobody waits for a set that is over: there is a part to send or one to
\* receive, until the bin is full or known to get no more.
THEOREM SetsGoOn ==
  Spec => [](stage # "open" => SendCanGoOn \/ ArriveCanGoOn \/ Filled \/ NothingMoreComes)
<1>1. ASSUME WatchedIInv, stage # "open", ~SendCanGoOn, ~ArriveCanGoOn PROVE NothingMoreComes
  <2>1. InHand /\ Watched
    BY <1>1 DEF WatchedIInv, BundleIInv
  <2>2. /\ Len(sent) \in Nat /\ DOMAIN sent = 1 .. Len(sent) /\ DOMAIN arrived = DOMAIN sent
        /\ Len(parts) \in Nat /\ DOMAIN parts = 1 .. Len(parts) /\ Len(sent) <= Len(parts)
    BY <2>1, SamePlaces
  <2>3. Len(sent) = Len(parts)
    <3>1. ~(Len(sent) < Len(parts))
      BY <1>1, <2>1 DEF SendCanGoOn, Watched
    <3>2. Len(sent) \in Nat /\ Len(parts) \in Nat /\ Len(sent) <= Len(parts)
      BY <2>2
    <3> QED
      BY <3>1, <3>2
  <2>4. ASSUME NEW i \in Transit PROVE FALSE
    <3>1. PICK form \in sent[i] : TRUE
      BY DEF Transit
    <3>2. IsPart(parts[i]) /\ IsFormOf(form, parts[i])
      BY <2>1, UnderWayIsForm
    <3>3. form.form \in {"binary", "json"} /\ (form.form = "binary" => form.declares # {})
      BY <3>2 DEF IsFormOf
    <3> QED
      BY <1>1, <3>1, <3>3 DEF ArriveCanGoOn
  <2>5. ASSUME NEW i \in DOMAIN sent PROVE i \in Bin \union lost
    <3>1. i \in lost \/ sent[i] = {}
      BY <2>4 DEF Transit
    <3> QED
      BY <2>1, <2>2, <3>1 DEF Watched, Bin
  <2>6. Bin \union lost \subseteq DOMAIN sent
    BY <2>1, <2>2 DEF Watched, Bin
  <2>7. DOMAIN sent = DOMAIN parts
    BY <2>2, <2>3
  <2>8. Bin \union lost = DOMAIN parts
    BY <2>5, <2>6, <2>7
  <2> QED
    BY <1>1, <2>3, <2>8 DEF NothingMoreComes
<1> QED
  BY <1>1, WatchedInvariance, PTL
=============================================================================
