------------------------------- MODULE Bundle -------------------------------
(***************************************************************************)
(* A split at one end and its merge at the other.  The parts of a flow     *)
(* file (Fragments) are serialized as they are made, pass through programs *)
(* that turn one form into another (the to-json and from-json commands of  *)
(* bin/nififf3.rs) and over media that damage them, arrive in any order,   *)
(* and are gathered in a bin, as NiFi's MergeContent does, whose content   *)
(* becomes one flow file again (FlowFileBuilder::defragment_with).         *)
(*                                                                         *)
(* MergeContent is not part of this program.  The bin does what Fragments' *)
(* documentation relies on: it "fills once the bin holds as many flow      *)
(* files as the fragment.count of one of them says", and is routed to      *)
(* failure when nothing more arrives.                                      *)
(***************************************************************************)
EXTENDS Fragments, SequencesExt

CONSTANTS
  Splits,      \* how the parts of which parent are sent: "bytes", "write",
               \* "json" or "streamed"
  MaxContent,  \* --max-content-len of the commands in between
  MaxHandled   \* bound: how often parts are damaged or converted under way

ASSUME BundleAssumption ==
  /\ Splits \subseteq Parents \X {"bytes", "write", "json", "streamed"}
  /\ MaxContent \in Nat /\ MaxHandled \in Nat

VARIABLES
  sender,   \* how this split sends its parts
  sent,     \* each part's serialized form, while there is one on its way
  arrived,  \* each part as a flow file again, once there is
  lost,     \* the parts there will never be one of
  handled,  \* how often parts were damaged or converted
  told,     \* the error last reported
  cause,    \* what it was reported of
  outcome,  \* of the bin: "open", "merged" or "failure"
  merged    \* the flow file it was merged into

transitVars == <<sent, arrived, lost, handled>>
errorVars   == <<told, cause>>
binVars     == <<outcome, merged>>
vars        == <<fragmentsVars, sender, transitVars, errorVars, binVars>>

Init ==
  /\ FragmentsInit
  /\ sender \in {split[2] : split \in {s \in Splits : s[1] = parent}}
  /\ sent = <<>> /\ arrived = <<>> /\ lost = {} /\ handled = 0
  /\ told = {} /\ cause = {}
  /\ outcome = "open" /\ merged = {}

Transit == {i \in DOMAIN sent : i \notin lost /\ sent[i] # {}}

\* Parts are damaged and converted before the next is sent: no other step
\* can tell the difference.
UnderWay == Transit \intersect {Len(sent)}

\* An error, and the sizes it is about.
Tell(e, expected, actual) == told' = {e} /\ cause' = {<<expected, actual>>}

(***************************************************************************)
(* Sending                                                                 *)
(***************************************************************************)

Goes(form) == sent' = Append(sent, {form})
Fails      == sent' = Append(sent, {}) /\ lost' = lost \union {Len(sent) + 1}

\* to_bytes, write_bytes and Serialize panic on a size that is wrong.
SendFromMemory ==
  /\ Len(sent) < Len(parts) /\ sender \in {"bytes", "json"}
  /\ LET part  == parts[Len(sent) + 1]
         forms == IF sender = "bytes" THEN ToBytes(part) ELSE Serialize(part)
     IN  IF forms = {}
         THEN Fails /\ stage' = "panicked"
         ELSE (\E form \in forms : Goes(form)) /\ lost' = lost /\ stage' = stage
  /\ arrived' = Append(arrived, {})
  /\ UNCHANGED <<setVars, count, index, parts, rest, sender, handled, errorVars, binVars>>

\* write_to and StreamingFlowFile find out while they read.  What write_to
\* has written by then stays written.
SendFromReader ==
  /\ Len(sent) < Len(parts) /\ sender \in {"write", "streamed"}
  /\ LET part  == parts[Len(sent) + 1]
         forms == IF sender = "write" THEN {WriteTo(part)} ELSE SerializeStreaming(part)
     IN  /\ IF forms = {} THEN Fails ELSE (\E form \in forms : Goes(form)) /\ lost' = lost
         /\ IF sender = "write" /\ Len(part.content) < part.size
            THEN Tell(Truncated(part.size, Len(part.content)), part.size, Len(part.content))
            ELSE UNCHANGED errorVars
  /\ arrived' = Append(arrived, {})
  /\ UNCHANGED <<fragmentsVars, sender, handled, binVars>>

(***************************************************************************)
(* Under way                                                               *)
(***************************************************************************)

\* Cut short, with something behind it unless it is short (a writer that
\* failed writes no more: StreamWriter), or, if it is JSON, without its size.
\* JSON that is cut is no JSON, but may be rewritten with other content.
\* A part is damaged once.
Damaged(form) ==
  {f \in {[form EXCEPT !.content = Append(@, 0)]} :
       \A size \in form.declares : Len(form.content) >= size}
    \union {[form EXCEPT !.content = Cut(n, @)] : n \in 0 .. Len(form.content) - 1}
    \union {[form EXCEPT !.declares = {}] : f \in {form.form} \intersect {"json"}}

Damage ==
  /\ handled < MaxHandled
  /\ \E i \in UnderWay : \E form \in sent[i] : \E damaged \in Damaged(form) :
       /\ form.declares # {} /\ form.content = Cut(parts[i].size, parts[i].content)
       /\ sent' = [sent EXCEPT ![i] = {damaged}]
  /\ handled' = handled + 1
  /\ UNCHANGED <<fragmentsVars, sender, arrived, lost, errorVars, binVars>>

Gone(i) == lost' = lost \union {i} /\ sent' = sent

\* Limits, in a parser ahead of the content and in Limits::check behind it.
TooLarge(size) == size > MaxContent

TellTooLarge(size) == Tell(Refused("ContentTooLarge"), size, size)

\* into_memory, having found fewer bytes than declared.
TellTruncated(form) ==
  \E size \in form.declares : Tell(Truncated(size, Len(form.content)), size, Len(form.content))

\* to-json: parse_next and into_memory, and the flow file as a line of JSON.
\* What comes behind the flow file is the next one's concern.
ToJson ==
  /\ handled < MaxHandled /\ handled' = handled + 1
  /\ \E i \in UnderWay : \E form \in sent[i] :
       /\ form.form = "binary"
       /\ IF \E size \in form.declares : TooLarge(size)
          THEN Gone(i) /\ \E size \in form.declares : TellTooLarge(size)
          ELSE IF FromReader(form) = {}
          THEN Gone(i) /\ TellTruncated(form)
          ELSE /\ sent' = [sent EXCEPT ![i] = UNION {Serialize(f) : f \in FromReader(form)}]
               /\ UNCHANGED <<lost, errorVars>>
  /\ UNCHANGED <<fragmentsVars, sender, arrived, binVars>>

\* from-json: a flow file of the JSON, the limits, and to_bytes.  What serde
\* says of bad JSON is a text.
FromJson ==
  /\ handled < MaxHandled /\ handled' = handled + 1
  /\ \E i \in UnderWay : \E form \in sent[i] :
       /\ form.form = "json"
       /\ IF Deserialize(form) = {}
          THEN Gone(i) /\ UNCHANGED errorVars
          ELSE IF TooLarge(Len(form.content))
          THEN Gone(i) /\ TellTooLarge(Len(form.content))
          ELSE /\ sent' = [sent EXCEPT ![i] = UNION {ToBytes(f) : f \in Deserialize(form)}]
               /\ UNCHANGED <<lost, errorVars>>
  /\ UNCHANGED <<fragmentsVars, sender, arrived, binVars>>

(***************************************************************************)
(* Receiving                                                               *)
(***************************************************************************)

Accepts(i, flowFiles) ==
  /\ arrived' = [arrived EXCEPT ![i] = flowFiles]
  /\ lost' = IF flowFiles = {} THEN lost \union {i} ELSE lost
  /\ sent' = [sent EXCEPT ![i] = {}]

\* from_bytes and from_vec, of what should be one flow file and no more.
ArriveWhole ==
  /\ \E i \in Transit : \E form \in sent[i] :
       /\ form.form = "binary"
       /\ Accepts(i, FromBytes(form))
       /\ IF FromBytes(form) # {} THEN UNCHANGED errorVars
          ELSE \E size \in form.declares :
                 Tell(ContentError(form), size, Len(form.content))
  /\ UNCHANGED <<fragmentsVars, sender, handled, binVars>>

\* from_reader, or parse and then into_memory.
ArriveStreamed ==
  /\ \E i \in Transit : \E form \in sent[i] :
       /\ form.form = "binary"
       /\ Accepts(i, FromReader(form))
       /\ IF FromReader(form) # {} THEN UNCHANGED errorVars ELSE TellTruncated(form)
  /\ UNCHANGED <<fragmentsVars, sender, handled, binVars>>

ArriveJson ==
  /\ \E i \in Transit : \E form \in sent[i] :
       form.form = "json" /\ Accepts(i, Deserialize(form))
  /\ UNCHANGED <<fragmentsVars, sender, handled, errorVars, binVars>>

(***************************************************************************)
(* The bin                                                                 *)
(***************************************************************************)

Bin == {i \in DOMAIN arrived : arrived[i] # {}}

Gathered == UNION {arrived[i] : i \in Bin}

Filled ==
  \E flowFile \in Gathered, n \in 0 .. MaxParts :
    Values(flowFile.attributes, keys.count) = {Decimal(n)} /\ Cardinality(Bin) >= n

\* The contents in the order of their index.
Reassembled ==
  LET Indexed(n) == {f \in Gathered : Values(f.attributes, keys.index) = {Decimal(n)}}
  IN  FlattenSeq([n \in 1 .. MaxParts |->
        IF Indexed(n) = {} THEN <<>> ELSE (CHOOSE f \in Indexed(n) : TRUE).content])

\* "Build the result from any one part".
Merge ==
  /\ outcome = "open" /\ Filled
  /\ \E flowFile \in Gathered :
       \E attributesOf \in {DeriveKeepUuid(flowFile), Derive(flowFile, "merged")} :
         merged' = {Build(DefragmentWith(attributesOf, keys), Reassembled)}
  /\ outcome' = "merged"
  /\ UNCHANGED <<fragmentsVars, sender, transitVars, errorVars>>

NothingMoreComes ==
  stage # "open" /\ Len(sent) = Len(parts) /\ Bin \union lost = DOMAIN parts

TimesOut ==
  /\ outcome = "open" /\ NothingMoreComes /\ ~Filled
  /\ outcome' = "failure"
  /\ UNCHANGED <<fragmentsVars, sender, transitVars, errorVars, merged>>

-----------------------------------------------------------------------------
\* The caller sends a part before it starts the next.
Split ==
  /\ Len(sent) = Len(parts)
  /\ FragmentsNext /\ UNCHANGED <<sender, transitVars, errorVars, binVars>>
Send  == SendFromMemory \/ SendFromReader
Arrive == ArriveWhole \/ ArriveStreamed \/ ArriveJson

Next ==
  \/ Split \/ Send \/ Arrive
  \/ Damage \/ ToJson \/ FromJson
  \/ Merge \/ TimesOut

\* What was made is sent, what is sent arrives, and the bin is looked after.
Spec ==
  /\ Init /\ [][Next]_vars
  /\ WF_vars(Send) /\ WF_vars(Arrive) /\ WF_vars(Merge) /\ WF_vars(TimesOut)

(***************************************************************************)
(* What a split, its transport and its merge promise together              *)
(***************************************************************************)

\* "A final flow file that declares the count reassembles correctly": a bin
\* fills with every part there is and the content they were cut from, or the
\* caller had declared too few and next_part panics at the next one.
MergesTheWhole ==
  \A flowFile \in merged :
    /\ flowFile.content \o rest = parent.content
    /\ rest # <<>> => Overdrawn
    /\ stage = "terminated" => Cardinality(Bin) = Len(parts)

\* "Calling this then makes the result look like the flow file the split
\* started from": its name, whatever the parts were called, every attribute
\* nobody touched, and none of the split's.
LooksLikeTheParent ==
  \A flowFile \in merged :
    /\ AllKeys(keys) \intersect DOMAIN flowFile.attributes = {}
    /\ "original" \notin adjusted /\ "filename" \in DOMAIN parent.attributes =>
         flowFile.attributes["filename"] = parent.attributes["filename"]
    /\ \A key \in (DOMAIN parent.attributes \union DOMAIN flowFile.attributes)
                   \ (AllKeys(keys) \union AllKeys(DefaultKeys) \union adjusted
                        \union {"uuid", "filename"}) :
         Values(flowFile.attributes, key) = Values(parent.attributes, key)

\* What arrives is what was sent, attributes, size and content, whichever
\* forms it took on the way.  Damage, or a size that was wrong from the
\* beginning, is refused, unless it is bytes behind the content that a
\* stream may have.
ArrivesAsSent ==
  \A i \in Bin : \A flowFile \in arrived[i] :
    /\ flowFile = FromParts(parts[i].size, parts[i].attributes, Cut(parts[i].size, parts[i].content))
    /\ HoldsItsSize(flowFile)

\* The same error with a `?` behind it, in a function whose errors are of
\* the other type.
PassedOn(e) == IF "error" \in DOMAIN e THEN IntoIo(e) ELSE UnwrapIo(e)

\* "`?` on an io::Result inside an Error-returning function yields the same
\* variant the parsing entry points would have produced", however often an
\* error is passed on: a truncation stays one, with its sizes, and nothing
\* else becomes one.
TruncationIsTold ==
  \A e \in told, sizes \in cause :
    LET once  == PassedOn(e)
        again == PassedOn(PassedOn(once))
    IN  \A passed \in {x \in {e, once, PassedOn(once), again} : "error" \in DOMAIN x} :
          IF sizes[2] < sizes[1]
          THEN passed = SizeMismatch(sizes[1], sizes[2])
          ELSE passed.error # "SizeMismatch"

\* The set is closed in one of the two ways, by a caller that counts right.
Closed ==
  \/ stage = "terminated"
  \/ stage = "stopped" /\ count = {Len(parts)} /\ rest = <<>>
     /\ \E i \in DOMAIN parts : keys.count \in DOMAIN parts[i].attributes

\* Such a set is merged unless a part of it is lost, and no bin is left
\* waiting: "a bin that never fills" is routed to failure.
Settles ==
  /\ Closed ~> outcome = "merged" \/ lost # {}
  /\ stage # "open" ~> outcome # "open"
=============================================================================
