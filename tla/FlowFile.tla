------------------------------ MODULE FlowFile ------------------------------
(***************************************************************************)
(* A flow file as a value, and the forms it takes between two programs:    *)
(* FlowFile (src/lib.rs), FlowFileBuilder (src/builder.rs), Serialize and  *)
(* Deserialize (src/serde_support.rs), Error (src/error.rs).               *)
(*                                                                         *)
(* A flow file is attributes, a declared size, and a content that yields   *)
(* bytes: not always as many as declared, for some of the ways to build    *)
(* one take the size on trust.  An optional value is a set of at most one. *)
(***************************************************************************)
EXTENDS Naturals, Sequences

(***************************************************************************)
(* Attributes: functions from keys to values                               *)
(***************************************************************************)

With(attributes, key, value) ==
  [k \in DOMAIN attributes \union {key} |-> IF k = key THEN value ELSE attributes[k]]

Without(attributes, keys) == [k \in DOMAIN attributes \ keys |-> attributes[k]]

Values(attributes, key) == {attributes[k] : k \in DOMAIN attributes \intersect {key}}

\* Set only when there is a value to set.
WithEach(attributes, key, values) ==
  IF values = {} THEN attributes
  ELSE With(attributes, key, CHOOSE value \in values : TRUE)

(***************************************************************************)
(* Building and reading one                                                *)
(***************************************************************************)

FromParts(size, attributes, content) ==
  [size |-> size, attributes |-> attributes, content |-> content]

\* content, empty: the size is the content's own.
Build(attributes, content) == FromParts(Len(content), attributes, content)

\* reader: the size is taken on trust.
Reader(attributes, content, size) == FromParts(size, attributes, content)

\* map_content keeps the size, whatever it makes of the content.
MapContent(flowFile, content) == [flowFile EXCEPT !.content = content]
WithSize(flowFile, size)      == [flowFile EXCEPT !.size = size]

\* map_content_sized: both at once.
MapContentSized(flowFile, content, size) == WithSize(MapContent(flowFile, content), size)

\* The ways to make a flow file of that size and content.  buffered, tempfile,
\* spooled and their async twins count what they read, so that the size can
\* be wrong only where the caller gives it.
Made(attributes, content, size) ==
  {Reader(attributes, content, size),
   MapContentSized(Build(attributes, <<>>), content, size)}
    \union {f \in {Build(attributes, content)} : f.size = size}

DeriveKeepUuid(flowFile) == flowFile.attributes
Derive(flowFile, uuid)   == With(flowFile.attributes, "uuid", uuid)

DefragmentWith_KeepsTheName(attributes, keys) ==
  Without(attributes, {keys.identifier, keys.index, keys.count, keys.original})
\* defragment_with, defragment: the original filename takes its place back.
DefragmentWith(attributes, keys) ==
  Without(WithEach(Without(attributes, {keys.original}), "filename", Values(attributes, keys.original)),
          {keys.identifier, keys.index, keys.count})

\* What every reader of a content reads at the most: Read::take(size).
Cut(size, content) == SubSeq(content, 1, IF size < Len(content) THEN size ELSE Len(content))

\* into_memory and skip_content: all of the declared size, or an error.
IntoMemory(flowFile) ==
  {FromParts(size, flowFile.attributes, Cut(size, flowFile.content)) :
     size \in {flowFile.size} \intersect 0 .. Len(flowFile.content)}

(***************************************************************************)
(* Errors                                                                  *)
(***************************************************************************)

SizeMismatch(expected, actual) ==
  [error |-> "SizeMismatch", expected |-> expected, actual |-> actual]
TrailingData(extra) == [error |-> "TrailingData", extra |-> extra]
Refused(why)        == [error |-> why]

IoError(kind, carried) == [kind |-> kind, carried |-> carried]

Truncated(expected, actual) ==
  IoError("UnexpectedEof", {SizeMismatch(expected, actual)})

UnwrapIo_Never(io) == [error |-> "Io", io |-> io]
\* From<io::Error> for Error: only a truncation is taken out of the error
\* that carries it.
UnwrapIo(io) ==
  IF io.kind = "UnexpectedEof" /\ \E e \in io.carried : e.error = "SizeMismatch"
  THEN CHOOSE e \in io.carried : TRUE
  ELSE [error |-> "Io", io |-> io]

\* From<Error> for io::Error.
IntoIo(e) ==
  CASE e.error = "Io"             -> e.io
    [] e.error = "SizeMismatch"   -> IoError("UnexpectedEof", {e})
    [] e.error = "WriterPoisoned" -> IoError("BrokenPipe", {e})
    [] OTHER                      -> IoError("InvalidData", {e})

(***************************************************************************)
(* Serialized forms: the attributes, the sizes they declare (JSON may have *)
(* none), and bytes of content                                             *)
(***************************************************************************)

Serialized(form, flowFile, content) ==
  [form |-> form, declares |-> {flowFile.size},
   attributes |-> flowFile.attributes, content |-> content]

HoldsItsSize(flowFile) == flowFile.size = Len(flowFile.content)

\* to_bytes, write_bytes_to: a panic, ahead of the first byte, on content in
\* memory of any other size.
ToBytes(flowFile) ==
  {s \in {Serialized("binary", flowFile, flowFile.content)} : HoldsItsSize(flowFile)}

\* write_to: whatever the reader yields, up to the size, and an error behind
\* it when that is less.
WriteTo(flowFile) ==
  Serialized("binary", flowFile, Cut(flowFile.size, flowFile.content))

\* Serialize for FlowFile<Vec<u8>>: a panic as to_bytes has.
Serialize(flowFile) ==
  {s \in {Serialized("json", flowFile, flowFile.content)} : HoldsItsSize(flowFile)}

\* Serialize for StreamingFlowFile: content that is short is an error, and
\* nothing is emitted.
SerializeStreaming(flowFile) ==
  {Serialized("json", memory, memory.content) : memory \in IntoMemory(flowFile)}

\* from_bytes, from_vec: exactly one flow file.
FromBytes(bytes) ==
  {FromParts(size, bytes.attributes, bytes.content) :
     size \in bytes.declares \intersect {Len(bytes.content)}}

\* from_reader, or parse and into_memory: one flow file, and what is behind
\* it stays in the reader.
FromReader(bytes) ==
  UNION {IntoMemory(FromParts(size, bytes.attributes, bytes.content)) : size \in bytes.declares}

Deserialize_TakesTheSize(json) ==
  {FromParts(size, json.attributes, json.content) : size \in json.declares}
\* Deserialize: the size may be left out, and must be right when it is not.
Deserialize(json) ==
  {f \in {Build(json.attributes, json.content)} : json.declares \subseteq {f.size}}

\* What is told of bytes that are not what they declare.
ContentError(bytes) ==
  LET size == CHOOSE n \in bytes.declares : TRUE
  IN  IF Len(bytes.content) < size
      THEN SizeMismatch(size, Len(bytes.content))
      ELSE TrailingData(Len(bytes.content) - size)
=============================================================================
