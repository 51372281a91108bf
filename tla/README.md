# A specification of nififf3

`nififf3` reads and writes NiFi flow files (version 3): a header with string
attributes and a content size, then that many bytes of content, any number of
them one after the other in a stream. This directory holds TLA+ modules that
model the parts of the crate in which something can go wrong over time, TLC
configurations that check them on small instances, and TLAPS proofs, for every
instance, of every safety property that the passing runs check.

Paths in this document are relative to the root of the repository, so the crate
is `src/lib.rs`, `src/spool.rs` and so on. `PROJECT.json` names, for every
definition, the lines of source it translates.

## 1. The system

| Part | State it keeps | Operations | Talks to |
|---|---|---|---|
| Spooling (`spool.rs`) | a temporary file with two handles, a watch channel `(written, done)`, a pipe of 64 KiB, a failure slot, two tasks | `spool_async`, `SpooledContent::poll_read`, drop | the source of the content; a reader; tokio |
| Streaming responses (`axum_support.rs`, `FlowFilesResponse`, `ProducerStream`) | a bounded pipe, the producer's task handle | `new`, `from_stream`, `blocking`, `buffered`, `poll_next`, drop | the caller's producer; the server that polls the body |
| Writers of a stream (`sync.rs`, `async_io.rs`) | count, `poisoned`, the writer underneath | `write`, `write_bytes`, `flush`, `finish`, `shutdown`, `into_inner` | a writer underneath that buffers and fails |
| Readers of a stream (`sync.rs`, `async_io.rs`) | `unread`, `size`, `done` | `next`, reads of a content, `discard_unread`, `parse_next`, `skip_content`, `into_stream` | a reader underneath that may be short or fail |
| Header parser and budget (`sync.rs`, `async_io.rs`) | locals of one call: count, spent, a buffer | `parse_header`, `read_declared`, `into_memory` | `Limits`; a reader |
| Limits (`limits.rs`) | none | `check` | command line; the parser applies the same ones |
| Wire format (`format.rs`) | none | field lengths, `header_len`, `encode_header` | parser and writers |
| Request bodies and extractors (`axum_support.rs`) | a chunk, `ended` | `poll_read`, `from_request` of four extractors, the statuses of errors | the body of the request and its limit |
| One flow file as a response (`ExactLength`) | `remaining`, `done` | `poll_next` | the server; often a content that is still in the request |
| Splitting and merging (`fragments.rs`, `builder.rs`) | attributes, index, count, keys | `with_...`, `attribute`, `next_part`, `terminate`, `defragment_with` | NiFi's MergeContent |
| The value types, attribute names, errors, serde (`lib.rs`, `builder.rs`, `attr.rs`, `error.rs`, `serde_support.rs`) | maps and strings | accessors, conversions | everything |
| Command line (`bin/nififf3.rs`) | none | `to-json`, `from-json` and others: opens files, calls the library in a loop | the file system |

**How they interact.** A request arrives as a body that fails, ends or goes
beyond a limit at any chunk. An extractor puts a reader over it and parses one
header, or hands the reader to a reader of a whole stream. A handler may answer
with a flow file whose content is still in the request, or with a response that
a producer writes while it reads the request. The producer and the server share
a bounded pipe; the client is the third party. A content may be spooled so that
the request goes on arriving while the answer is written, which is what two
background tasks, a file and a second pipe are for.

**What is hard.** Two tasks on one file without a lock, ordered by nothing but
a published count. Errors that must arrive at a precise byte, from a slot that
is not part of the byte stream. Ends of pipes that mean "finished", "failed" or
"dropped". Cancellation of futures in the middle of several reads. A deadlock
that four buffers and two kinds of clients decide about. A writer that must not
go on after a partial write, and a reader that must find the next flow file
whatever its caller did with the last one. Lengths that the other side chooses,
and allocations made on account of them. The `hazards` of `PROJECT.json` list
these by line, with the properties that cover each.

**What makes each part correct.**

* Spool: the reader gets the content byte for byte; a clean end means the whole
  content; an error comes where the copy stopped; memory is bounded; the copy
  never waits for the reader; a drop stops both tasks.
* Response: the body ends as the producer did, and only once it has yielded
  every byte; a slow client holds the producer back; nothing outlives a drop.
* Writer and reader: the reader is at the start of a flow file whenever it looks
  for one; a broken stream is never a clean end; what was counted and finished
  arrives.
* Parser: no more is buffered or reserved than the limits and the bytes that
  arrived justify; it agrees with `Limits::check`.
* Request and `ExactLength`: the status tells what was wrong; a response ends
  cleanly with exactly its Content-Length or fails.
* Splitting: a bin that merges the parts fills with the whole set or not at all,
  the merge is the parent again, and nothing of an earlier split shows through.
* Values and errors: what arrives is what was sent, in whichever form, or is
  refused; a truncation is told as one wherever its error has been.

## 2. The modules

| Module | Models | Instances |
|---|---|---|
| `ContentStream` | what a background copy promises its reader (abstract) | refined by `Spool` |
| `Spool` | `spool_async` and `SpooledContent`, both tasks step by step | `MCSpool`, `SpoolProofs` |
| `Response` | `FlowFilesResponse`, async and blocking, and `ProducerStream` | `MCResponse`, `ExchangeProofs` |
| `Exchange` | a client, a handler and a socket around `Response` | `MCExchange`, `ExchangeProofs` |
| `Wire` | a stream of flow files as bytes that know whose they are | |
| `StreamWriter` | `FlowFilesWriter`, `FlowFilesWriterAsync` | `StreamWriterProofs` |
| `StreamReader` | `FlowFilesReader`, `FlowFiles`, the async twins, `into_stream`, `parse_next` with `skip_content` | |
| `Transfer` | a writer and a reader on one wire | `MCTransfer`, `TransferProofs` |
| `Request` | `FlowFileBody`, the extractors of one flow file and of many, `ExactLength` | `MCRequest`, `RequestProofs` |
| `HeaderParser` | `parse_header`, `Budget`, `read_declared`, `into_memory`, `Limits::check` | `MCHeaderParser`, `HeaderParserProofs` |
| `FlowFile` | the value type, its builder, conversions, serde forms and errors, as operators | |
| `Fragments` | `Fragments`, with every way to set a split up | `FragmentsProofs` |
| `Bundle` | a split, its parts under way between programs, and the bin that merges them | `MCBundle`, `BundleProofs` |

Some definitions have a sibling named after them with a suffix, such as
`CopyFlush_Early` beside `CopyFlush`. These are deliberate mistakes of the kind
a change to that code could make; nothing in a specification uses them. Put in
the place of their namesake, each makes TLC find one of the properties violated
(`mutants` in `PROJECT.json`), so each property is known to say something about
the code.

### Spool

A byte is named by its offset in the content, so a file is a function from
offsets to the bytes found there, and a hole or a byte in the wrong place shows.
`copy` and `follow` are where the two tasks are. The copy task reads
(`CopyRead`), writes (`CopyWrite`), and flushes and then publishes
(`CopyFlush`); tokio's file may put the bytes in place any time between
(`Land`), which is why the order of flush and publication matters. The follow
task takes a snapshot of the watch channel (`FollowLook`), waits for a change
(`FollowChanged`), reads the file up to the snapshot (`FollowRead`), pushes into
the pipe as it has room (`FollowSend`) and shuts it down (`FollowShutdown`). A
source, a write, a flush or the follow's own file may fail, a source may panic,
and the reader may drop the content in any state. `Read` is `poll_read` with a
buffer of some room: bytes if there are any, else, at the end of the pipe, the
error in the slot once, else the end.

`ContentStream` has five variables and says the promise: a prefix of what
arrived is given, then an end or an error. `Spool` implements it under the
refinement mapping at the end of the module.

### Response and Exchange

The producer is the caller's code: it writes, computes, lets go of its writer,
returns, fails or panics in any order. A write is a sequence of `Accept` steps
as the pipe has room. `PollChunk` takes bytes from the pipe, `PollOutcome` is
what `poll_next` does when the pipe is at its end: it waits for the producer's
handle and reports its outcome. The blocking variant cannot be aborted while it
computes; its next write fails once the body is gone.

`Exchange` adds the client and the two directions of the socket. `nifi` sends
its whole request before it reads; `curl` does both at once. `direct` handlers
read the request while they write, `drained` ones before, and for `spooled` ones
the request goes on arriving by itself (`BodyArrives`). `Exchange` uses no module of
the spool: it relies on what `ContentStream` promises, that a content arrives
whatever its reader does, and is given as it arrived. `StallsAsDocumented` and
`Completes` together are the documentation's claim: the only exchange that
stalls is nifi, direct, with a buffer smaller than the response. What each party
waits for has a name (`SocketHasRoom`, `ResponseIsThere`, `IsMade`, `HasRoom` and
so on) and is the guard of its action; `SomeoneCanGoOn` is that one of them is
there, and `Stalled` that none is and the exchange is not complete.

### Wire, StreamWriter, StreamReader and Transfer

A byte of the wire is `<<i, k>>`, byte `k` of flow file `i`. The writer's flow
files may have a content shorter than declared; the writer underneath may fail
at any byte, hold bytes back until it is flushed, and be let go without a
flush. The reader's `next` is one action per read: skipping the rest of the last
content, the first byte, the header, and in the buffered variants the content.
The caller reads any part of a content. Both asynchronous halves may be dropped
in the middle of a call. A reader that is out of step reads content as a header,
and may find one there, since a content may itself be a flow file.

`mode` is how the reader is driven: contents left in the stream (`streaming`),
read into memory (`buffered`), a `Stream` over the same, which keeps the future
of a `next` that was not ready so that a poll given up loses nothing (`stream`),
or a caller of `parse_next` who has to see to the position itself with
`skip_content` (`driven`). `skip_content` may be called whatever was read of the
content, all of it too, as long as the flow file is there (`inHand`). It wants the
whole declared size, so after a read it reports a mismatch in a stream that is in
order; it keeps no state of that, and the caller goes on to the next flow file,
which must be where the reader is. A content that really was cut short leaves
such a caller at the end of the stream, with the error it was told. A `next` may be dropped at any of its reads, except in
`stream`, where what is dropped is a poll and the future goes on at the next one.

A write that is dropped half-way (`abandoned`) leaves part of a flow file in the
stream. The properties go on holding of everything before that place (`Sound`),
and `NothingLost` counts the writes that had been through when they were
dropped. Of the torn flow file itself and of all that is appended to it they
say nothing: nothing in the code or its documentation does. After a `next` of the other modes was dropped (`cancelled`) they say
nothing; what becomes of such a reader is the subject of `transfer_cancelled`.

### Request

The request is a header, a content and perhaps more, sent in chunks of any
size, ended or failed anywhere, with a limit that fails it. `PollBody` and
`TakeChunk` are `FlowFileBody::poll_read`, and `overpolled` is set if the body
is ever polled after it reported its end. The strict extractors differ by
`CheckMediaType`. The extractor of many reads nothing: its handler (`batch`)
takes one flow file after the other into memory through `FlowFilesAsync`, over
the same `FlowFileBody`, and returns the error it is told, so that the limit and
a failing body come up inside a stream (`Batch...`, `RejectBody`). The other
handler reads the content itself, past its end if it
likes, or answers with the flow file: `Echo...` is `ExactLength` over the header
in memory and the content still in the request.

### HeaderParser

Everything a header declares is chosen as it is read, so every header up to the
bound is covered, with an input that can end in every read. `ReadBytes` is one
round of `read_declared`, with the reservation made for it in `capacity`; it
serves fields and, behind the header, `into_memory`. A value is its length; a key
is one of a set, so that a header may name one twice, and `AcceptValue` puts the
later value in the place of the earlier one, as `HashMap::insert` does, while
budget and count have both. Lengths are written by
`Prefix` (short form, or long form when they need it or the writer is a foreign
one that always uses it) and read by `LenOf`. `usize` saturates at `Top`.
`Checks` is `Limits::check`, of a map, compared with the parser's verdict: what the
parser lets through `check` passes. The other way round holds of headers that name
no key twice: when the parser refuses one, `check` refuses every map that could have
come of it (`Announced`). With a key named twice it need not, since the map has
lost what the parser counted. The documentation of `check` (`limits.rs:259-261`)
calls the number of attributes the one difference; the earlier value's bytes are
also missing from the map's total, and its length is never held against the limit
on a field, so those two limits differ in the same way. The model has all
three.

### FlowFile, Fragments and Bundle

`FlowFile` has no state: a flow file is attributes, a declared size and a content
that may hold more or less than that, and each operator is a function of the
crate, yielding the values it can yield (none for an error). `Serialized` is a
flow file between two programs, in binary or in JSON.

`Fragments` is the splitter as its caller uses it: keys all at once or one by one,
attributes set and dropped, an original filename, a count declared ahead, or
late, or wrongly, parts built in each of the builder's ways (`Made`), at most one
of them from a source that does not hold what it declares, a terminator, a stop.
A panic of `next_part` or `terminate` is a stage like the others. How a number is
written (`u64::to_string`) is the constant `Decimal`, of which only what
`FragmentsAssumption` says is used; TLC is given `ToString`.

`Bundle` lets the parts be sent one by one (`SendFromMemory`, which panics on a
wrong size, and `SendFromReader`, which finds out when it has written), be
damaged, be converted by `to-json` and `from-json` with a limit, and arrive in
any order through each of the entry points. `Filled`, `Merge` and `TimesOut` are
MergeContent, as the documentation of `fragments.rs` relies on it. An error that
is told carries the sizes it was about, for `TruncationIsTold`.

## 3. What is checked

All runs are exhaustive. Deadlock checking is off where a behaviour is over when
its reader, response or call is.

| Run | Instance | Shows |
|---|---|---|
| `spool` | 5 bytes, pipe of 2, all faults | contents, ends, errors, memory, refinement, and that both tasks end or stop |
| `response` | 5 bytes, buffers asked for 0, 1, 2, 4, chunks of 2, both kinds | outcome, completeness, back pressure, drops |
| `exchange` | request 5, response 6, sockets of 2, buffers 1 to 7, both kinds of producers | which exchanges complete and how the others stall |
| `transfer` | 2 flow files, headers of 2, contents of 0 or 2 declared bytes, 4 modes, cancelled writes and reads (2.6 million states) | position, ownership of bytes, mismatches, clean ends, nothing lost |
| `request` | header 2, contents 0, 1 and 3, bodies up to 9, limit 7, 3 handlers | polling, statuses, complete or failed responses, batches to their end, an answer to every request |
| `header` | 3 attributes, 5 keys of 4 lengths, values of lengths 0, 2, 3, 7, contents 0 and 9, 24 sets of limits | reservations, budget, agreement with `check`, bytes consumed (1.5 million states) |
| `bundle` | parents of 0 to 2 bytes from earlier splits, 3 parts, 3 sets of keys, 1 attribute set or dropped, one damage or conversion | what parts inherit, merges, contents, errors, and that every bin is settled |
| `spool_panic`, `spool_empty_read`, `spool_memory`, `transfer_cancelled`, `request_batch` | as their siblings, one property each | a sentence of the documentation that the code does not keep |

**Why the bounds are enough.** What matters about a size is which side of a
boundary it is on. In `spool`, 5 bytes are more than two pipefuls, so the copy can be
ahead of the follow task's snapshot, that of its pipe, and that of the reader,
all at once, with a partial last chunk. In `response`, the buffers are smaller than,
equal to and larger than both a write and a chunk, and 0 is the size that is
corrected. In `exchange`, request and response are each larger than their socket
and the buffers are on both sides of the response. In `transfer`, two flow files are
enough for one to be left unread, cut short or mistaken in front of another, and
a declared 2 may hold 0, 1 or 2. In `request`, bodies end inside the header, at its
end, inside and at the end of the content, beyond it, and beyond the limit;
flow files of 2, 3 and 5 bytes make batches of up to 4, with the limit of 7
inside a header, a content, or between two. In `bundle`, 2 bytes are cut into up to 3
parts, empty ones among them, or 2 and a terminator; a count may be right, too
small or too large; the keys are those of the earlier split, none of them, or
all but one, so that each value of that split has a place to show through; a
parent has a name or has none; contents are on both sides of the limit of 1.
Which parent is sent in which form is fixed, one form for each parent with two
for the nameless one: forms and parents do not bear on each other, since a form
takes the attributes over as they are. One damage or one conversion is
enough, since a form that was damaged or converted is one the next step could
have been given in the first place. In `header`, the reservation is
2, so 7 and 9 take several rounds that double; the long form begins at 3;
2 fields or 3 go beyond the total of 5, and two fields of 7 go beyond `Top`. Three
attributes are enough for a key to be named twice beside another, or three times;
two keys have the same length, so that a header may have two such
attributes without naming one twice.

**Fairness.** `Spool` is weakly fair to each of the two tasks: tokio runs a task
that can run, and a read from the source is in the task's own progress only in
properties that assume it (`Drains` and `Answers` state that assumption as a
premise, `WF_vars(CopyRead)`: the content answers). Nothing is assumed of the
reader except where a property says that it goes on reading. `Response` is fair
to the runtime's steps and never to the producer's own decisions; that the
server polls is a premise of the two properties that need it. `Exchange` is fair
to each party separately, since the deadlock is about parties that all want to
go on. `Transfer` is fair to the reads of a call of `next`, and never to the
writer; that the caller calls again is a premise of `EndIsTold`. `Request` is
fair to the whole, meaning a client that goes on, ends or fails and a server
that serves it; no party there can be starved by another, since each request is
a single chain of steps that ends. `Bundle` is fair to sending, arriving, merging
and timing out, never to the caller that splits, nor to damage and conversion:
`Settles` is about splits that their caller has ended.

**Where the code and its documentation part** (`findings`):

* `spool_panic`: a source that panics ends the spooled content cleanly and early
  (`spool.rs:200`), where the documentation says that the reader waits.
* `spool_empty_read`: a read into a buffer without room takes the copy's error
  ahead of the bytes still to come (`spool.rs:41`).
* `spool_memory`: up to two times 64 KiB are between the file and the reader,
  the pipe and the buffer waiting to go into it, not one (`spool.rs:218`).
* `transfer_cancelled`: a `next` that is dropped while it skips the rest of a
  content leaves the reader out of step (`async_io.rs:642`). Only calls that were
  dropped while skipping count in `NeverMispositioned`; in the trace one has skipped
  one of two bytes, and the next call skips two more, into the flow file behind.
* `request_batch`: `FlowFileRequest` accepts a body with more than one flow file
  (`axum_support.rs:212`), which the documentation of `FlowFilesRequest` says it
  rejects.

## 4. What is proved

TLAPS proves the following for every value of the constants, from assumptions
that the modules name and no others:

* `SizeAssumption` and its siblings in `Spool`, `ChunkAssumption` and its siblings
  in `Response`, `ExchangeAssumption`, `HeaderParserAssumption`,
  `RequestAssumption`: sizes, lengths and limits are natural numbers, a total limit
  and a length fit in a `usize`, the keys that headers may name are finitely many,
  and a pipe, a chunk, a direction of a socket, a header and the reservation are at
  least one byte. The `buffer_size` asked for in
  `Response` may be zero, as it may in the code, which corrects it. In `Exchange`
  the producer writes the response and no more.
* `WireAssumption`: a header is longer than the one byte that `next` reads to see
  whether there is a flow file (the magic alone has seven), sizes are natural
  numbers, and there is some bound on the number of flow files.
* `FragmentsAssumption`, `BundleAssumption`: the keys chosen for a split differ from
  each other and are none of `uuid` and `filename`; different numbers are written
  differently, and none as one of the two values (`Stale`) that stand for what an
  earlier split or the caller left behind; contents are sequences of bytes; the
  parent's filename is not one of those values. That the two are told apart from
  all others is what they are there for: a part that shows one shows a value that
  is not of its split.

**`SpoolProofs`.** `TypeOK` and the four safety properties of the run `spool` that are
about the reader are not inductive: that the reader was told a clean end says
nothing about why the pipe was shut. `IInv` strengthens them with
* `Cursors`: the order of all cursors, `got <= sent <= position <= written <=
  landed <= taken`, and where the two handles of the file are;
* `CopyAt`: how far the copy has got in its round;
* `Contents`: every byte in the file below `landed`, and every byte the follow
  task read, is the one at its offset;
* `Snapshot`: the follow task's snapshot is behind the channel, and equal to it
  when it waits with nothing unseen, which is why it misses no update;
* `Endings`: each way in which a task can be at its end, and what that says of the
  count, the slot and the other task;
* `Told`: what must be the case once the reader was told an end or an error.

From it follow `TypeCorrect`, `ContentIntact`, `FileNeverShort`,
`CleanEndIsComplete`, `ErrorInPlace`, `MemoryIsBounded`, the action property
`CleanEndIsFinal`, and `SpoolImplementsStream`: the initial state maps to one of
`ContentStream`, and every step to a step of it or to a stutter.

That no update is missed has a second half: a publication that the follow task
has not seen is never the one it has already (`Watched`), so that each wakeup
finds something new. `SpoolsStop` needs it.

**`ExchangeProofs`.** First the response by itself. `IInv` adds to `TypeOK` the
order of the cursors (`Cursors`: what is produced and not yet streamed fits in the
pipe), that a producer outside a write has nothing left to write while the body is
there (`NothingPending`), that one that is through holds no end of the pipe
(`Endings`), and what is the case once the server was told an end (`Told`). A
clean end is whole because the outcome is looked at behind the end of the pipe:
`Told` gives that the pipe is drained and the producer returned `Ok`, and
`NothingPending` that such a producer's writes were all accepted. From `IInv`
follow `TypeCorrect`, `CleanEndsAreWhole`, `ErrorsAreTheProducers` and
`BufferBoundsTheLead`.

Then the exchange around it. Every step of an exchange is one of its response or
leaves it alone (`ExchangeHasAResponse`), so `IInv` holds there too. `ExchangeIInv`
adds where the bytes of the request are (`RequestCursors`) and that nobody fails
or gives up in an exchange (`NothingGoesWrong`). `OnlyTheDocumentedStall` follows
the circle: when none of the guards holds, the producer can only be in a write
that the pipe has no room for, so the server does not poll, so the client has
bytes to read and does not read them, so it is NiFi in the middle of its request,
with the socket full; and nobody empties it, so the handler reads directly
(`WhereItStands`). That the buffer is smaller than the response is then a matter of
counting. This was the last safety property of a passing run without a proof; the
guards were given names for it, so that it can be said without `ENABLED`.

**`HeaderParserProofs`.** `LengthsRoundTrip`: a length is read back from either
form. `IInv` adds to `TypeOK` and `BackedByBytes` that there is no buffer between
two fields (`NoBuffer`) and that the field being read fits in what is left of the
total (`FitsTheTotal`: a fact about its declared length, from which the one about
its buffer follows). From it follow `TypeCorrect`, `ReservationsAreBacked` and
`TotalBoundsTheBuffers`, the last one also where the lengths do not add up within
a `usize`.

`AgreesWithCheck` compares a sum that the parser builds up field by field with one
over the entries of a map, and `StopsAtTheContent` one of bytes. The sum over a map
is taken to be the number of pairs of an entry and one of its bytes (`Weight`), so
that what is needed of sums is known of finite sets: a map with another entry
weighs as much more (`WeightOfOneMore`), and one whose entry was replaced no more
than both (`WeightOfInserted`). The folds of `TotalOf` and `HeaderLen` come to the
same number as their weight (`FoldsMeet`, `TotalIs`, `WrittenIs`), by induction over
the subsets of the map's keys. `Accounted` strengthens `IInv` with
* `MapIs`: how many attributes were read, and that the map has no more entries;
* `SpentIs`: what the budget has spent is the total of the map and of the key that
  waits for its value, with saturation at the same place, or more if a key was
  named twice;
* `NothingOver`: what the parser is past kept to each limit, and a refusal is one
  that `Limits::check` makes of every map in `Announced`;
* `WhereItIs`: the bytes consumed are those of the fields so far, or more if the
  writer was a foreign one that uses long forms throughout, or a key was named
  twice.

From it follow `ParserAgreesWithCheck` and `ContentStartsThere`.

**`StreamWriterProofs`.** What the writer has put on the wire. `From(i)` counts the
bytes of the flow files before `i`, and `Layout` says that flow file `i` is the stretch
from `From(i) + 1` to `From(i) + PutOf(i)`, in order and without a gap. On it
stand `Written` (every flow file is whole but for those that were abandoned and
the last one, while it is being written or if its write has failed), `Counted` (a
writer between calls has counted or abandoned every flow file) and `Closed` (a
writer that is finished has left nothing behind). Two lemmas are for the reader:
what is `Sound` of the wire is a beginning of it, and in it a flow file that ended
is followed by the first byte of another, any other byte by the next one of its
own (`SoundPlaces`, `SoundShape`); and a step of the writer changes nothing of
what is on the wire already (`WriterGrows`).

**`TransferProofs`.** All six safety properties of the run `transfer`: the writer of
`StreamWriterProofs` and a reader, each at its own pace. `IInv` is the invariant of
the writer, that of the reader for itself (`Stopped`, `Progress`: a flow file that
was handed out took at least a byte), and, as long as nothing was cancelled that
may not be (`Undisturbed`),
* `Placed`: in each phase of `next`, the last byte that was read is the byte of the
  wire that the reader's cursors say it is, or the end of a flow file;
* `Tallied`: the flow files of which a byte was read are those handed out, and the
  one that was begun;
* `Reported`: a mismatch was reported where the flow file's bytes end, or, by
  `skip_content`, of a flow file that was read to there.

A caller of `skip_content` that goes on after a content that was cut short is at the
end of the stream and not at the end of a flow file (`CutShort`), which is the other
place where a clean end may be told.

The hard step is that of a reader at an end of the stream: from `Closed`, `Layout` and
`Placed` it knows whether the bytes it lacks were ever written. A disturbance
lasts, so that a step that ends undisturbed began so (`StaysCalm`). From `IInv` follow
`TypeCorrect`, `WrittenWhole`, `ReadsAtBoundaries`, `ReadsItsOwn`, `MismatchTrue`,
`CleanEnd` and `AllArrives`. The last one is a matter of counting: a clean end at the end of a finished
stream leaves no flow file torn (`NoneTorn`), so the flow files seen are all there
are, less those abandoned before their first byte.

The attempt also corrected the model. A reader that is out of step may hand out
more flow files than were written, since a content may contain some; the type
invariant had bounded them by `MaxParts`, and a guard had kept the model to it.
Now they are bounded by the bytes that were read.

**`RequestProofs`.** The four safety properties of `Request`. `IInv` counts the
body: what was polled and is not in the chunk is the flow files a batch was
given, plus what the current one has been read of (`PositionOK`; a rejected
request may have been read less of). `BodyOK` says that `ended` is exactly that
the body is over, which gives `PolledToItsEnd`, and that a body that ended did so
with everything sent. `EchoOK` says what a response still owes (`EchoOwes`: the
rest of the content, once the header is out), so that a short content and a
response that owes bytes are the same thing (`WholeResponses`). That a batch is
rejected at an end only where its body is not whole flow files (`StatusIsTrue`)
comes from a fact about numbers, `BegunIsNotWhole`: some whole units and part of
one are no whole number of units. `TypeCorrect` follows from the same invariant.

**`FragmentsProofs`.** A part carries, under the keys of its split, only values
of this split (`PartsAreOwn`); the parts are numbered from one without a gap
(`PartsAreNumbered`); the terminator declares the number of flow files of its
set, itself included (`TerminatorsCount`). The argument is that `Part` drops the
inherited values of all four keys and then sets some, that the four keys differ
(`ChosenKeys`), and that what the caller makes of the part afterwards keeps its
attributes (`MadeOfAttributes`).

**`BundleProofs`.** All five safety properties of the run `bundle`, from one
invariant, `BundleIInv`, whose parts build on each other:
* `FormsOK`: what is under way of a part is a form of it (`IsFormOf`): binary or JSON,
  with its attributes, declaring its size or, in JSON, nothing, and with its
  content, one byte more, or fewer than its size. Each way of sending, damaging
  and converting keeps to this (`SendShape`, `DamageShape`, `ConvertedShape`), and
  whatever an entry point makes of such a form is the part, or nothing, and then
  it is told what is wrong (`ReadAsSent`). This gives `PartsOnTheirWay` and, with
  `ToldRight`, which relates an error to the sizes it was about,
  `TruncationsAreTold`.
* `Inherits` and `PartsLook`: what parts inherit is what the parent had under any
  key that is none of the split's and was not set by the caller. `DefragmentWith`
  takes the keys of the split away again, so this gives `TheParentIsBack`; the
  invariant of `FragmentsProofs`, which is a part of this one, gives `PartsStayOwn`.
* `Budgeted` and `DeclaresRight`: a count is never smaller than the number of parts,
  and a part that declares one declares that, or, a terminator, the number of all.
  A count may be replaced by another one as long as no part declares it (`WithCount`),
  and a bin that was merged had a part that did (`Merged`).
  So a bin that fills has all parts, and no more will follow (`AllThere`). Here it
  matters that different numbers are written differently.
* `CutInPieces`: there are ends in the parent's content between which the parts
  are cut, and what has not been cut is what is behind the last. That the
  pieces put together are the content up to the last end (`FlattenIs`) gives
  `WholeSetsMerge`.

**Induction over data.** The induction theorems of the library take an operator as
a parameter, which the provers cannot instantiate. Where a proof needs
induction over the places of a sequence it is done with a set instead: the
numbers for which a statement fails, if there are any, have a least one
(`WFMin`), which is not 0 and whose predecessor is not among them (`Climb`, `Upwards`,
`LeastElement`). `FoldLeft` and `FlattenSeq` are defined by a `CHOOSE` of a recursive
function; it is shown that such a function exists, and what its values are.

**Progress without fairness.** That something happens in the end has three parts:
there is something to do until then, what is done comes nearer to the end, and
whoever can do it gets to. Only the last is fairness. The first two are safety
properties, and they are proved for all values of the constants: a measure that
every step increases and that has a bound, and a disjunction of guards that holds
until the end is reached.

| Property | Every step comes further, up to a bound | Somebody can go on |
|---|---|---|
| `Completes` | `ExchangesStop` | `OnlyTheDocumentedStall` |
| `OutcomeIsTold`, `WritesGoThrough` | (the producer's own affair) | `PollsAreAnswered`, `WriteOrPollGoesOn` |
| `Drains`, `Answers`, `StopsWhenDropped` of `Spool` | `SpoolsStop` | `FollowWaitsForAPeer`, `ReaderNeverWaitsForNobody`, `SpoolAtRest` |
| `IsAnswered` | `RequestsStop` | `NeverLeftWaiting` |
| `EndIsTold` | `ReadersStop` | `NextWaitsForTheWire` |
| `Settles` | `SetsStop` | `SetsGoOn`, `ClosedSetsFill` |

A behaviour with such a measure comes to rest, and where it rests nobody under
whose fairness it runs can be able to go on; so it rests at its end. This last
inference is about `ENABLED` and stays with TLC, on the instances of the runs.
The measures are sums of cursors and of ranks of the places in the code, with
weights where one step pays for another (a `next` that hands out a flow file goes
back to its first place). They leave out what may go on for ever: in `ReadersStop`
a call of `next` that is dropped and made again, in `SetsStop` a caller that keeps
setting up its split. In `NextWaitsForTheWire` the end of the wire is one of the
guards, which is why a stream that is closed keeps no call waiting.

For `SetsGoOn` and `ClosedSetsFill`, `BundleProofs` has one more invariant
(`Watched`): a part that is not under way has arrived or is known to be lost. So
nothing comes of a part in silence. A closed set that lost nothing then has all its
parts in the bin, and whichever of them declares a count declares their number
(`DeclaresTheSet`, `DeclaresRight`), so the bin is full.

**Only model-checked.** The liveness properties themselves (`Drains`, `Answers`,
`StopsWhenDropped`, `OutcomeIsTold`, `WritesGoThrough`, `Completes`, `EndIsTold`,
`IsAnswered`, `Settles`): the step from the theorems above to them needs fairness,
which is beyond the prover. Every other property of a run that passes is proved.
The other way round, the type invariants of `Spool`, `Response`, `HeaderParser` and
`Request` and the theorems of the table are proved and no run repeats them.

## 5. What is not modelled

* Strings, their encoding, the order of attributes and the list of their names:
  no property of the modules depends on them. The attribute map's own
  reservation (at most 1024 entries) is left out with it.
* Accessors of `FlowFile`, parsing of uuids and dates, the wording of errors:
  values without behaviour over time, which unit tests cover.
* In `Fragments`: `with_identifier` (identifiers are distinct either way), two of
  the four keys chosen the same, a `u64` of parts, a caller that overrides
  other attributes of a single part than its name, and three errors of a caller that
  the code lets pass: setting up again after the first part, so that parts of one
  set differ; `with_count` again after a part was given the first count; and
  `with_count` of fewer parts than there are. A part whose building fails
  is, to the bin, a part that was lost.
* A second serialization of one `StreamingFlowFile`.
* A caller of `parse_next` that goes on after another error than a mismatch: the
  reader failed, or what it read was no header. Nothing is known of its position.
* What a stream with a torn flow file in it is read as, behind the place where a
  write was dropped.
* The commands `create`, `attrs` and `content`: input and output around single
  calls.
* The creation of a temporary file, which may fail before anything has begun.
* `FlowFilesResponse::buffered`: a byte buffer.

## 6. Plan

Done, in this order: `Spool` and `ContentStream` with their proofs, since spooling
is the most concurrent part of the crate; `Response` and `Exchange`, the deadlock
it exists for, and the proofs of `Response`; `Wire`, `StreamWriter`, `StreamReader`
and `Transfer`, the part everyone uses, in every way to drive a reader;
`HeaderParser` with its proofs; `Request`, of one flow file and of many, with its
proofs; `FlowFile`, `Fragments` and `Bundle`, with the proofs of `Fragments`; then the
proofs of `StreamWriter` and `Transfer`, the sums of `HeaderParser`, and the proofs of
`Bundle`; last, the proofs of `Exchange`, and progress in `Exchange`, `Spool`,
`Request`, `Transfer` and `Bundle`.

Next, in the model:

1. `Exchange` with a spool or a producer that fails.
2. A `Request` whose content is spooled before it is answered with.

Next, in the proofs: the same two kinds of theorems for `HeaderParser`, which has no
liveness property yet.
