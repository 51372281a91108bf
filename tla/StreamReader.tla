---------------------------- MODULE StreamReader ----------------------------
(***************************************************************************)
(* Reading the flow files of a stream one after the other.                 *)
(*   "streaming"  FlowFilesReader (src/sync.rs), FlowFilesReaderAsync      *)
(*                (src/async_io.rs): hands out each flow file with its     *)
(*                content still in the stream.  The caller reads as much   *)
(*                of it as it likes; the next call skips the rest.         *)
(*   "buffered"   FlowFiles and FlowFilesAsync: reads the content first,   *)
(*                as who calls parse_next and into_memory does.            *)
(*   "stream"     FlowFilesAsync::into_stream, which keeps the future of   *)
(*                that next beside it until it is through.                 *)
(*   "driven"     parse_next, with the content read to its end or given to *)
(*                skip_content (or what copies a content and compares its  *)
(*                length, as the commands of bin/nififf3.rs do) before the *)
(*                next call of it.  Nothing is kept between the calls, so  *)
(*                this caller may go on after a mismatch, and does.  It    *)
(*                stops at any other error.                                *)
(*                                                                         *)
(* next is several reads.  The asynchronous one may be dropped at any of   *)
(* them, and leaves behind what it has taken by then.                      *)
(*                                                                         *)
(* What a header says is known to whoever reads it from its first byte.    *)
(* Bytes that are no header are rejected, or pass for one: a content may   *)
(* well be a flow file itself.                                             *)
(***************************************************************************)
EXTENDS Wire

VARIABLES
  mode,      \* "streaming", "buffered", "stream" or "driven"
  phase,     \* what next is at, "idle" between two calls
  at,        \* bytes taken from the wire
  taken,     \* bytes of the current phase of next
  size,      \* declared size of the flow file last parsed
  unread,    \* how much of its content has not been read
  current,   \* which flow file that is, 0 when none or not really one
  inHand,    \* the caller has that flow file, its content still in the stream
  handed,    \* how many next has returned
  done,      \* next returns None from now on
  verdict,   \* how the stream ended: "open", "end" or "error"
  mismatch,  \* the SizeMismatch reported of that flow file, or <<>>
  cancelled  \* what the calls of next that were dropped half-way were at

callVars   == <<phase, at, taken, size, unread, current, inHand, handed>>
resultVars == <<done, verdict, mismatch>>
readerVars == <<mode, callVars, resultVars, cancelled>>

ReaderInit ==
  /\ mode \in {"streaming", "buffered", "stream", "driven"}
  /\ phase = "idle" /\ at = 0 /\ taken = 0
  /\ size = 0 /\ unread = 0 /\ current = 0 /\ inHand = FALSE /\ handed = 0
  /\ done = FALSE /\ verdict = "open" /\ mismatch = <<>> /\ cancelled = {}

InMemory == mode \in {"buffered", "stream"}

\* How many bytes a read with that much room may return.
Arrivals(room) == 1 .. Least(room, landed - at)
EndOfWire      == closed /\ at = landed

Take(n) == at' = at + n /\ taken' = taken + n

\* next returns what is not a flow file, and never returns one again.
Stop(told) ==
  /\ done' = TRUE /\ verdict' = told
  /\ phase' = "idle" /\ taken' = 0

Mismatched(expected, actual) == mismatch' = <<expected, actual>>

\* next: discard_unread returns at once when there is nothing to skip.
CallNext ==
  /\ phase = "idle" /\ ~done
  /\ mode = "driven" => unread = 0
  /\ phase' = IF mode = "streaming" /\ unread > 0 THEN "discard" ELSE "first"
  /\ taken' = 0 /\ inHand' = FALSE
  /\ UNCHANGED <<wireVars, mode, at, size, unread, current, handed, resultVars, cancelled>>

\* skip_content takes the flow file, whatever has been read of its content.
SkipContent ==
  /\ phase = "idle" /\ ~done
  /\ mode = "driven" /\ inHand /\ inHand' = FALSE
  /\ phase' = "discard" /\ taken' = 0
  /\ UNCHANGED <<wireVars, mode, at, size, unread, current, handed, resultVars, cancelled>>

Discard_Unlimited ==
  /\ phase = "discard"
  /\ taken < unread
  /\ \E n \in Arrivals(unread) : Take(n)
  /\ UNCHANGED <<wireVars, mode, phase, size, unread, current, inHand, handed, resultVars, cancelled>>
\* io::copy of the unread bytes into a sink.
Discard ==
  /\ phase = "discard"
  /\ \E n \in Arrivals(unread - taken) : Take(n)
  /\ UNCHANGED <<wireVars, mode, phase, size, unread, current, inHand, handed, resultVars, cancelled>>

\* What follows a skip that found what it wanted.
SkipReturns ==
  /\ phase' = IF mode = "driven" THEN "idle" ELSE "first"
  /\ taken' = 0
  /\ UNCHANGED resultVars

DiscardEnds_Unchecked ==
  /\ phase = "discard"
  /\ taken = unread \/ EndOfWire
  /\ unread' = 0
  /\ SkipReturns
  /\ UNCHANGED <<wireVars, mode, at, size, current, inHand, handed, cancelled>>
DiscardEnds_PartOnly ==
  /\ phase = "discard"
  /\ taken = unread \/ EndOfWire
  /\ unread' = 0
  /\ IF taken = unread
     THEN SkipReturns
     ELSE Stop("error") /\ Mismatched(size, taken)
  /\ UNCHANGED <<wireVars, mode, at, size, current, inHand, handed, cancelled>>
DiscardEnds_WhenFull ==
  /\ phase = "discard"
  /\ taken = unread
  /\ unread' = 0
  /\ SkipReturns
  /\ UNCHANGED <<wireVars, mode, at, size, current, inHand, handed, cancelled>>
\* A content that ended early is reported against the whole of it.
\* skip_content does not know what was read of the content before: it wants
\* the whole size, and reports what it has skipped itself.
DiscardEnds ==
  /\ phase = "discard"
  /\ taken = unread \/ EndOfWire
  /\ unread' = 0
  /\ IF mode = "driven"
     THEN /\ phase' = "idle" /\ taken' = 0
          /\ IF taken = size THEN mismatch' = mismatch ELSE Mismatched(size, taken)
          /\ UNCHANGED <<done, verdict>>
     ELSE IF taken = unread
     THEN SkipReturns
     ELSE Stop("error") /\ Mismatched(size, size - unread + taken)
  /\ UNCHANGED <<wireVars, mode, at, size, current, inHand, handed, cancelled>>

\* The first byte is read by itself, since the stream may end in its place.
FirstByte ==
  /\ phase = "first" /\ at < landed
  /\ at' = at + 1 /\ taken' = 1
  /\ phase' = "header"
  /\ UNCHANGED <<wireVars, mode, size, unread, current, inHand, handed, resultVars, cancelled>>

StreamEnds ==
  /\ phase = "first" /\ EndOfWire
  /\ Stop("end")
  /\ UNCHANGED <<wireVars, mode, at, size, unread, current, inHand, handed, mismatch, cancelled>>

\* parse_header, the rest of it.
ReadHeader ==
  /\ phase = "header"
  /\ \E n \in Arrivals(Header - taken) : Take(n)
  /\ UNCHANGED <<wireVars, mode, phase, size, unread, current, inHand, handed, resultVars, cancelled>>

\* The bytes taken are the beginning of that flow file's header.
HeaderOf(i) == SubSeq(wire, at - taken + 1, at) = Bytes(i, 0, taken)

Parsed(i, declares) ==
  /\ size' = declares /\ unread' = declares
  /\ current' = i /\ inHand' = ~InMemory
  /\ mismatch' = <<>>
  /\ taken' = 0
  /\ IF ~InMemory
     THEN phase' = "idle" /\ handed' = handed + 1
     ELSE phase' = "memory" /\ handed' = handed

HeaderParsed ==
  /\ phase = "header" /\ taken = Header
  /\ \E i \in 1 .. Len(declared) : HeaderOf(i) /\ Parsed(i, declared[i])
  /\ UNCHANGED <<wireVars, mode, at, done, verdict, cancelled>>

HeaderMisread ==
  /\ phase = "header" /\ taken = Header
  /\ \A i \in 1 .. Len(declared) : ~HeaderOf(i)
  /\ \E declares \in Sizes : Parsed(0, declares)
  /\ UNCHANGED <<wireVars, mode, at, done, verdict, cancelled>>

HeaderCutShort ==
  /\ phase = "header" /\ taken < Header /\ EndOfWire
  /\ Stop("error")
  /\ UNCHANGED <<wireVars, mode, at, size, unread, current, inHand, handed, mismatch, cancelled>>

\* into_memory: the whole content, as much of it as arrives.
ReadMemory ==
  /\ phase = "memory"
  /\ \E n \in Arrivals(unread) : Take(n) /\ unread' = unread - n
  /\ UNCHANGED <<wireVars, mode, phase, size, current, inHand, handed, resultVars, cancelled>>

MemoryEnds ==
  /\ phase = "memory"
  /\ unread = 0 \/ EndOfWire
  /\ IF unread = 0
     THEN phase' = "idle" /\ taken' = 0 /\ handed' = handed + 1 /\ UNCHANGED resultVars
     ELSE Stop("error") /\ Mismatched(size, taken) /\ handed' = handed
  /\ UNCHANGED <<wireVars, mode, at, size, unread, current, inHand, cancelled>>

\* The reader underneath fails, or what was read is no header or one beyond
\* the limits.  Inside next that is the end of it.
NextFails ==
  /\ phase \in {"discard", "first", "header", "memory"}
  /\ Stop("error")
  /\ UNCHANGED <<wireVars, mode, at, size, unread, current, inHand, handed, mismatch, cancelled>>

\* Giving up on a poll of the stream drops nothing, and the next poll goes on
\* with the future that Unfold has pending.
Cancellable == "next" \in Cancels /\ mode # "stream"

\* The future of an asynchronous next is dropped where it waits, or that of
\* skip_content, and the flow file with it.
NextCancelled ==
  /\ Cancellable
  /\ phase \in {"discard", "first", "header", "memory"}
  /\ phase' = "idle" /\ taken' = 0
  /\ unread' = IF mode = "driven" THEN 0 ELSE unread
  /\ cancelled' = cancelled \union {phase}
  /\ UNCHANGED <<wireVars, mode, at, size, current, inHand, handed, resultVars>>

ReadContent_CountedOnDrop ==
  /\ phase = "idle" /\ ~done /\ inHand
  /\ \E n \in Arrivals(unread) : at' = at + n
  /\ UNCHANGED <<wireVars, mode, phase, taken, size, unread, current, inHand, handed, resultVars, cancelled>>
\* StreamedContent::read, or content_mut: the caller reads some of the content it was handed.
ReadContent ==
  /\ phase = "idle" /\ ~done /\ inHand
  /\ \E n \in Arrivals(unread) : at' = at + n /\ unread' = unread - n
  /\ UNCHANGED <<wireVars, mode, phase, taken, size, current, inHand, handed, resultVars, cancelled>>

\* What next does once it is called.
NextSteps ==
  \/ Discard \/ DiscardEnds
  \/ FirstByte \/ StreamEnds
  \/ ReadHeader \/ HeaderParsed \/ HeaderMisread \/ HeaderCutShort
  \/ ReadMemory \/ MemoryEnds

ReaderNext ==
  CallNext \/ SkipContent \/ NextSteps \/ NextFails \/ NextCancelled \/ ReadContent

-----------------------------------------------------------------------------
ReaderTypeOK ==
  /\ mode \in {"streaming", "buffered", "stream", "driven"}
  /\ phase \in {"idle", "discard", "first", "header", "memory"}
  /\ at \in 0 .. landed /\ handed \in 0 .. at
  /\ size \in Sizes \union {0} /\ unread \in 0 .. size
  /\ taken \in 0 .. CASE phase = "discard" -> unread
                      [] phase = "header"  -> Header
                      [] phase = "memory"  -> size
                      [] OTHER             -> 0
  /\ current \in 0 .. Len(declared)
  /\ inHand \in BOOLEAN /\ (inHand => ~InMemory /\ phase = "idle" /\ ~done)
  /\ done \in BOOLEAN /\ verdict \in {"open", "end", "error"}
  /\ cancelled \subseteq {"discard", "first", "header", "memory"}
  /\ done <=> verdict # "open"
=============================================================================
