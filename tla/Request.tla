------------------------------ MODULE Request -------------------------------
(***************************************************************************)
(* Flow files in a request, and one in the response                        *)
(* (src/axum_support.rs): the extractors, strict and not, of one flow file *)
(* (FlowFileRequest) and of many (FlowFilesRequest), the reader            *)
(* FlowFileBody they put over the body of the request, and the response    *)
(* made of a flow file (ExactLength).                                      *)
(*                                                                         *)
(* The handler of one flow file either answers with it, its content still  *)
(* in the request ("echo"), or reads the content itself, on past the end   *)
(* if it likes ("reader").  The handler of many asks for the next one      *)
(* until there is none, or returns the error it was told ("batch").        *)
(*                                                                         *)
(* The body is a header of Header bytes, the content it declares, and what *)
(* may follow: to a batch, flow files of the same size.  The client sends  *)
(* any part of it, in chunks of any size, and then ends the body or fails. *)
(* axum's DefaultBodyLimit makes the body fail at the chunk that goes      *)
(* beyond it.                                                              *)
(***************************************************************************)
EXTENDS Naturals

CONSTANTS
  Header,   \* bytes of a header
  Sizes,    \* the content sizes a header may declare
  MaxBody,  \* bound: bytes of a request body
  Limit     \* DefaultBodyLimit

ASSUME RequestAssumption ==
  /\ Header \in Nat \ {0} /\ Sizes \subseteq Nat
  /\ MaxBody \in Nat /\ Limit \in Nat

VARIABLES
  request,    \* what the client sends: see Requests
  handler,    \* "echo", "reader" or "batch"
  polled,     \* bytes the body has yielded
  body,       \* the body: "open", or how it ended
  chunk,      \* FlowFileBody: bytes of its chunk that are left
  ended,      \* FlowFileBody: the body has reported an end or an error
  overpolled, \* the body was polled after that
  phase,      \* "check", "header", "memory" (into_memory_async, in a
              \* batch), "handler", "rejected" or "answered"
  status,     \* of the response, 0 when there is none yet
  taken,      \* bytes of the header, or of the content, read so far
  whole,      \* flow files the batch has been given
  remaining,  \* ExactLength: bytes the response still owes
  outcome     \* how the response body ended for the client, "open" so far

bodyVars     == <<polled, body, chunk, ended, overpolled>>
responseVars == <<phase, status, taken, whole, remaining, outcome>>
vars         == <<request, handler, bodyVars, responseVars>>

\* The header is well-formed, malformed, or beyond Limits::untrusted; of a
\* batch, that of the second flow file.
Requests ==
  [strict : BOOLEAN, mediaType : BOOLEAN, header : {"good", "bad", "large"},
   size : Sizes, sent : 0 .. MaxBody, last : {"ended", "failed"}]

Least(a, b) == IF a < b THEN a ELSE b

Init ==
  /\ request \in Requests
  /\ handler \in {"echo", "reader", "batch"}
  /\ polled = 0 /\ body = "open" /\ chunk = 0 /\ ended = FALSE /\ overpolled = FALSE
  /\ phase = "check" /\ status = 0 /\ taken = 0 /\ whole = 0 /\ remaining = 0 /\ outcome = "open"

(***************************************************************************)
(* FlowFileBody                                                            *)
(***************************************************************************)

\* What the content reader, a Take, would still read.
Wanted == IF phase = "header" THEN Header - taken ELSE request.size - taken

\* The response has sent its header and is at the content.
Echoing == phase = "handler" /\ handler = "echo" /\ remaining <= request.size

\* The content has been read, or what there is of it.
ContentEnds == Wanted = 0 \/ (chunk = 0 /\ ended)

\* Somebody is in a read that the chunk has nothing for.
Reading ==
  /\ phase \in {"header", "memory"} \/ Echoing \/ (phase = "handler" /\ handler = "reader")
  /\ Wanted > 0 /\ chunk = 0

\* The body yields a chunk of what was sent, fails at one that is beyond
\* the limit, or reports how the client ended it.
BodyYields_RemembersTheEnd ==
  \/ \E n \in 1 .. request.sent - polled :
       /\ polled + n <= Limit
       /\ polled' = polled + n /\ chunk' = n
       /\ UNCHANGED <<body, ended>>
  \/ /\ polled < request.sent /\ request.sent > Limit
     /\ body' = "limited"
     /\ UNCHANGED <<polled, chunk, ended>>
  \/ /\ polled = request.sent
     /\ body' = request.last /\ ended' = (request.last = "ended")
     /\ UNCHANGED <<polled, chunk>>
BodyYields ==
  \/ \E n \in 1 .. request.sent - polled :
       /\ polled + n <= Limit
       /\ polled' = polled + n /\ chunk' = n
       /\ UNCHANGED <<body, ended>>
  \/ /\ polled < request.sent /\ request.sent > Limit
     /\ body' = "limited" /\ ended' = TRUE
     /\ UNCHANGED <<polled, chunk>>
  \/ /\ polled = request.sent
     /\ body' = request.last /\ ended' = TRUE
     /\ UNCHANGED <<polled, chunk>>

\* poll_read with an empty chunk: the body is polled unless it has ended.
\* Polling a stream again that did has no defined outcome.
PollBody ==
  /\ Reading /\ ~ended
  /\ IF body = "open"
     THEN BodyYields /\ overpolled' = overpolled
     ELSE overpolled' = TRUE /\ UNCHANGED <<polled, body, chunk, ended>>
  /\ UNCHANGED <<request, handler, responseVars>>

\* A read takes what the chunk has and the reader wants, or some of it.
TakeChunk ==
  \E n \in 1 .. Least(chunk, Wanted) : chunk' = chunk - n /\ taken' = taken + n

(***************************************************************************)
(* The extractors                                                          *)
(***************************************************************************)

Reject(code) ==
  /\ phase' = "rejected" /\ status' = code
  /\ UNCHANGED <<request, handler, bodyVars, taken, whole, remaining, outcome>>

\* require_media_type, ahead of everything.
CheckMediaType ==
  /\ phase = "check"
  /\ IF request.strict /\ ~request.mediaType
     THEN Reject(415)
     ELSE phase' = "header" /\ UNCHANGED <<request, handler, bodyVars, status, taken, whole, remaining, outcome>>

ReadHeader ==
  /\ phase = "header"
  /\ TakeChunk
  /\ UNCHANGED <<request, handler, polled, body, ended, overpolled, phase, status, whole, remaining, outcome>>

StatusOf_NoLimit(reason) == IF reason = "large" THEN 413 ELSE 400
\* Error::into_response.
StatusOf(reason) == IF reason \in {"large", "limited"} THEN 413 ELSE 400

HeaderNow == IF handler = "batch" /\ whole # 1 THEN "good" ELSE request.header

\* parse_header may tell from the first bytes that it will not have this one.
RejectHeader ==
  /\ phase = "header" /\ taken > 0
  /\ HeaderNow # "good"
  /\ Reject(StatusOf(request.header))

\* The body has ended where a flow file of a batch would start.
BatchIsOver ==
  handler = "batch" /\ phase = "header" /\ taken = 0 /\ chunk = 0 /\ body = "ended"

RejectBody_OnlyAnEnd ==
  /\ phase = "header" /\ Wanted > 0
  /\ chunk = 0 /\ body = "ended"
  /\ Reject(StatusOf(body))
\* The header ends early, or the body fails under it; in a batch, the
\* content does.
RejectBody ==
  /\ phase \in {"header", "memory"} /\ Wanted > 0
  /\ chunk = 0 /\ ended
  /\ ~BatchIsOver
  /\ Reject(StatusOf(body))

\* Nothing beyond the header has been read when the handler runs.  Answering
\* with the flow file commits the response to a length.
Extract ==
  /\ phase = "header" /\ Wanted = 0
  /\ handler # "batch" /\ request.header = "good"
  /\ phase' = "handler" /\ status' = 200
  /\ taken' = 0
  /\ remaining' = Header + request.size
  /\ UNCHANGED <<request, handler, bodyVars, whole, outcome>>

(***************************************************************************)
(* The handler                                                             *)
(***************************************************************************)

\* The reader reads on, past the end too, until it is told of a failure or
\* has had enough.
ReaderReads ==
  /\ phase = "handler" /\ handler = "reader"
  /\ TakeChunk
  /\ UNCHANGED <<request, handler, polled, body, ended, overpolled, phase, status, whole, remaining, outcome>>

ReaderAnswers ==
  /\ phase = "handler" /\ handler = "reader"
  /\ phase' = "answered" /\ outcome' = "end"
  /\ UNCHANGED <<request, handler, bodyVars, status, taken, whole, remaining>>

\* ExactLength::poll_next: the header comes from memory,
EchoHeader ==
  /\ phase = "handler" /\ handler = "echo"
  /\ remaining = Header + request.size
  /\ remaining' = request.size
  /\ UNCHANGED <<request, handler, bodyVars, phase, status, taken, whole, outcome>>

\* the content from the request,
EchoContent ==
  /\ Echoing
  /\ TakeChunk
  /\ remaining' = remaining - (taken' - taken)
  /\ UNCHANGED <<request, handler, polled, body, ended, overpolled, phase, status, whole, outcome>>

EchoEnds_Short ==
  /\ Echoing
  /\ ContentEnds
  /\ outcome' = IF Wanted > 0 /\ body # "ended" THEN "error" ELSE "end"
  /\ phase' = "answered"
  /\ UNCHANGED <<request, handler, bodyVars, status, taken, whole, remaining>>
\* and an end of it that leaves bytes owing is an error, as a failure is.
EchoEnds ==
  /\ Echoing
  /\ ContentEnds
  /\ outcome' = IF (Wanted > 0 /\ body # "ended") \/ remaining > 0 THEN "error" ELSE "end"
  /\ phase' = "answered"
  /\ UNCHANGED <<request, handler, bodyVars, status, taken, whole, remaining>>

(***************************************************************************)
(* A batch.  Its extractor reads nothing, so that what the reader of a     *)
(* stream (FlowFilesAsync) finds, the handler is told, and returns.        *)
(***************************************************************************)

BatchHeader ==
  /\ phase = "header" /\ Wanted = 0
  /\ handler = "batch" /\ HeaderNow = "good"
  /\ phase' = "memory" /\ taken' = 0
  /\ UNCHANGED <<request, handler, bodyVars, status, whole, remaining, outcome>>

BatchReads ==
  /\ phase = "memory"
  /\ TakeChunk
  /\ UNCHANGED <<request, handler, polled, body, ended, overpolled, phase, status, whole, remaining, outcome>>

BatchTakes ==
  /\ phase = "memory" /\ Wanted = 0
  /\ phase' = "header" /\ taken' = 0
  /\ whole' = whole + 1
  /\ UNCHANGED <<request, handler, bodyVars, status, remaining, outcome>>

BatchEnds ==
  /\ BatchIsOver
  /\ phase' = "answered" /\ status' = 200 /\ outcome' = "end"
  /\ UNCHANGED <<request, handler, bodyVars, taken, whole, remaining>>

-----------------------------------------------------------------------------
Next ==
  \/ PollBody
  \/ CheckMediaType \/ ReadHeader \/ RejectHeader \/ RejectBody \/ Extract
  \/ ReaderReads \/ ReaderAnswers
  \/ EchoHeader \/ EchoContent \/ EchoEnds
  \/ BatchHeader \/ BatchReads \/ BatchTakes \/ BatchEnds

\* The client goes on sending until it ends or fails, and the server serves.
Spec == Init /\ [][Next]_vars /\ WF_vars(Next)

(***************************************************************************)
(* What the client and the handler are promised                            *)
(***************************************************************************)

\* Each variable keeps to its type (the request, FlowFileBody, the
\* extraction, and ExactLength).
TypeOK ==
  /\ request \in Requests /\ handler \in {"echo", "reader", "batch"}
  /\ polled \in 0 .. request.sent /\ chunk \in 0 .. polled
  /\ body \in {"open", "ended", "failed", "limited"}
  /\ ended \in BOOLEAN /\ overpolled \in BOOLEAN
  /\ phase \in {"check", "header", "memory", "handler", "rejected", "answered"}
  /\ status \in {0, 200, 400, 413, 415} /\ outcome \in {"open", "end", "error"}
  /\ taken \in 0 .. Header + request.size /\ remaining \in 0 .. Header + request.size
  /\ taken + chunk <= polled /\ whole \in 0 .. request.sent

\* "Polling a Stream after it returns None is contractually undefined, and a
\* reader is free to keep reading past an end it has already been told about."
NeverPolledAfterEnd == ~overpolled

\* That many flow files of the body, in bytes.
Given(n) == n * (Header + request.size)

\* The body is flow files from its first byte to its last.
Divides == \E n \in 0 .. request.sent : Given(n) = request.sent

\* The status tells what was wrong, and no more was read than it took to
\* know: nothing for a media type, never a content that is not wanted yet,
\* and of a batch not a byte behind the flow file that is wrong.
StatusTellsWhy ==
  /\ status = 415 <=> (phase # "check" /\ request.strict /\ ~request.mediaType)
  /\ status = 415 => polled = 0
  /\ status = 413 => HeaderNow = "large" \/ (body = "limited" /\ request.sent > Limit)
  /\ status = 400 => \/ HeaderNow = "bad"
                     \/ IF handler = "batch"
                        THEN body = "failed" \/ (body = "ended" /\ ~Divides)
                        ELSE body \in {"ended", "failed"} /\ request.sent < Header
  /\ status = 200 => IF handler = "batch"
                     THEN whole > 1 => request.header = "good"
                     ELSE request.header = "good" /\ polled >= Header

\* "an aborted response, rather than a complete one carrying a flow file
\* whose header declares more content than it holds": a response ends
\* cleanly with exactly its Content-Length sent, and fails only for a
\* request that did not carry the content or was beyond the limit.  A batch
\* comes to its end only where the client has ended it, with every flow file
\* it sent.
WholeOrFailed ==
  /\ handler = "echo" /\ phase = "answered" =>
       IF outcome = "end"
       THEN taken = request.size /\ remaining = 0
       ELSE taken < request.size /\ (request.sent < Header + request.size \/ body = "limited")
  /\ handler = "batch" /\ phase = "answered" =>
       body = "ended" /\ request.last = "ended" /\ Given(whole) = request.sent

\* Every request whose client goes on, ends or fails is answered in the end.
IsAnswered == <>(phase \in {"rejected", "answered"})

\* "FlowFileRequest parses exactly one and rejects a body with more."
RejectsABatch ==
  status = 200 /\ phase = "answered" /\ handler # "batch" => request.sent <= Header + request.size
=============================================================================
