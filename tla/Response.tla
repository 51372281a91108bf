------------------------------ MODULE Response ------------------------------
(***************************************************************************)
(* A streaming FlowFilesResponse (src/axum_support.rs).                    *)
(*                                                                         *)
(* into_response spawns the producer with a writer onto one end of a       *)
(* bounded pipe, and hands the server a ProducerStream over the other.     *)
(* The server polls that stream for the body: bytes while the pipe has     *)
(* some, then the producer's own outcome.  Dropping the body, as happens   *)
(* when the client goes away, aborts the producer.                         *)
(*                                                                         *)
(* The producer's code is the caller's.  It may write, compute, let go of  *)
(* the writer, return, fail or panic, in any order.  It awaits the writes  *)
(* it begins: one that drops a write half-way is outside this model.       *)
(***************************************************************************)
EXTENDS Naturals

CONSTANTS
  Asked,      \* the sizes buffer_size may be asked for, 0 included
  Chunk,      \* how many bytes ReaderStream reads at most at a time
  MaxBytes,   \* bound: how many bytes the producer writes in all
  Kinds       \* "async" for new and from_stream, "blocking" for blocking

ASSUME AskedAssumption == Asked \subseteq Nat
ASSUME ChunkAssumption == Chunk \in Nat \ {0}
ASSUME BytesAssumption == MaxBytes \in Nat
ASSUME KindsAssumption == Kinds \subseteq {"async", "blocking"}

VARIABLES
  kind,        \* which constructor made the response
  bufferSize,  \* capacity of the pipe
  producer,    \* state of the producer's task
  writer,      \* the producer still holds its end of the pipe
  written,     \* bytes the producer has asked its writer to write
  produced,    \* how many of them are in the pipe or beyond it
  streamed,    \* how many of those the body has yielded
  handle,      \* ProducerStream.producer is Some
  verdict,     \* how the body ended for the server: "open", "end" or "error"
  dropped      \* the server dropped the body

producerVars == <<producer, writer, written, produced>>
bodyVars     == <<streamed, handle, verdict, dropped>>
responseVars == <<kind, bufferSize, producerVars, bodyVars>>

Finished == {"ok", "failed", "panicked", "aborted"}

Least(a, b)   == IF a < b THEN a ELSE b
Largest(a, b) == IF a < b THEN b ELSE a

BufferSize_AsAsked(bytes) == bytes
\* buffer_size: a pipe of no bytes could never take one.
BufferSize(bytes) == Largest(bytes, 1)

Init ==
  /\ kind \in Kinds
  /\ \E bytes \in Asked : bufferSize = BufferSize(bytes)
  /\ producer = "queued" /\ writer = TRUE
  /\ written = 0 /\ produced = 0
  /\ streamed = 0 /\ handle = TRUE /\ verdict = "open" /\ dropped = FALSE

(***************************************************************************)
(* The producer                                                            *)
(***************************************************************************)

Start ==
  /\ producer = "queued"
  /\ producer' = "working"
  /\ UNCHANGED <<kind, bufferSize, writer, written, produced, bodyVars>>

MayWrite == producer = "working" /\ writer /\ written < MaxBytes

\* A write of some bytes begins; it ends when the pipe has taken them all.
BeginWrite ==
  /\ MayWrite
  /\ \E n \in 1 .. MaxBytes :
       /\ written + n <= MaxBytes
       /\ written' = written + n
  /\ producer' = "writing"
  /\ UNCHANGED <<kind, bufferSize, writer, produced, bodyVars>>

HasRoom == producer = "writing" /\ ~dropped /\ produced - streamed < bufferSize

Accept_Unbounded ==
  /\ producer = "writing" /\ ~dropped
  /\ produced' = written
  /\ producer' = "working"
  /\ UNCHANGED <<kind, bufferSize, writer, written, bodyVars>>
\* The pipe takes what it has room for.
Accept ==
  /\ HasRoom
  /\ produced' = produced + Least(written - produced, bufferSize - (produced - streamed))
  /\ producer' = IF produced' = written THEN "working" ELSE "writing"
  /\ UNCHANGED <<kind, bufferSize, writer, written, bodyVars>>

\* The read half went away and the write fails.  A producer need not give up.
WriteFails ==
  /\ producer = "writing" /\ dropped
  /\ producer' = "working"
  /\ UNCHANGED <<kind, bufferSize, writer, written, produced, bodyVars>>

\* The writer may be dropped well before the producer is through.
LetGo ==
  /\ producer = "working" /\ writer
  /\ writer' = FALSE
  /\ UNCHANGED <<kind, bufferSize, producer, written, produced, bodyVars>>

MayReturn(outcome) == producer \in (IF outcome = "ok" THEN {"working"} ELSE {"working", "writing"})

Return_LeavesPipeOpen(outcome) ==
  /\ MayReturn(outcome)
  /\ producer' = outcome
  /\ UNCHANGED <<kind, bufferSize, writer, written, produced, bodyVars>>
\* The producer returns Ok between two writes, and Err or a panic anywhere,
\* a part's content failing in the middle of a write among them.
Return(outcome) ==
  /\ MayReturn(outcome)
  /\ producer' = outcome /\ writer' = FALSE
  /\ UNCHANGED <<kind, bufferSize, written, produced, bodyVars>>

Ends == \E outcome \in {"ok", "failed", "panicked"} : Return(outcome)

\* An aborted task stops where it waits.  A blocking one stops only as long
\* as it has not begun.
Stoppable == IF kind = "blocking" THEN {"queued"} ELSE {"queued", "working", "writing"}

Aborted_Never == FALSE /\ UNCHANGED responseVars
Aborted ==
  /\ dropped /\ handle
  /\ producer \in Stoppable
  /\ producer' = "aborted" /\ writer' = FALSE
  /\ UNCHANGED <<kind, bufferSize, written, produced, bodyVars>>

(***************************************************************************)
(* The body                                                                *)
(***************************************************************************)

HasBytes == ~dropped /\ handle /\ streamed < produced
HasEnded == ~dropped /\ handle /\ streamed = produced /\ ~writer /\ producer \in Finished

\* poll_next, the pipe having bytes.
PollChunk ==
  /\ HasBytes
  /\ streamed' = streamed + Least(Chunk, produced - streamed)
  /\ UNCHANGED <<kind, bufferSize, producerVars, handle, verdict, dropped>>

PollOutcome_PipeOnly ==
  /\ ~dropped /\ handle
  /\ streamed = produced /\ ~writer
  /\ handle' = FALSE
  /\ verdict' = "end"
  /\ UNCHANGED <<kind, bufferSize, producerVars, streamed, dropped>>
PollOutcome_PipeUndrained ==
  /\ ~dropped /\ handle
  /\ producer \in Finished
  /\ handle' = FALSE
  /\ verdict' = IF producer = "ok" THEN "end" ELSE "error"
  /\ UNCHANGED <<kind, bufferSize, producerVars, streamed, dropped>>
\* poll_next, the pipe having ended: the body is over when the producer is,
\* and the way the producer is.
PollOutcome ==
  /\ HasEnded
  /\ handle' = FALSE
  /\ verdict' = IF producer = "ok" THEN "end" ELSE "error"
  /\ UNCHANGED <<kind, bufferSize, producerVars, streamed, dropped>>

Poll == PollChunk \/ PollOutcome

Drop ==
  /\ ~dropped
  /\ dropped' = TRUE
  /\ UNCHANGED <<kind, bufferSize, producerVars, streamed, handle, verdict>>

-----------------------------------------------------------------------------
\* The runtime runs what can go on: a queued task, a write into a pipe that
\* has room or no reader, an abort.  What the producer does between its
\* writes, and whether the server polls, is not up to it.
RuntimeSteps == Start \/ Accept \/ WriteFails \/ Aborted

Next == RuntimeSteps \/ BeginWrite \/ LetGo \/ Ends \/ Poll \/ Drop

Spec == Init /\ [][Next]_responseVars /\ WF_responseVars(RuntimeSteps)

(***************************************************************************)
(* What the body and the producer are promised                             *)
(***************************************************************************)

\* Each variable keeps to its type (the producer's task, the pipe between
\* it and the body, and the state of the ProducerStream).
TypeOK ==
  /\ kind \in Kinds /\ bufferSize \in Nat \ {0}
  /\ producer \in {"queued", "working", "writing"} \union Finished
  /\ writer \in BOOLEAN
  /\ written \in 0 .. MaxBytes /\ produced \in 0 .. MaxBytes /\ streamed \in 0 .. MaxBytes
  /\ handle \in BOOLEAN /\ verdict \in {"open", "end", "error"} /\ dropped \in BOOLEAN

\* A body that ends cleanly is everything a producer wrote that returned Ok:
\* "a producer that failed after its last successful write must still poison
\* the stream".
CleanEndIsWhole ==
  verdict = "end" => producer = "ok" /\ streamed = produced /\ produced = written

\* The body fails only for a producer that failed, never for one that is
\* still at work or that returned Ok, and never ahead of its bytes.
ErrorIsTheProducers ==
  verdict = "error" => producer \in Finished \ {"ok"} /\ streamed = produced

\* "the body runs at most buffer_size ahead of the socket": a write resolves
\* only when all but that many of its bytes have gone out.
Backpressure == producer # "writing" /\ ~dropped /\ producer \notin Finished
                  => written - streamed <= bufferSize

\* However the producer ends, a server that goes on polling is told how.
OutcomeIsTold ==
  WF_responseVars(Poll) => (producer \in Finished ~> verdict # "open" \/ dropped)

\* A write goes through as long as somebody polls the body, whatever buffer
\* size was asked for: "a buffer of zero can never accept a write".
WritesGoThrough ==
  WF_responseVars(Poll) => (producer = "writing" ~> producer # "writing")

\* "a producer that is working rather than writing is aborted when the body
\* is dropped": an async one ends even if it would never have returned, a
\* blocking one at its next write.
StopsWhenDropped ==
  dropped /\ verdict = "open" /\ (kind = "async" \/ producer \in {"queued", "writing"})
    ~> producer \notin {"queued", "writing"}
       /\ (kind = "async" => producer \in Finished)
=============================================================================
