------------------------------ MODULE Transfer ------------------------------
(***************************************************************************)
(* A writer of flow files at one end of a wire and a reader at the other,  *)
(* at work at the same time: the two halves of the crate against each      *)
(* other, with a wire that buffers, truncates and breaks.                  *)
(***************************************************************************)
EXTENDS StreamWriter, StreamReader

vars == <<wireVars, writerVars, readerVars>>

TransferInit == WireInit /\ WriterInit /\ ReaderInit

Next ==
  \/ WriterNext /\ UNCHANGED readerVars
  \/ ReaderNext /\ UNCHANGED writerVars

\* Whoever calls next waits for it, and what has arrived can be read.
Spec == TransferInit /\ [][Next]_vars /\ WF_vars(NextSteps /\ UNCHANGED writerVars)

-----------------------------------------------------------------------------
\* Each variable keeps to its type (the fields of the writers and the
\* readers, the locals of next, and the wire between them).
TypeOK == WireTypeOK /\ WriterTypeOK /\ ReaderTypeOK

\* Nobody dropped a future of next half-way, but for who reads a stream,
\* whose polls may be given up, and the reader has not gone past a flow file
\* whose write was dropped half-way.
Undisturbed == (mode = "stream" \/ cancelled = {}) /\ at <= Sound

\* "Each call picks up whatever the last flow file left behind and skips it,
\* so reading none of the content, some of it, or all of it are equally
\* correct": next looks for a flow file only where one starts.
AtBoundary ==
  Undisturbed /\ phase = "first" /\ at < landed /\ at < Sound => Starts(at + 1)

\* What the caller may still read of a content is the rest of that content:
\* never the next flow file's header, which is what a writer that went on
\* after a failed write would have it read.
OwnContent ==
  Undisturbed /\ phase \in {"idle", "memory"} /\ ~done /\ current # 0 =>
    \A n \in 1 .. unread :
      at + n <= Sound => wire[at + n] = <<current, Header + size - unread + n>>

\* SizeMismatch says what the header declared and how much of that arrived,
\* however it was divided between the caller and next, and only of a content
\* that was cut short.  skip_content counts, and misses, what was read
\* before it as never having arrived.
MismatchIsExact ==
  Undisturbed /\ mismatch # <<>> =>
    LET arrived == Cardinality({place \in 1 .. landed :
                     wire[place][1] = current /\ wire[place][2] > Header})
    IN  /\ mismatch[1] = declared[current] /\ mismatch[2] < mismatch[1]
        /\ IF mode = "driven" THEN mismatch[2] <= arrived ELSE mismatch[2] = arrived

\* The stream ends cleanly only where a flow file does: one that was cut
\* short, or given up, is an error, wherever the cut is.  A caller that goes
\* on after a mismatch has had the error from skip_content.
EndsBetweenFlowFiles ==
  Undisturbed /\ verdict = "end" =>
    /\ at = landed
    /\ landed > 0 => Ends(landed) \/ (mode = "driven" /\ mismatch # <<>>)

\* A stream that was finished without a failure, read to a clean end, is
\* every flow file the writer counted, and those that were out when their
\* write was dropped: all of one, or the beginning that skip_content found
\* cut short.
NothingLost ==
  Undisturbed /\ finished /\ ~poisoned /\ verdict = "end" =>
    handed = count + Cardinality({i \in abandoned :
      PutOf(i) = Header + declared[i] \/ (i = current /\ mismatch # <<>>)})

\* A stream that ends is told to have ended, to a caller that keeps asking.
EndIsTold ==
  WF_vars((CallNext \/ SkipContent) /\ UNCHANGED writerVars) => (closed ~> verdict # "open" \/ cancelled # {})

\* FlowFilesReaderAsync::next: "Anything left unread of the previous flow
\* file's content is skipped first, so the caller is never responsible for the
\* stream's position", whatever became of the calls before, as long as those
\* that were given up had only been skipping.
NeverMispositioned ==
  mode = "streaming" /\ abandoned = {} /\ cancelled \subseteq {"discard"} =>
    (phase = "first" /\ at < landed => Starts(at + 1))
=============================================================================
