---------------------------- MODULE StreamWriter ----------------------------
(***************************************************************************)
(* FlowFilesWriter (src/sync.rs) and FlowFilesWriterAsync                  *)
(* (src/async_io.rs): flow files appended to a writer underneath, which    *)
(* may buffer them, fail at any byte, and is flushed or let go in the end. *)
(*                                                                         *)
(* The content of a flow file is a reader, and may hold fewer bytes than   *)
(* the flow file declares.  write_bytes, whose content is in memory, is    *)
(* the case where it never does: it panics ahead of the first byte rather  *)
(* than write a size that is wrong.                                        *)
(***************************************************************************)
EXTENDS Wire, FiniteSets

VARIABLES
  call,       \* what the writer is doing; "gone" when it was given up
  supply,     \* how many bytes the content being written holds
  put,        \* bytes of the current flow file the wire has taken
  count,      \* flow files written
  poisoned,   \* a write or a flush failed
  finished,   \* finish flushed, and returned the writer underneath
  abandoned   \* the flow files whose write was cancelled

writerVars == <<call, supply, put, count, poisoned, finished, abandoned>>

Part == Len(declared)

WriterInit ==
  /\ call = "idle" /\ supply = 0 /\ put = 0
  /\ count = 0 /\ poisoned = FALSE
  /\ finished = FALSE /\ abandoned = {}

Write_Unguarded ==
  /\ call = "idle"
  /\ Part < MaxParts
  /\ \E size \in Sizes :
       /\ declared' = Append(declared, size)
       /\ supply' \in 0 .. size
  /\ put' = 0
  /\ call' = "writing"
  /\ UNCHANGED <<wire, landed, closed, count, poisoned, finished, abandoned>>
\* write and write_bytes, up to the first byte.  A poisoned writer refuses.
Write ==
  /\ call = "idle" /\ ~poisoned
  /\ Part < MaxParts
  /\ \E size \in Sizes :
       /\ declared' = Append(declared, size)
       /\ supply' \in 0 .. size
  /\ put' = 0
  /\ call' = "writing"
  /\ UNCHANGED <<wire, landed, closed, count, poisoned, finished, abandoned>>

\* The header, and then what the content holds, some bytes at a time.
Accept ==
  /\ call = "writing"
  /\ \E n \in 1 .. Header + supply - put :
       /\ wire' = wire \o Bytes(Part, put, n)
       /\ put' = put + n
  /\ UNCHANGED <<landed, closed, declared, call, supply, count, poisoned, finished, abandoned>>

WriteReturns_Unmeasured ==
  /\ call = "writing"
  /\ put = Header + supply
  /\ count' = count + 1
  /\ call' = "idle"
  /\ UNCHANGED <<wireVars, supply, put, poisoned, finished, abandoned>>
\* Content that ended early is an error, and an error poisons.
WriteReturns ==
  /\ call = "writing"
  /\ put = Header + supply
  /\ IF supply = declared[Part]
     THEN count' = count + 1 /\ poisoned' = poisoned
     ELSE count' = count /\ poisoned' = TRUE
  /\ call' = "idle"
  /\ UNCHANGED <<wireVars, supply, put, finished, abandoned>>

\* The writer underneath fails, or the content does.
WriteFails ==
  /\ call = "writing"
  /\ poisoned' = TRUE
  /\ call' = "idle"
  /\ UNCHANGED <<wireVars, supply, put, count, finished, abandoned>>

\* The future of an asynchronous write is dropped where it waits.  Nothing
\* tells the next write that it was.
WriteCancelled ==
  /\ call = "writing" /\ "write" \in Cancels
  /\ abandoned' = abandoned \union {Part}
  /\ call' = "idle"
  /\ UNCHANGED <<wireVars, supply, put, count, poisoned, finished>>

\* The writer underneath passes on what it holds, on its own or on a flush.
Land ==
  /\ ~closed
  /\ landed' \in landed + 1 .. Len(wire)
  /\ UNCHANGED <<wire, closed, declared, writerVars>>

\* flush and shutdown, failing.  There is no guard on either.
FlushFails ==
  /\ call = "idle"
  /\ poisoned' = TRUE
  /\ UNCHANGED <<wireVars, call, supply, put, count, finished, abandoned>>

Finish_Unflushed ==
  /\ call = "idle"
  /\ closed' = TRUE /\ finished' = TRUE
  /\ call' = "gone"
  /\ UNCHANGED <<wire, landed, declared, supply, put, count, poisoned, abandoned>>
\* finish, the flush having succeeded.  A poisoned writer may finish.
Finish ==
  /\ call = "idle"
  /\ landed = Len(wire)
  /\ closed' = TRUE /\ finished' = TRUE
  /\ call' = "gone"
  /\ UNCHANGED <<wire, landed, declared, supply, put, count, poisoned, abandoned>>

\* into_inner, a finish whose flush failed, or a drop in the middle of a
\* write: what has not landed may still, or may be lost.
LetGo ==
  /\ call \in {"idle", "writing"}
  /\ landed' \in landed .. Len(wire)
  /\ closed' = TRUE
  /\ call' = "gone"
  /\ UNCHANGED <<wire, declared, supply, put, count, poisoned, finished, abandoned>>

WriterNext ==
  \/ Write \/ Accept \/ WriteReturns \/ WriteFails \/ WriteCancelled
  \/ Land \/ FlushFails \/ Finish \/ LetGo

-----------------------------------------------------------------------------
WriterTypeOK ==
  /\ call \in {"idle", "writing", "gone"}
  /\ supply \in Nat /\ put \in 0 .. Header + supply
  /\ count \in 0 .. Part
  /\ poisoned \in BOOLEAN /\ finished \in BOOLEAN /\ abandoned \subseteq 1 .. Part

PutOf(i) == Cardinality({place \in 1 .. Len(wire) : wire[place][1] = i})

\* Flow files that were given up with a part of them out.
Torn == {i \in abandoned : PutOf(i) \in 1 .. Header + declared[i] - 1}

\* The end of the first of them: up to there the wire is as it should be.
Sound == Cardinality({place \in 1 .. Len(wire) : \A i \in Torn : wire[place][1] <= i})

\* "Whether a write has failed, leaving the stream mid-flow-file": between
\* two calls the wire holds whole flow files, in order, and as many as were
\* counted, unless the writer says it is poisoned, or up to the first flow
\* file whose write was dropped half-way.
WholeUnlessPoisoned ==
  call = "idle" /\ ~poisoned =>
    /\ count + Cardinality(abandoned) = Part
    /\ \A i \in 1 .. Part : i \notin abandoned => PutOf(i) = Header + declared[i]
    /\ Torn = {} /\ wire # <<>> => Ends(Len(wire))
    /\ \A place \in 1 .. Sound :
         LET first == place = 1 \/ Ends(place - 1)
         IN  IF first THEN Starts(place) ELSE wire[place] = <<wire[place - 1][1], wire[place - 1][2] + 1>>
    /\ \A place \in 2 .. Len(wire) : wire[place - 1][1] <= wire[place][1]
=============================================================================
