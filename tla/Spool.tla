------------------------------- MODULE Spool -------------------------------
(***************************************************************************)
(* Spooling a flow file's content (src/spool.rs).                          *)
(*                                                                         *)
(* spool_async moves the content into a temporary file behind the caller's *)
(* back.  Two tasks do it.  The copy task reads the content, writes it to  *)
(* the file, flushes, and publishes how many bytes are in the file on a    *)
(* watch channel.  The follow task waits for that count, reads the file    *)
(* through a handle of its own and pushes the bytes into a bounded pipe.   *)
(* The caller reads the other end of the pipe (SpooledContent), which also *)
(* hands over the error of a failed task, and aborts both when dropped.    *)
(*                                                                         *)
(* A byte is named by its offset in the content, so a file or a stream of  *)
(* bytes is a function from an offset to the byte found there.             *)
(***************************************************************************)
EXTENDS Naturals

CONSTANTS
  Size,       \* how many bytes the content yields before it ends
  PipeSize,   \* PIPE_SIZE: capacity of the pipe and of both tasks' buffers
  Faults,     \* which of FaultKinds may happen
  EmptyReads  \* whether the reader may read into a buffer with no room

FaultKinds == {"source", "write", "flush", "panic", "follow"}

ASSUME SizeAssumption     == Size \in Nat
ASSUME PipeSizeAssumption == PipeSize \in Nat \ {0}
ASSUME FaultsAssumption   == Faults \subseteq FaultKinds
ASSUME ReadsAssumption    == EmptyReads \in BOOLEAN

VARIABLES
  copy,      \* where the copy task is; "done" and "panicked" are its ends
  taken,     \* bytes the copy task has read from the content
  landed,    \* bytes the operating system has written to the file
  file,      \* what the temporary file holds at each offset
  at,        \* the offset of each handle: the copy's sink, the follow's source
  progress,  \* the watch channel's value: (written, done)
  unseen,    \* the follow task has not seen the channel's latest version
  follow,    \* where the follow task is
  saw,       \* its snapshot of progress
  bytes,     \* every byte it has read from the file, in the order of reading
  position,  \* how many that is
  sent,      \* how many of them it has written to the pipe
  got,       \* how many of those the reader has been given
  failure,   \* the slot shared by the tasks and the reader
  error,     \* the first error the reader was given
  errorAt,   \* how many bytes it had been given by then
  eof,       \* the reader was told, without an error, that the content ended
  dropped    \* the reader dropped the content

copyVars   == <<copy, taken, landed>>
fileVars   == <<file, at>>
watchVars  == <<progress, unseen>>
followVars == <<follow, saw, bytes, position, sent>>
readerVars == <<got, error, errorAt, eof, dropped>>
vars       == <<copyVars, fileVars, watchVars, followVars, readerVars, failure>>

None    == "none"            \* an empty failure slot
Hole    == Size              \* no byte: nothing was written here
Offsets == 0 .. Size - 1

Least(a, b) == IF a < b THEN a ELSE b

Init ==
  /\ copy = "read" /\ taken = 0 /\ landed = 0
  /\ file = [o \in Offsets |-> Hole]
  /\ at = [sink |-> 0, source |-> 0]
  /\ progress = [written |-> 0, done |-> FALSE]
  /\ unseen = FALSE
  /\ follow = "look"
  /\ saw = [written |-> 0, done |-> FALSE]
  /\ bytes = [o \in Offsets |-> Hole] /\ position = 0 /\ sent = 0
  /\ failure = None
  /\ got = 0 /\ error = None /\ errorAt = 0
  /\ eof = FALSE /\ dropped = FALSE

(***************************************************************************)
(* The copy task                                                           *)
(***************************************************************************)

\* progress.send_replace: a new version the follow task has yet to see.
Publish(written, done) ==
  /\ progress' = [written |-> written, done |-> done]
  /\ unseen' = TRUE

CopyRead_Backpressure ==
  /\ copy = "read"
  /\ taken - got < 2 * PipeSize
  /\ \/ /\ taken = Size
        /\ copy' = "end"
        /\ taken' = taken
     \/ \E n \in 1 .. PipeSize :
          /\ taken + n <= Size
          /\ taken' = taken + n
          /\ copy' = "write"
  /\ UNCHANGED <<landed, fileVars, watchVars, followVars, readerVars, failure>>

\* content.read: some bytes, as many as the buffer takes, or the end.
CopyRead ==
  /\ copy = "read"
  /\ \/ /\ taken = Size
        /\ copy' = "end"
        /\ taken' = taken
     \/ \E n \in 1 .. PipeSize :
          /\ taken + n <= Size
          /\ taken' = taken + n
          /\ copy' = "write"
  /\ UNCHANGED <<landed, fileVars, watchVars, followVars, readerVars, failure>>

\* sink.write_all: the file's own buffer has the bytes, the file may not.
CopyWrite ==
  /\ copy = "write"
  /\ copy' = "flush"
  /\ UNCHANGED <<taken, landed, fileVars, watchVars, followVars, readerVars, failure>>

\* The operating system writes some of them where the sink handle stands.
Land ==
  /\ copy = "flush"
  /\ \E n \in 1 .. PipeSize :
       /\ landed + n <= taken
       /\ landed' = landed + n
       /\ file' = [o \in Offsets |->
                     IF at.sink <= o /\ o < at.sink + n
                     THEN landed + (o - at.sink)
                     ELSE file[o]]
       /\ at' = [at EXCEPT !.sink = @ + n]
  /\ UNCHANGED <<copy, taken, watchVars, followVars, readerVars, failure>>

CopyFlush_Early ==
  /\ copy = "flush"
  /\ Publish(taken, FALSE)
  /\ copy' = "read"
  /\ UNCHANGED <<taken, landed, fileVars, followVars, readerVars, failure>>

\* sink.flush returns when all of them are in the file; then they count.
CopyFlush ==
  /\ copy = "flush"
  /\ landed = taken
  /\ Publish(taken, FALSE)
  /\ copy' = "read"
  /\ UNCHANGED <<taken, landed, fileVars, followVars, readerVars, failure>>

CopyFails_Silent(step, fault) ==
  /\ copy = step
  /\ fault \in Faults
  /\ copy' = "end"
  /\ UNCHANGED <<taken, landed, fileVars, watchVars, followVars, readerVars, failure>>

\* An error of the read, the write or the flush goes into the slot.
CopyFails(step, fault) ==
  /\ copy = step
  /\ fault \in Faults
  /\ failure' = fault
  /\ copy' = "end"
  /\ UNCHANGED <<taken, landed, fileVars, watchVars, followVars, readerVars>>

\* Behind the loop: the same count, now final.  The sender goes with the task.
CopyEnd ==
  /\ copy = "end"
  /\ Publish(progress.written, TRUE)
  /\ copy' = "done"
  /\ UNCHANGED <<taken, landed, fileVars, followVars, readerVars, failure>>

\* A source that panics unwinds the task: nothing is stored or published.
CopyPanics ==
  /\ copy = "read"
  /\ "panic" \in Faults
  /\ copy' = "panicked"
  /\ UNCHANGED <<taken, landed, fileVars, watchVars, followVars, readerVars, failure>>

CopyAborted_Never == FALSE /\ UNCHANGED vars

\* The task is cancelled where it waits.
CopyAborted ==
  /\ dropped
  /\ copy \notin {"done", "panicked"}
  /\ copy' = "done"
  /\ UNCHANGED <<taken, landed, fileVars, watchVars, followVars, readerVars, failure>>

CopyErrors ==
  \/ CopyFails("read", "source")
  \/ CopyFails("write", "write")
  \/ CopyFails("flush", "flush")

\* What the runtime and the file system do for the copy, the content aside.
CopySteps == CopyWrite \/ Land \/ CopyFlush \/ CopyEnd \/ CopyAborted

SenderGone == copy \in {"done", "panicked"}

(***************************************************************************)
(* The follow task                                                         *)
(***************************************************************************)

FollowLook_EndsWhenCaughtUp ==
  /\ follow = "look"
  /\ saw' = progress
  /\ unseen' = FALSE
  /\ follow' = IF position # progress.written THEN "read" ELSE "end"
  /\ UNCHANGED <<progress, bytes, position, sent, copyVars, fileVars, readerVars, failure>>

\* borrow_and_update, and what the loop makes of the count.
FollowLook ==
  /\ follow = "look"
  /\ saw' = progress
  /\ unseen' = FALSE
  /\ follow' = IF position # progress.written THEN "read"
               ELSE IF progress.done THEN "end" ELSE "wait"
  /\ UNCHANGED <<progress, bytes, position, sent, copyVars, fileVars, readerVars, failure>>

FollowChanged_DeafToTheEnd ==
  /\ follow = "wait"
  /\ unseen
  /\ follow' = "look"
  /\ unseen' = FALSE
  /\ UNCHANGED <<progress, saw, bytes, position, sent, copyVars, fileVars, readerVars, failure>>

\* changed: a version not seen yet counts even when the sender is gone.
FollowChanged ==
  /\ follow = "wait"
  /\ \/ /\ unseen
        /\ follow' = "look"
     \/ /\ ~unseen /\ SenderGone
        /\ follow' = "end"
  /\ unseen' = FALSE
  /\ UNCHANGED <<progress, saw, bytes, position, sent, copyVars, fileVars, readerVars, failure>>

\* How many bytes source.read may return: 0 only when none are in the file.
Readable ==
  LET present == {o \in Offsets : o >= at.source /\ file[o] # Hole}
      want    == Least(saw.written - position, PipeSize)
  IN  IF present = {} THEN {0}
      ELSE {n \in 1 .. want : \E o \in present : o >= at.source + n - 1}

FollowRead_SharedOffset ==
  /\ follow = "read"
  /\ \E n \in Readable :
       /\ bytes' = [o \in Offsets |->
                      IF position <= o /\ o < position + n
                      THEN file[at.source + (o - position)]
                      ELSE bytes[o]]
       /\ at' = [sink |-> at.sink + n, source |-> at.source + n]
       /\ position' = position + n
       /\ follow' = IF n = 0 THEN "wait" ELSE "send"
  /\ UNCHANGED <<saw, sent, file, copyVars, watchVars, readerVars, failure>>

FollowRead ==
  /\ follow = "read"
  /\ \E n \in Readable :
       /\ bytes' = [o \in Offsets |->
                      IF position <= o /\ o < position + n
                      THEN file[at.source + (o - position)]
                      ELSE bytes[o]]
       /\ at' = [at EXCEPT !.source = @ + n]
       /\ position' = position + n
       /\ follow' = IF n = 0 THEN "wait" ELSE "send"
  /\ UNCHANGED <<saw, sent, file, copyVars, watchVars, readerVars, failure>>

FollowFails ==
  /\ follow = "read"
  /\ "follow" \in Faults
  /\ failure' = "follow"
  /\ follow' = "end"
  /\ UNCHANGED <<saw, bytes, position, sent, copyVars, fileVars, watchVars, readerVars>>

FollowSend_Unbounded ==
  /\ follow = "send"
  /\ sent' = position
  /\ follow' = IF dropped THEN "end" ELSE "look"
  /\ UNCHANGED <<saw, bytes, position, copyVars, fileVars, watchVars, readerVars, failure>>

\* pipe.write_all: as much as the pipe takes at a time, until all is in.
FollowSend ==
  /\ follow = "send"
  /\ \/ /\ dropped
        /\ follow' = "end"
        /\ sent' = sent
     \/ /\ ~dropped
        /\ sent - got < PipeSize
        /\ sent' = sent + Least(position - sent, PipeSize - (sent - got))
        /\ follow' = IF sent' = position THEN "look" ELSE "send"
  /\ UNCHANGED <<saw, bytes, position, copyVars, fileVars, watchVars, readerVars, failure>>

\* pipe.shutdown.  From here on an empty pipe is an ended one.
FollowShutdown ==
  /\ follow = "end"
  /\ follow' = "done"
  /\ UNCHANGED <<saw, bytes, position, sent, copyVars, fileVars, watchVars, readerVars, failure>>

FollowAborted ==
  /\ dropped
  /\ follow # "done"
  /\ follow' = "done"
  /\ UNCHANGED <<saw, bytes, position, sent, copyVars, fileVars, watchVars, readerVars, failure>>

FollowSteps ==
  FollowLook \/ FollowChanged \/ FollowRead \/ FollowSend \/ FollowShutdown \/ FollowAborted

(***************************************************************************)
(* The reader                                                              *)
(***************************************************************************)

\* The pipe has something to say: bytes, or that there will be none.
PipeReady == sent > got \/ follow = "done"

Read_FailureFirst(room) ==
  LET n == IF failure # None THEN 0 ELSE Least(room, sent - got)
  IN  /\ ~dropped
      /\ PipeReady
      /\ got' = got + n
      /\ IF n = 0 /\ failure # None
         THEN /\ failure' = None
              /\ error'   = IF error = None THEN failure ELSE error
              /\ errorAt' = IF error = None THEN got ELSE errorAt
              /\ eof'     = eof
         ELSE /\ eof' = (eof \/ (n = 0 /\ room > 0))
              /\ UNCHANGED <<failure, error, errorAt>>
      /\ UNCHANGED <<dropped, copyVars, fileVars, watchVars, followVars>>

\* poll_read with room for that many bytes.  A read that adds nothing takes
\* the error out of the slot; without one it stands as the end.
Read(room) ==
  LET n == Least(room, sent - got)
  IN  /\ ~dropped
      /\ PipeReady
      /\ got' = got + n
      /\ IF n = 0 /\ failure # None
         THEN /\ failure' = None
              /\ error'   = IF error = None THEN failure ELSE error
              /\ errorAt' = IF error = None THEN got ELSE errorAt
              /\ eof'     = eof
         ELSE /\ eof' = (eof \/ (n = 0 /\ room > 0))
              /\ UNCHANGED <<failure, error, errorAt>>
      /\ UNCHANGED <<dropped, copyVars, fileVars, watchVars, followVars>>

\* A caller may also read into a full buffer, which AsyncRead allows.
Rooms == (IF EmptyReads THEN 0 ELSE 1) .. PipeSize

ReaderReads == \E room \in Rooms : Read(room)

\* Dropping the content aborts both tasks and lets go of the pipe.
Drop ==
  /\ ~dropped
  /\ dropped' = TRUE
  /\ UNCHANGED <<got, error, errorAt, eof, copyVars, fileVars, watchVars, followVars, failure>>

-----------------------------------------------------------------------------
Next ==
  \/ CopyRead \/ CopyErrors \/ CopyPanics \/ CopySteps
  \/ FollowSteps \/ FollowFails
  \/ ReaderReads \/ Drop

\* The runtime polls a task that can go on.  Neither the content nor the
\* reader owes anything: a peer may stall and a caller may never read.
Fairness == WF_vars(CopySteps) /\ WF_vars(FollowSteps)

Spec == Init /\ [][Next]_vars /\ Fairness

(***************************************************************************)
(* What the reader and the system are promised                             *)
(***************************************************************************)

\* Each variable keeps to its type (the locals of the two tasks, the watch
\* channel's pair, the slot, and the reader's view).
TypeOK ==
  /\ copy \in {"read", "write", "flush", "end", "done", "panicked"}
  /\ taken \in 0 .. Size /\ landed \in 0 .. Size
  /\ file \in [Offsets -> Offsets \union {Hole}]
  /\ at \in [sink : 0 .. Size, source : 0 .. Size]
  /\ progress \in [written : 0 .. Size, done : BOOLEAN]
  /\ unseen \in BOOLEAN
  /\ follow \in {"look", "wait", "read", "send", "end", "done"}
  /\ saw \in [written : 0 .. Size, done : BOOLEAN]
  /\ bytes \in [Offsets -> Offsets \union {Hole}]
  /\ position \in 0 .. Size /\ sent \in 0 .. Size
  /\ failure \in Faults \union {None}
  /\ got \in 0 .. Size /\ error \in Faults \union {None} /\ errorAt \in 0 .. Size
  /\ eof \in BOOLEAN /\ dropped \in BOOLEAN

\* "its content reads back the same bytes": whatever the reader has been
\* given is the beginning of the content, byte for byte, although it went
\* through a file that two handles share while it grew.
Intact == \A o \in 0 .. got - 1 : bytes[o] = o

\* The comment at the flush: the count is published only when the bytes are
\* in the file, so the follow task never meets the file's end below it.
NeverShort == follow = "read" => 0 \notin Readable

\* A clean end means the whole content: a copy that stopped on an error, at
\* any step, is never taken for the end of the content.
NoEarlyEnd == eof /\ error = None /\ copy # "panicked" => got = Size

\* "the error surfaces from the read that reaches the point where it
\* stopped": behind every byte handed over before it, and ahead of none.
ErrorAtStop == error # None => errorAt = position /\ got = errorAt

\* Memory is bounded whatever the content's size: what is between the file
\* and the reader fills the pipe and one buffer, and what is between the
\* content and the file one more.
MemoryBound ==
  /\ position - got <= 2 * PipeSize
  /\ taken - landed <= PipeSize

\* Once the reader saw a clean end, no later read adds bytes or an error.
EndIsFinal ==
  [][eof /\ error = None /\ copy # "panicked" => UNCHANGED <<got, error>>]_vars

Copied   == copy \in {"done", "panicked"}
Released == Copied /\ follow = "done"

\* "the copy runs whether you read or not": with a content that keeps
\* answering, the copy finishes although nothing is assumed of the reader.
Drains == WF_vars(CopyRead) => <>Copied

\* A reader that keeps reading is told how the content ended.
Answers ==
  WF_vars(CopyRead) /\ WF_vars(\E room \in 1 .. PipeSize : Read(room))
    => <>(eof \/ error # None \/ dropped)

\* "Dropping this stops the copy and releases the temporary file": both
\* tasks end, even when the content never answers again.
StopsWhenDropped == dropped ~> Released

\* The spool seen as a content that arrives: what has been published has
\* arrived, and the first fault to reach the slot is a failure for good.
Stream == INSTANCE ContentStream WITH
  available <- progress.written,
  given     <- got,
  source    <- IF failure # None \/ error # None THEN "failed"
               ELSE IF progress.done THEN "complete"
               ELSE IF copy \in {"done", "panicked"} THEN "lost" ELSE "open",
  outcome   <- IF error # None THEN "error" ELSE IF eof THEN "end" ELSE "none",
  released  <- dropped

\* The two tasks, the file, the channel and the pipe together do no more
\* than that: every step is one of a ContentStream, or changes nothing in it.
ImplementsStream == Stream!Spec

\* "waiting when the reader catches up with the copy rather than reporting
\* the end early", with no exception made for a source that panics.
WaitsForTheCopy == eof /\ error = None => got = Size

\* "At most 64 KiB of them sit between the file and your reader."
OnePipeful == position - got <= PipeSize
=============================================================================
