--------------------------- MODULE ExchangeProofs ---------------------------
(***************************************************************************)
(* The safety of a streaming response, for every buffer size, chunk size   *)
(* and amount of output, and how an exchange around one may come to a      *)
(* standstill, for every size of the sockets, the request and the answer.  *)
(***************************************************************************)
EXTENDS Exchange, TLAPS

(***************************************************************************)
(* A response by itself                                                    *)
(***************************************************************************)

\* The bytes in the pipe are what was produced and not yet streamed.
Cursors ==
  /\ streamed <= produced /\ produced <= written
  /\ produced <= streamed + bufferSize

\* A producer that is not in a write has written what it began to write,
\* unless the body went away under it.
NothingPending ==
  producer \in {"queued", "working", "ok"} /\ (~dropped \/ verdict # "open") => produced = written

\* A producer that is through holds no end of the pipe, and only a dropped
\* body aborts one.
Endings ==
  /\ producer \in Finished => ~writer
  /\ producer = "aborted" => dropped

\* What must be the case once the server was told how the body ended.
Told ==
  /\ handle <=> verdict = "open"
  /\ verdict # "open" => producer \in Finished /\ streamed = produced
  /\ verdict = "end" => producer = "ok"
  /\ verdict = "error" => producer # "ok"

IInv == TypeOK /\ Cursors /\ NothingPending /\ Endings /\ Told

USE AskedAssumption, ChunkAssumption, BytesAssumption, KindsAssumption
    DEF Finished, producerVars, bodyVars

\* Nothing was written yet, and buffer_size makes room for a byte.
LEMMA Initial == Init => IInv
<1> SUFFICES ASSUME Init PROVE IInv
  OBVIOUS
<1>1. bufferSize \in Nat \ {0}
  BY DEF Init, BufferSize, Largest
<1>2. written = 0 /\ produced = 0 /\ streamed = 0 /\ kind \in Kinds
  BY DEF Init
<1>3. producer = "queued" /\ writer = TRUE /\ handle = TRUE /\ verdict = "open" /\ dropped = FALSE
  BY DEF Init
<1>4. TypeOK
  <2>1. /\ written \in 0 .. MaxBytes /\ produced \in 0 .. MaxBytes /\ streamed \in 0 .. MaxBytes
    BY <1>2
  <2>2. producer \in {"queued", "working", "writing"} \union Finished
    BY <1>3
  <2>3. writer \in BOOLEAN /\ handle \in BOOLEAN /\ dropped \in BOOLEAN
    BY <1>3
  <2>4. verdict \in {"open", "end", "error"}
    BY <1>3
  <2> QED
    BY <1>1, <1>2, <2>1, <2>2, <2>3, <2>4 DEF TypeOK
<1>5. Cursors
  BY <1>1, <1>2 DEF Cursors
<1>6. NothingPending /\ Endings /\ Told
  BY <1>2, <1>3 DEF NothingPending, Endings, Told
<1> QED
  BY <1>4, <1>5, <1>6 DEF IInv

LEMMA Inductive == IInv /\ [Next]_responseVars => IInv'
<1> SUFFICES ASSUME IInv, [Next]_responseVars PROVE IInv'
  OBVIOUS
<1> USE DEF IInv
<1>1. CASE Start
  BY <1>1 DEF Start, TypeOK, Cursors, NothingPending, Endings, Told
<1>2. CASE Accept
  <2> DEFINE room == bufferSize - (produced - streamed)
             n    == Least(written - produced, room)
  <2>1. n \in Nat /\ n <= written - produced /\ n <= room
    BY <1>2 DEF Accept, HasRoom, Least, TypeOK, Cursors
  <2>2. produced' = produced + n /\ UNCHANGED <<kind, bufferSize, writer, written, bodyVars>>
    BY <1>2 DEF Accept
  <2>3. producer' = IF produced' = written THEN "working" ELSE "writing"
    BY <1>2 DEF Accept
  <2>4. producer = "writing" /\ verdict = "open" /\ ~dropped
    BY <1>2 DEF Accept, HasRoom, Told
  <2> HIDE DEF n
  <2>5. TypeOK'
    BY <2>1, <2>2, <2>3 DEF TypeOK
  <2>6. Cursors'
    BY <2>1, <2>2 DEF TypeOK, Cursors
  <2>7. NothingPending' /\ Endings' /\ Told'
    BY <2>2, <2>3, <2>4 DEF NothingPending, Endings, Told
  <2> QED
    BY <2>5, <2>6, <2>7
<1>3. CASE WriteFails
  BY <1>3 DEF WriteFails, TypeOK, Cursors, NothingPending, Endings, Told
<1>4. CASE Aborted
  BY <1>4 DEF Aborted, Stoppable, TypeOK, Cursors, NothingPending, Endings, Told
<1>5. CASE BeginWrite
  <2>1. written' \in 0 .. MaxBytes /\ written <= written'
    BY <1>5 DEF BeginWrite, MayWrite, TypeOK
  <2> QED
    BY <1>5, <2>1 DEF BeginWrite, MayWrite, TypeOK, Cursors, NothingPending, Endings, Told
<1>6. CASE LetGo
  BY <1>6 DEF LetGo, TypeOK, Cursors, NothingPending, Endings, Told
<1>7. CASE Ends
  <2>1. PICK outcome \in {"ok", "failed", "panicked"} : Return(outcome)
    BY <1>7 DEF Ends
  <2>2. producer \in {"working", "writing"} /\ (outcome = "ok" => producer = "working")
    BY <2>1 DEF Return, MayReturn
  <2> QED
    BY <2>1, <2>2 DEF Return, TypeOK, Cursors, NothingPending, Endings, Told
<1>8. CASE PollChunk
  <2>1. /\ Least(Chunk, produced - streamed) \in Nat
        /\ Least(Chunk, produced - streamed) <= produced - streamed
    BY <1>8 DEF PollChunk, HasBytes, Least, TypeOK
  <2>2. streamed' \in 0 .. MaxBytes /\ streamed <= streamed' /\ streamed' <= produced
    BY <1>8, <2>1 DEF PollChunk, HasBytes, TypeOK
  <2> QED
    BY <1>8, <2>2 DEF PollChunk, HasBytes, TypeOK, Cursors, NothingPending, Endings, Told
<1>9. CASE PollOutcome
  BY <1>9 DEF PollOutcome, HasEnded, TypeOK, Cursors, NothingPending, Endings, Told
<1>10. CASE Drop
  BY <1>10 DEF Drop, TypeOK, Cursors, NothingPending, Endings, Told
<1>11. CASE UNCHANGED responseVars
  BY <1>11 DEF responseVars, TypeOK, Cursors, NothingPending, Endings, Told
<1> QED
  BY <1>1, <1>2, <1>3, <1>4, <1>5, <1>6, <1>7, <1>8, <1>9, <1>10, <1>11
     DEF Next, RuntimeSteps, Poll

\* The invariant that the properties below follow from.
THEOREM Invariance == Spec => []IInv
<1> QED
  BY Initial, Inductive, PTL DEF Spec

\* The variables of the response keep to their types (ProducerStream).
THEOREM TypeCorrect == Spec => []TypeOK
<1>1. IInv => TypeOK
  BY DEF IInv
<1> QED
  BY <1>1, Invariance, PTL

\* A body that ends cleanly is everything its producer wrote (poll_next waits
\* for the producer's outcome behind the end of the pipe).
THEOREM CleanEndsAreWhole == Spec => []CleanEndIsWhole
<1>1. IInv => CleanEndIsWhole
  BY DEF IInv, NothingPending, Told, CleanEndIsWhole
<1> QED
  BY <1>1, Invariance, PTL

\* A body fails only with its producer, and behind every byte of it
\* (poll_next reads the pipe to its end before it looks at the outcome).
THEOREM ErrorsAreTheProducers == Spec => []ErrorIsTheProducers
<1>1. IInv => ErrorIsTheProducers
  BY DEF IInv, Told, ErrorIsTheProducers
<1> QED
  BY <1>1, Invariance, PTL

\* A producer between two writes is at most one buffer ahead of the body
\* (the duplex pipe of into_response).
THEOREM BufferBoundsTheLead == Spec => []Backpressure
<1>1. IInv => Backpressure
  BY DEF IInv, TypeOK, Cursors, NothingPending, Backpressure
<1> QED
  BY <1>1, Invariance, PTL

\* Between a write and a body that is polled there is always somebody who can
\* go on: the pipe takes a byte at least, whatever buffer_size was asked for.
THEOREM WriteOrPollGoesOn ==
  Spec => [](producer = "writing" /\ ~dropped => HasRoom \/ HasBytes)
<1>1. IInv => (producer = "writing" /\ ~dropped => HasRoom \/ HasBytes)
  BY DEF IInv, TypeOK, Cursors, Told, HasRoom, HasBytes
<1> QED
  BY <1>1, Invariance, PTL

\* Once the producer is through, poll_next has bytes or the outcome for who
\* polls, until it has told that: a body is never left pending for good.
THEOREM PollsAreAnswered ==
  Spec => [](producer \in Finished /\ verdict = "open" /\ ~dropped => HasBytes \/ HasEnded)
<1>1. IInv => (producer \in Finished /\ verdict = "open" /\ ~dropped => HasBytes \/ HasEnded)
  BY DEF IInv, TypeOK, Cursors, Endings, Told, HasBytes, HasEnded
<1> QED
  BY <1>1, Invariance, PTL

(***************************************************************************)
(* The response of an exchange                                             *)
(***************************************************************************)

\* Where the bytes of the request are.
RequestCursors ==
  /\ client \in {"nifi", "curl"} /\ handler \in {"direct", "drained", "spooled"}
  /\ sent \in 0 .. RequestSize /\ arrived \in 0 .. sent /\ consumed \in 0 .. arrived
  /\ sent - arrived <= RequestSocket
  /\ handler = "direct" => arrived = consumed
  /\ client = "nifi" /\ received > 0 => sent = RequestSize

\* Nobody drops the body and no producer fails, so that a response is over
\* only when the request was read and the response written.
NothingGoesWrong ==
  /\ ~dropped /\ verdict # "error"
  /\ producer \in {"queued", "working", "writing", "ok"}
  /\ writer <=> producer # "ok"
  /\ producer = "writing" => produced < written
  /\ producer = "ok" => IsThrough

ExchangeIInv == IInv /\ RequestCursors /\ received \in 0 .. streamed /\ NothingGoesWrong

\* Each step is the server's or the producer's, or none of the response's.
LEMMA StepsOfTheResponse == [ExchangeNext]_vars => [Next]_responseVars
<1> SUFFICES ASSUME [ExchangeNext]_vars PROVE [Next]_responseVars
  OBVIOUS
<1>1. CASE UNCHANGED vars
  BY <1>1 DEF vars
<1>2. CASE ClientSends \/ ClientReads \/ BodyArrives \/ ProducerReads
  BY <1>2 DEF ClientSends, ClientReads, BodyArrives, ProducerReads
<1>3. CASE ProducerStarts \/ PipeAccepts \/ ProducerWrites \/ ServerPolls
  BY <1>3 DEF ProducerStarts, PipeAccepts, ProducerWrites, ServerPolls, Next, RuntimeSteps
<1>4. CASE ProducerReturns
  BY <1>4 DEF ProducerReturns, Next, Ends
<1> QED
  BY <1>1, <1>2, <1>3, <1>4 DEF ExchangeNext

\* What is proved of a Response holds of the one in an exchange: the client,
\* the socket and the handler leave it the steps it has by itself.
THEOREM ExchangeHasAResponse == ExchangeSpec => Init /\ [][Next]_responseVars
<1>1. ExchangeInit => Init
  BY DEF ExchangeInit
<1> QED
  BY <1>1, StepsOfTheResponse, PTL DEF ExchangeSpec

-----------------------------------------------------------------------------
LEMMA ExchangeInitial == ExchangeInit => ExchangeIInv
<1> SUFFICES ASSUME ExchangeInit PROVE ExchangeIInv
  OBVIOUS
<1>1. Init
  BY DEF ExchangeInit
<1>2. IInv
  BY <1>1, Initial
<1>3. RequestCursors /\ received \in 0 .. streamed
  BY <1>1, ExchangeAssumption DEF ExchangeInit, Init, RequestCursors
<1>4. NothingGoesWrong
  BY <1>1 DEF Init, NothingGoesWrong
<1> QED
  BY <1>2, <1>3, <1>4 DEF ExchangeIInv

\* How far everything has come.  No step takes any of it back.
Rank == IF producer = "queued" THEN 0 ELSE IF producer = "ok" THEN 2 ELSE 1
Moved ==
  written + produced + streamed + received + sent + arrived + consumed
    + Rank + (IF verdict = "open" THEN 0 ELSE 1)

\* An action of an exchange keeps the invariant, and moves something.
Advances == ExchangeIInv' /\ Moved' > Moved

LEMMA Numbers ==
  ASSUME ExchangeIInv
  PROVE  /\ written \in Nat /\ produced \in Nat /\ streamed \in Nat /\ received \in Nat
         /\ sent \in Nat /\ arrived \in Nat /\ consumed \in Nat
         /\ RequestSize \in Nat /\ ResponseSize \in Nat /\ MaxBytes = ResponseSize
         /\ RequestSocket \in Nat \ {0} /\ ResponseSocket \in Nat \ {0}
         /\ bufferSize \in Nat \ {0} /\ Chunk \in Nat \ {0}
         /\ received <= streamed /\ streamed <= produced /\ produced <= written /\ written <= MaxBytes
         /\ consumed <= arrived /\ arrived <= sent /\ sent <= RequestSize
         /\ Moved \in Nat
<1>1. RequestSize \in Nat /\ ResponseSize \in Nat /\ MaxBytes = ResponseSize
      /\ RequestSocket \in Nat \ {0} /\ ResponseSocket \in Nat \ {0} /\ Chunk \in Nat \ {0}
  BY ExchangeAssumption
<1>2. /\ written \in 0 .. MaxBytes /\ produced \in Nat /\ streamed \in Nat /\ bufferSize \in Nat \ {0}
      /\ streamed <= produced /\ produced <= written
  BY DEF ExchangeIInv, IInv, TypeOK, Cursors
<1>3. /\ sent \in 0 .. RequestSize /\ arrived \in 0 .. sent /\ consumed \in 0 .. arrived
      /\ received \in 0 .. streamed
  BY DEF ExchangeIInv, RequestCursors
<1>4. /\ written \in Nat /\ sent \in Nat /\ arrived \in Nat /\ consumed \in Nat /\ received \in Nat
  BY <1>1, <1>2, <1>3
<1>5. Rank \in Nat
  BY DEF Rank
<1> QED
  BY <1>1, <1>2, <1>3, <1>4, <1>5 DEF Moved

\* What the client does, and what takes the request off the socket.
LEMMA RequestMoves ==
  ASSUME ExchangeIInv, ClientSends \/ ClientReads \/ BodyArrives \/ ProducerReads
  PROVE  Advances
<1>1. IInv'
  BY Inductive, StepsOfTheResponse DEF ExchangeIInv, ExchangeNext
<1>2. UNCHANGED responseVars
  BY DEF ClientSends, ClientReads, BodyArrives, ProducerReads
<1>3. UNCHANGED <<producer, writer, written, produced, streamed, verdict, dropped, client, handler>>
  BY <1>2 DEF responseVars, ClientSends, ClientReads, BodyArrives, ProducerReads
<1>4. NothingGoesWrong'
  <2>1. producer = "ok" => consumed' = consumed
    BY DEF ClientSends, ClientReads, BodyArrives, ProducerReads, InputIsThere
  <2> QED
    BY <1>3, <2>1 DEF ExchangeIInv, NothingGoesWrong, IsThrough
<1>5. ASSUME RequestCursors', received' \in 0 .. streamed,
             sent' + arrived' + consumed' + received' > sent + arrived + consumed + received,
             sent' \in Nat, arrived' \in Nat, consumed' \in Nat, received' \in Nat
      PROVE  Advances
  BY <1>1, <1>3, <1>4, <1>5, Numbers DEF Advances, ExchangeIInv, Moved, Rank
<1>6. CASE ClientSends
  <2>1. sent' = sent + 1 /\ UNCHANGED <<client, handler, arrived, consumed, received>>
    BY <1>6 DEF ClientSends
  <2>2. sent < RequestSize /\ sent - arrived < RequestSocket
    BY <1>6 DEF ClientSends, SocketHasRoom
  <2> QED
    BY <1>5, <2>1, <2>2, Numbers DEF ExchangeIInv, RequestCursors
<1>7. CASE ClientReads
  <2>1. received' = received + 1 /\ received < streamed /\ (client = "curl" \/ sent = RequestSize)
    BY <1>7 DEF ClientReads, ResponseIsThere
  <2>2. UNCHANGED <<client, handler, sent, arrived, consumed>>
    BY <1>7 DEF ClientReads
  <2> QED
    BY <1>5, <2>1, <2>2, Numbers DEF ExchangeIInv, RequestCursors
<1>8. CASE BodyArrives
  <2>1. arrived' = arrived + 1 /\ arrived < sent /\ handler # "direct"
    BY <1>8 DEF BodyArrives, RequestIsThere
  <2>2. UNCHANGED <<client, handler, sent, consumed, received>>
    BY <1>8 DEF BodyArrives
  <2> QED
    BY <1>5, <2>1, <2>2, Numbers DEF ExchangeIInv, RequestCursors
<1>9. CASE ProducerReads
  <2>1. /\ consumed' = consumed + 1
        /\ arrived' = IF handler = "direct" THEN arrived + 1 ELSE arrived
        /\ consumed < (IF handler = "direct" THEN sent ELSE arrived)
    BY <1>9 DEF ProducerReads, InputIsThere
  <2>2. UNCHANGED <<client, handler, sent, received>>
    BY <1>9 DEF ProducerReads
  <2> QED
    BY <1>5, <2>1, <2>2, Numbers DEF ExchangeIInv, RequestCursors
<1> QED
  BY <1>6, <1>7, <1>8, <1>9

\* What the producer, its pipe and the server do.
LEMMA ResponseMoves ==
  ASSUME ExchangeIInv,
         ProducerStarts \/ ProducerWrites \/ PipeAccepts \/ ProducerReturns \/ ServerPolls
  PROVE  Advances
<1>1. IInv'
  BY Inductive, StepsOfTheResponse DEF ExchangeIInv, ExchangeNext
<1>2. UNCHANGED <<client, handler, sent, arrived, consumed, received>>
  BY DEF exchangeVars, ProducerStarts, ProducerWrites, PipeAccepts, ProducerReturns, ServerPolls
<1>3. RequestCursors'
  BY <1>2 DEF ExchangeIInv, RequestCursors
<1>4. ASSUME NothingGoesWrong', streamed <= streamed', streamed' \in Nat,
             written' + produced' + streamed' + Rank' + (IF verdict' = "open" THEN 0 ELSE 1)
               > written + produced + streamed + Rank + (IF verdict = "open" THEN 0 ELSE 1),
             written' \in Nat, produced' \in Nat
      PROVE  Advances
  <2>1. received' \in 0 .. streamed'
    BY <1>2, <1>4, Numbers
  <2>2. Rank' \in Nat /\ Rank \in Nat
    BY DEF Rank
  <2> QED
    BY <1>1, <1>2, <1>3, <1>4, <2>1, <2>2, Numbers DEF Advances, ExchangeIInv, Moved
<1>5. CASE ProducerStarts
  BY <1>4, <1>5, Numbers DEF ProducerStarts, Start, ExchangeIInv, NothingGoesWrong, Rank
<1>6. CASE ProducerWrites
  <2>1. PICK n \in 1 .. MaxBytes : written' = written + n
    BY <1>6 DEF ProducerWrites, BeginWrite
  <2>2. producer = "working" /\ producer' = "writing"
        /\ UNCHANGED <<writer, produced, streamed, verdict, dropped>>
    BY <1>6 DEF ProducerWrites, BeginWrite, MayWrite
  <2> QED
    BY <1>4, <2>1, <2>2, Numbers DEF ExchangeIInv, NothingGoesWrong, Rank
<1>7. CASE PipeAccepts
  <2> DEFINE room == bufferSize - (produced - streamed)
             n    == Least(written - produced, room)
  <2>1. /\ producer = "writing" /\ room > 0 /\ produced' = produced + n
        /\ producer' = (IF produced' = written THEN "working" ELSE "writing")
        /\ UNCHANGED <<writer, written, streamed, verdict, dropped>>
    BY <1>7, Numbers DEF PipeAccepts, Accept, HasRoom
  <2>2. n \in Nat \ {0} /\ produced + n <= written
    BY <2>1, Numbers DEF Least, ExchangeIInv, NothingGoesWrong
  <2> HIDE DEF n
  <2> QED
    BY <1>4, <2>1, <2>2, Numbers DEF ExchangeIInv, NothingGoesWrong, Rank
<1>8. CASE ProducerReturns
  <2>1. /\ producer = "working" /\ producer' = "ok" /\ writer' = FALSE /\ IsThrough
        /\ UNCHANGED <<written, produced, streamed, verdict, dropped>>
    BY <1>8 DEF ProducerReturns, Return, MayReturn
  <2>2. IsThrough'
    BY <1>2, <2>1 DEF IsThrough
  <2> QED
    BY <1>4, <2>1, <2>2, Numbers DEF ExchangeIInv, NothingGoesWrong, Rank
<1>9. CASE ServerPolls
  <2>1. CASE PollChunk
    <3>1. Least(Chunk, produced - streamed) \in Nat \ {0}
      BY <2>1, Numbers DEF PollChunk, HasBytes, Least
    <3>2. streamed' = streamed + Least(Chunk, produced - streamed)
          /\ UNCHANGED <<producer, writer, written, produced, verdict, dropped>>
      BY <2>1 DEF PollChunk
    <3> QED
      BY <1>2, <1>4, <3>1, <3>2, Numbers DEF ExchangeIInv, NothingGoesWrong, IsThrough, Rank
  <2>2. CASE PollOutcome
    <3>1. /\ producer \in Finished /\ verdict = "open" /\ verdict' = (IF producer = "ok" THEN "end" ELSE "error")
          /\ UNCHANGED <<producer, writer, written, produced, streamed, dropped>>
      BY <2>2 DEF PollOutcome, HasEnded, ExchangeIInv, IInv, Told
    <3>2. producer = "ok"
      BY <3>1 DEF ExchangeIInv, NothingGoesWrong
    <3> QED
      BY <1>2, <1>4, <3>1, <3>2, Numbers DEF ExchangeIInv, NothingGoesWrong, IsThrough, Rank
  <2> QED
    BY <1>9, <2>1, <2>2 DEF ServerPolls, Poll
<1> QED
  BY <1>5, <1>6, <1>7, <1>8, <1>9

LEMMA ExchangeAdvances == ExchangeIInv /\ ExchangeNext => Advances
BY RequestMoves, ResponseMoves DEF ExchangeNext

LEMMA ExchangeInductive == ExchangeIInv /\ [ExchangeNext]_vars => ExchangeIInv'
<1> SUFFICES ASSUME ExchangeIInv, [ExchangeNext]_vars PROVE ExchangeIInv'
  OBVIOUS
<1>1. CASE ExchangeNext
  BY <1>1, ExchangeAdvances DEF Advances
<1>2. CASE UNCHANGED vars
  <2>1. IInv'
    BY <1>2, Inductive DEF vars, ExchangeIInv
  <2> QED
    BY <1>2, <2>1 DEF vars, responseVars, exchangeVars, ExchangeIInv, RequestCursors,
                      NothingGoesWrong, IsThrough
<1> QED
  BY <1>1, <1>2

\* The invariant of an exchange, along with that of its response.
THEOREM ExchangeInvariance == ExchangeSpec => []ExchangeIInv
BY ExchangeInitial, ExchangeInductive, PTL DEF ExchangeSpec

\* An exchange moves with every step, and has only so far to go: it cannot go
\* on for ever, whoever is favoured, so it completes or comes to a standstill.
THEOREM ExchangesStop ==
  ExchangeSpec => /\ [][Moved' > Moved]_vars
                  /\ [](Moved \in 0 .. 4 * ResponseSize + 3 * RequestSize + 3)
<1>1. ExchangeIInv /\ [ExchangeNext]_vars => [Moved' > Moved]_vars
  BY ExchangeAdvances DEF Advances
<1>2. ExchangeIInv => Moved \in 0 .. 4 * ResponseSize + 3 * RequestSize + 3
  <2> SUFFICES ASSUME ExchangeIInv PROVE Moved \in 0 .. 4 * ResponseSize + 3 * RequestSize + 3
    OBVIOUS
  <2>1. Rank \in 0 .. 2 /\ (IF verdict = "open" THEN 0 ELSE 1) \in 0 .. 1
    BY DEF Rank
  <2> QED
    BY <2>1, Numbers DEF Moved
<1> QED
  BY <1>1, <1>2, ExchangeInvariance, PTL DEF ExchangeSpec

-----------------------------------------------------------------------------
\* An exchange that stands still and is not complete waits for a producer that
\* waits for the server, which waits for a client that waits for the producer.
LEMMA WhereItStands ==
  ASSUME ExchangeIInv, Stalled
  PROVE  /\ sent < RequestSize /\ sent - arrived = RequestSocket
         /\ client = "nifi" /\ handler = "direct"
         /\ producer = "writing" /\ produced - streamed = bufferSize
         /\ received < streamed
<1>1. /\ ~SocketHasRoom /\ ~ResponseIsThere /\ ~RequestIsThere /\ ~InputIsThere /\ ~HasRoom
      /\ ~(IsMade /\ producer = "queued") /\ ~(HasInput /\ MayWrite) /\ ~(IsThrough /\ MayReturn("ok"))
      /\ ~(ServerHasRoom /\ (HasBytes \/ HasEnded))
  BY DEF Stalled, SomeoneCanGoOn
<1>2. /\ ~dropped /\ producer \in {"queued", "working", "writing", "ok"}
      /\ writer <=> producer # "ok"
      /\ handle <=> verdict = "open"
      /\ verdict # "open" => producer = "ok" /\ verdict = "end"
  BY DEF ExchangeIInv, NothingGoesWrong, IInv, TypeOK, Told
<1>3. handler = "direct" => arrived = consumed
  BY DEF ExchangeIInv, RequestCursors
<1>4. sent = RequestSize \/ sent - arrived = RequestSocket
  <2>1. sent - arrived <= RequestSocket
    BY DEF ExchangeIInv, RequestCursors
  <2> QED
    BY <1>1, <2>1, Numbers DEF SocketHasRoom
<1>5. handler # "direct" => arrived = sent /\ sent = RequestSize
  BY <1>1, <1>4, Numbers DEF RequestIsThere
\* A client that reads has read everything, and then the server has room.
<1>6. client = "curl" \/ sent = RequestSize => received = streamed /\ ~HasBytes /\ ~HasEnded
  BY <1>1, Numbers DEF ResponseIsThere, ServerHasRoom
<1>7. producer # "queued"
  BY <1>1, <1>5 DEF IsMade
<1>8. producer # "working"
  <2> SUFFICES ASSUME producer = "working" PROVE FALSE
    OBVIOUS
  <2>1. consumed = RequestSize
    BY <1>1, <1>3, <1>4, <1>5, Numbers DEF InputIsThere
  <2>2. HasInput
    BY <2>1, Numbers DEF HasInput
  <2>3. written = ResponseSize
    BY <1>1, <1>2, <2>2, Numbers DEF MayWrite
  <2> QED
    BY <1>1, <2>1, <2>3 DEF IsThrough, MayReturn
<1>9. producer # "ok"
  <2> SUFFICES ASSUME producer = "ok" PROVE FALSE
    OBVIOUS
  <2>1. written = ResponseSize /\ consumed = RequestSize
    BY DEF ExchangeIInv, NothingGoesWrong, IsThrough
  <2>2. received = streamed /\ ~HasBytes /\ ~HasEnded
    BY <1>6, <2>1, Numbers
  <2>3. verdict = "end"
    BY <1>2, <2>2, Numbers DEF HasBytes, HasEnded, Finished
  <2>4. streamed = produced /\ produced = written
    BY <2>3 DEF ExchangeIInv, IInv, Told, NothingPending
  <2> QED
    BY <2>1, <2>2, <2>3, <2>4 DEF Stalled, Complete
<1>10. producer = "writing"
  BY <1>2, <1>7, <1>8, <1>9
<1>11. produced - streamed = bufferSize
  <2>1. produced <= streamed + bufferSize
    BY DEF ExchangeIInv, IInv, Cursors
  <2> QED
    BY <1>1, <1>2, <1>10, <2>1, Numbers DEF HasRoom
<1>12. HasBytes
  BY <1>2, <1>10, <1>11, Numbers DEF HasBytes
<1>13. client = "nifi" /\ sent < RequestSize
  <2>1. client # "curl" /\ sent # RequestSize
    BY <1>6, <1>12
  <2> QED
    BY <2>1, Numbers DEF ExchangeIInv, RequestCursors
<1>14. received < streamed
  BY <1>1, <1>12, Numbers DEF ServerHasRoom
<1> QED
  BY <1>4, <1>5, <1>10, <1>11, <1>13, <1>14, Numbers

\* The documented deadlock is the only one, whatever the sizes: NiFi, a
\* producer that reads the request from the socket, and a buffer smaller than
\* the response.  With a buffer "past the size of the whole response", a client
\* that reads as it sends, or a request drained or spooled, somebody can go on
\* until the exchange is complete.
THEOREM OnlyTheDocumentedStall == ExchangeSpec => []StallsAsDocumented
<1>1. ExchangeIInv => StallsAsDocumented
  <2> SUFFICES ASSUME ExchangeIInv, Stalled
               PROVE  /\ Exposed /\ received = 0
                      /\ producer = "writing" /\ produced - streamed = bufferSize
                      /\ sent - arrived = RequestSocket /\ RequestSize - arrived > RequestSocket
    BY DEF StallsAsDocumented
  <2>1. received = 0
    BY WhereItStands, Numbers DEF ExchangeIInv, RequestCursors
  <2>2. produced < written
    BY WhereItStands DEF ExchangeIInv, NothingGoesWrong
  <2>3. bufferSize < ResponseSize
    BY <2>2, WhereItStands, Numbers
  <2> QED
    BY <2>1, <2>3, WhereItStands, Numbers DEF Exposed
<1> QED
  BY <1>1, ExchangeInvariance, PTL
=============================================================================
