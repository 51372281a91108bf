------------------------------ MODULE Exchange ------------------------------
(***************************************************************************)
(* A client and a handler that answers a request with a streaming response *)
(* on the same connection (the deadlock FlowFilesResponse documents and    *)
(* tests/response_deadlock.rs reproduces).                                 *)
(*                                                                         *)
(* The producer of a Response reads the request in the task that writes    *)
(* the answer.  It reads it                                                *)
(*   "direct"   from the socket,                                           *)
(*   "drained"  from memory or a file, the whole request having been read  *)
(*              before the response was made, or                           *)
(*   "spooled"  from a SpooledContent, a copy running in the background.   *)
(* The client either sends its whole request and then reads the answer, as *)
(* NiFi does, or reads while it sends, as curl does.  Each direction of    *)
(* the socket holds a bounded number of bytes.  The spool is used through  *)
(* what ContentStream promises of it: content arrives, and is then given.  *)
(***************************************************************************)
EXTENDS Response

CONSTANTS
  RequestSize,    \* bytes of the request
  ResponseSize,   \* bytes of the whole response
  RequestSocket,  \* bytes the request direction of the socket holds
  ResponseSocket  \* bytes the response direction holds

ASSUME ExchangeAssumption ==
  /\ RequestSize \in Nat /\ ResponseSize \in Nat
  /\ RequestSocket \in Nat \ {0} /\ ResponseSocket \in Nat \ {0}
  /\ MaxBytes = ResponseSize

VARIABLES
  client,    \* "nifi" or "curl"
  handler,   \* "direct", "drained" or "spooled"
  sent,      \* bytes of the request in the socket or beyond
  arrived,   \* bytes the server has taken out of it
  consumed,  \* bytes the producer has read
  received   \* bytes of the response the client has read

exchangeVars == <<client, handler, sent, arrived, consumed, received>>
vars         == <<responseVars, exchangeVars>>

ExchangeInit ==
  /\ Init
  /\ client \in {"nifi", "curl"}
  /\ handler \in {"direct", "drained", "spooled"}
  /\ sent = 0 /\ arrived = 0 /\ consumed = 0 /\ received = 0

(***************************************************************************)
(* What each party waits for, and does when it is there                    *)
(***************************************************************************)

SocketHasRoom == sent < RequestSize /\ sent - arrived < RequestSocket

\* The client writes into the socket as long as it has room.
ClientSends ==
  /\ SocketHasRoom
  /\ sent' = sent + 1
  /\ UNCHANGED <<responseVars, client, handler, arrived, consumed, received>>

\* read_while_writing is what sets the two clients apart.
ResponseIsThere == (client = "curl" \/ sent = RequestSize) /\ received < streamed

ClientReads ==
  /\ ResponseIsThere
  /\ received' = received + 1
  /\ UNCHANGED <<responseVars, client, handler, sent, arrived, consumed>>

RequestIsThere_OnDemand == handler # "direct" /\ arrived < sent /\ arrived = consumed
RequestIsThere == handler # "direct" /\ arrived < sent

\* Draining and spooling take the request off the socket whatever the
\* response is doing.
BodyArrives ==
  /\ RequestIsThere
  /\ arrived' = arrived + 1
  /\ UNCHANGED <<responseVars, client, handler, sent, consumed, received>>

\* The producer reads between its writes.  With nothing in between, reading
\* is what takes the bytes off the socket.
InputIsThere == producer = "working" /\ consumed < (IF handler = "direct" THEN sent ELSE arrived)

ProducerReads ==
  /\ InputIsThere
  /\ consumed' = consumed + 1
  /\ arrived' = IF handler = "direct" THEN arrived + 1 ELSE arrived
  /\ UNCHANGED <<responseVars, client, handler, sent, received>>

\* A handler that drains the request makes the response when it has it all.
IsMade == handler = "drained" => arrived = RequestSize

ProducerStarts == IsMade /\ Start /\ UNCHANGED exchangeVars

\* It writes as soon as it has read something to write about.
HasInput == consumed > 0 \/ RequestSize = 0

ProducerWrites == HasInput /\ BeginWrite /\ UNCHANGED exchangeVars

PipeAccepts == Accept /\ UNCHANGED exchangeVars

\* Nothing goes wrong here: it returns when it has read and written it all.
IsThrough == consumed = RequestSize /\ written = ResponseSize

ProducerReturns == IsThrough /\ Return("ok") /\ UNCHANGED exchangeVars

\* The server polls the body when the socket has room for what it yields.
ServerHasRoom == streamed - received < ResponseSocket

ServerPolls == ServerHasRoom /\ Poll /\ UNCHANGED exchangeVars

ExchangeNext ==
  \/ ClientSends \/ ClientReads
  \/ BodyArrives \/ ProducerStarts
  \/ ProducerReads \/ ProducerWrites \/ PipeAccepts \/ ProducerReturns
  \/ ServerPolls

\* What somebody waits for is there.
SomeoneCanGoOn ==
  \/ SocketHasRoom \/ ResponseIsThere
  \/ RequestIsThere \/ (IsMade /\ producer = "queued")
  \/ InputIsThere \/ (HasInput /\ MayWrite) \/ HasRoom \/ (IsThrough /\ MayReturn("ok"))
  \/ (ServerHasRoom /\ (HasBytes \/ HasEnded))

\* Everybody does what they can: the client, the server, the background
\* copy, and a producer that keeps reading, writing and then returns.
ExchangeSpec ==
  /\ ExchangeInit /\ [][ExchangeNext]_vars
  /\ WF_vars(ClientSends) /\ WF_vars(ClientReads)
  /\ WF_vars(BodyArrives) /\ WF_vars(ProducerStarts)
  /\ WF_vars(ProducerReads) /\ WF_vars(ProducerWrites)
  /\ WF_vars(PipeAccepts) /\ WF_vars(ProducerReturns)
  /\ WF_vars(ServerPolls)

-----------------------------------------------------------------------------
Complete == verdict = "end" /\ received = ResponseSize

\* The one combination the documentation warns of.
Exposed == client = "nifi" /\ handler = "direct" /\ bufferSize < ResponseSize

\* Every other exchange completes: a client that reads while it sends, a
\* request drained or spooled first ("Keeping the request moving"), or a
\* buffer_size "past the size of the whole response".
Completes == ~Exposed => <>Complete

\* Everybody waits for something that is not there.
Stalled == ~Complete /\ ~SomeoneCanGoOn

\* An exchange stalls only in the documented way: the producer waits on a
\* full pipe, the client on a full socket with "what is left" of its request
\* not fitting, and it "receives nothing at all".
StallsAsDocumented ==
  Stalled =>
    /\ Exposed /\ received = 0
    /\ producer = "writing" /\ produced - streamed = bufferSize
    /\ sent - arrived = RequestSocket /\ RequestSize - arrived > RequestSocket
=============================================================================
