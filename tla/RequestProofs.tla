--------------------------- MODULE RequestProofs ----------------------------
(***************************************************************************)
(* What holds of a request for every header, size, limit and body: that    *)
(* the body is not polled past its end, that the status says what was      *)
(* wrong, and that a response is whole or fails.                           *)
(*                                                                         *)
(* The invariant counts the body: what has been polled and is not in the   *)
(* chunk is the flow files a batch was given, and what the current one has *)
(* been read of.                                                           *)
(***************************************************************************)
EXTENDS Request, TLAPS

\* FlowFileBody knows that its body is over, which was the client's doing or
\* the limit's.
BodyOK ==
  /\ request \in Requests /\ handler \in {"echo", "reader", "batch"}
  /\ polled \in 0 .. request.sent /\ chunk \in 0 .. polled
  /\ body \in {"open", "ended", "failed", "limited"}
  /\ ended \in BOOLEAN /\ (ended <=> body # "open") /\ ~overpolled
  /\ body \in {"ended", "failed"} => polled = request.sent /\ body = request.last
  /\ body = "limited" => request.sent > Limit

\* Behind the header of the current flow file.
InContent == phase \in {"memory", "handler"} \/ (phase = "answered" /\ handler # "batch")

PositionOK ==
  /\ phase \in {"check", "header", "memory", "handler", "rejected", "answered"}
  /\ whole \in Nat /\ taken \in Nat
  /\ handler # "batch" => whole = 0
  /\ phase = "memory" => handler = "batch"
  /\ phase = "handler" => handler # "batch"
  /\ taken <= IF InContent THEN request.size ELSE Header + request.size
  /\ phase = "header" => taken <= Header
  /\ phase = "check" => polled = 0 /\ taken = 0 /\ whole = 0
  /\ phase = "answered" /\ handler = "batch" =>
       taken = 0 /\ chunk = 0 /\ body = "ended"
  /\ IF phase = "rejected"
     THEN polled >= chunk + Given(whole) + taken
     ELSE polled = chunk + Given(whole) + taken + (IF InContent THEN Header ELSE 0)

\* The response owes what its content has not been read of, and the header
\* until that is out.
EchoOK ==
  /\ outcome \in {"open", "end", "error"}
  /\ remaining \in 0 .. Header + request.size
  /\ phase = "handler" /\ handler = "echo" =>
       \/ remaining = Header + request.size /\ taken = 0
       \/ remaining = request.size - taken

\* Nobody is past a media type or a header that would not do.
ReasonOK ==
  /\ status \in {0, 200, 400, 413, 415}
  /\ phase \in {"check", "header", "memory"} => status = 0
  /\ phase = "handler" => status = 200
  /\ phase = "answered" => status = 200
  /\ request.strict /\ ~request.mediaType => phase \in {"check", "rejected"} /\ polled = 0
  /\ phase = "rejected" => status \in {400, 413, 415}
  /\ phase \in {"handler", "answered"} /\ handler # "batch" => request.header = "good"
  /\ handler = "batch" /\ (whole > 1 \/ (whole = 1 /\ phase = "memory")) => request.header = "good"
  /\ StatusTellsWhy

IInv == BodyOK /\ PositionOK /\ EchoOK /\ ReasonOK /\ WholeOrFailed

-----------------------------------------------------------------------------
\* Flow files of one size, laid end to end.
LEMMA LaidEndToEnd ==
  ASSUME NEW unit \in Nat \ {0}, NEW n \in Nat
  PROVE  /\ n * unit \in Nat /\ n <= n * unit
         /\ (n + 1) * unit = n * unit + unit
OBVIOUS

\* A flow file that has begun and not ended is no whole number of them.
LEMMA BegunIsNotWhole ==
  ASSUME NEW unit \in Nat \ {0}, NEW m \in Nat, NEW n \in Nat, NEW more \in 1 .. unit - 1
  PROVE  n * unit # m * unit + more
<1>1. CASE n <= m
  <2>1. PICK d \in Nat : m = n + d
    BY <1>1
  <2>2. m * unit = n * unit + d * unit /\ d * unit \in Nat
    BY <2>1
  <2> QED
    BY <2>2
<1>2. CASE n > m
  <2>1. PICK d \in Nat : n = (m + 1) + d
    BY <1>2
  <2>2. n * unit = (m * unit + unit) + d * unit /\ d * unit \in Nat
    BY <2>1
  <2> QED
    BY <2>2
<1> QED
  BY <1>1, <1>2

\* What the constants and the request are.
LEMMA RequestFacts ==
  ASSUME BodyOK
  PROVE  /\ Header \in Nat \ {0} /\ Limit \in Nat
         /\ request.size \in Nat /\ request.sent \in Nat
         /\ request.header \in {"good", "bad", "large"}
         /\ request.last \in {"ended", "failed"}
         /\ polled \in Nat /\ chunk \in Nat
         /\ \A n \in Nat : Given(n) \in Nat /\ n <= Given(n)
                            /\ Given(n + 1) = Given(n) + Header + request.size
<1>1. /\ Header \in Nat \ {0} /\ Limit \in Nat
      /\ request.size \in Nat /\ request.sent \in Nat
      /\ request.header \in {"good", "bad", "large"}
      /\ request.last \in {"ended", "failed"}
  <2>1. request.header \in {"good", "bad", "large"} /\ request.last \in {"ended", "failed"}
    BY Zenon DEF BodyOK, Requests
  <2>2. request.size \in Sizes /\ request.sent \in 0 .. MaxBody
    BY Zenon DEF BodyOK, Requests
  <2>3. Header \in Nat \ {0} /\ Limit \in Nat
    BY RequestAssumption
  <2>4. request.size \in Nat
    BY <2>2, RequestAssumption
  <2>5. request.sent \in Nat
    BY <2>2, RequestAssumption
  <2> QED
    BY <2>1, <2>3, <2>4, <2>5
<1>2. Header + request.size \in Nat \ {0}
  BY <1>1
<1>3. \A n \in Nat : Given(n) \in Nat /\ n <= Given(n)
                     /\ Given(n + 1) = Given(n) + (Header + request.size)
  BY <1>2, LaidEndToEnd DEF Given
<1>4. \A n \in Nat : Given(n + 1) = Given(n) + Header + request.size
  BY <1>1, <1>3
<1>5. polled \in Nat /\ chunk \in Nat
  BY <1>1 DEF BodyOK
<1> QED
  BY <1>1, <1>3, <1>4, <1>5

\* Nothing has been polled of a request that is to be checked.
LEMMA InitEstablishes == Init => IInv
<1> SUFFICES ASSUME Init PROVE IInv
  OBVIOUS
<1>1. BodyOK
  <2>1. request.sent \in 0 .. MaxBody
    BY Zenon DEF Init, Requests
  <2>2. 0 \in 0 .. request.sent
    BY <2>1, RequestAssumption
  <2>3. ended \in BOOLEAN /\ (ended <=> body # "open") /\ ~overpolled
    BY DEF Init
  <2>4. polled \in 0 .. request.sent /\ chunk \in 0 .. polled
    BY <2>2 DEF Init
  <2>5. /\ request \in Requests /\ handler \in {"echo", "reader", "batch"}
        /\ body = "open"
    BY Zenon DEF Init
  <2> QED
    BY <2>3, <2>4, <2>5 DEF BodyOK
<1>2. Given(0) = 0
  BY <1>1, RequestFacts DEF Given
<1>3. PositionOK
  BY <1>1, <1>2, RequestFacts DEF Init, PositionOK, InContent
<1>4. EchoOK
  BY <1>1, RequestFacts DEF Init, EchoOK
<1>5. ReasonOK
  BY <1>1 DEF Init, ReasonOK, StatusTellsWhy
<1>6. WholeOrFailed
  BY DEF Init, WholeOrFailed
<1> QED
  BY <1>1, <1>3, <1>4, <1>5, <1>6 DEF IInv

\* Who leaves the body alone leaves it as it was.
LEMMA BodyIsKept ==
  ASSUME BodyOK, UNCHANGED <<request, handler, bodyVars>>
  PROVE  BodyOK'
BY Zenon DEF BodyOK, bodyVars

\* What is wanted is what the header, or the content, has not been read of.
LEMMA WantedIsTheRest ==
  ASSUME BodyOK, PositionOK, phase \in {"header", "memory", "handler"}
  PROVE  /\ taken \in Nat /\ Wanted \in Nat
         /\ IF phase = "header" THEN taken + Wanted = Header ELSE taken + Wanted = request.size
<1>1. taken \in Nat /\ Header \in Nat /\ request.size \in Nat
  BY RequestFacts DEF PositionOK
<1>2. CASE phase = "header"
  <2>1. taken <= Header /\ Wanted = Header - taken
    BY <1>2 DEF PositionOK, Wanted
  <2> QED
    BY <1>1, <1>2, <2>1
<1>3. CASE phase # "header"
  <2>1. taken <= request.size /\ Wanted = request.size - taken
    BY <1>3 DEF PositionOK, Wanted, InContent
  <2> QED
    BY <1>1, <1>3, <2>1
<1> QED
  BY <1>2, <1>3

\* A read takes from the chunk, and counts what it has taken.
LEMMA ReadsCount ==
  ASSUME BodyOK, PositionOK, TakeChunk, phase \in {"header", "memory", "handler"},
         UNCHANGED <<request, handler, polled, body, ended, overpolled, phase, whole>>
  PROVE  BodyOK' /\ PositionOK'
<1>0. Given(whole) \in Nat /\ Given(whole)' = Given(whole)
  BY RequestFacts DEF PositionOK, Given
<1>1. PICK n \in 1 .. Least(chunk, Wanted) : chunk' = chunk - n /\ taken' = taken + n
  BY DEF TakeChunk
<1>w. Wanted \in Nat
  BY RequestFacts DEF PositionOK, Wanted, InContent
<1>2. n \in Nat \ {0} /\ n <= chunk /\ n <= Wanted
  BY <1>1, <1>w, RequestFacts DEF Least
<1>3. chunk' \in 0 .. polled
  BY <1>1, <1>2, RequestFacts DEF BodyOK
<1>4. BodyOK'
  <2>1. chunk' \in 0 .. polled'
    BY <1>3
  <2> QED
    BY <2>1, Zenon DEF BodyOK
<1>5. InContent' = InContent
  BY DEF InContent
<1>6. taken' \in Nat /\ taken' <= IF InContent THEN request.size ELSE Header + request.size
  BY <1>1, <1>2, RequestFacts DEF Wanted, PositionOK, InContent
<1>7. phase = "header" => taken' <= Header
  BY <1>1, <1>2, RequestFacts DEF Wanted, PositionOK
<1>8. polled = chunk' + Given(whole) + taken' + (IF InContent THEN Header ELSE 0)
  BY <1>0, <1>1, <1>2, RequestFacts DEF PositionOK
<1>9. PositionOK'
  BY <1>0, <1>5, <1>6, <1>7, <1>8 DEF PositionOK
<1> QED
  BY <1>4, <1>9

\* While the status is open, or 200 to one handler, there is little to tell.
LEMMA StillOpen ==
  ASSUME BodyOK', PositionOK', request' = request, handler' = handler,
         phase' \in {"header", "memory"}, status' = 0,
         ~(request.strict /\ ~request.mediaType),
         handler = "batch" /\ (whole' > 1 \/ (whole' = 1 /\ phase' = "memory")) => request.header = "good"
  PROVE  ReasonOK' /\ WholeOrFailed'
<1>1. StatusTellsWhy'
  BY DEF StatusTellsWhy
<1>2. WholeOrFailed'
  BY DEF WholeOrFailed
<1>3. ReasonOK'
  BY <1>1 DEF ReasonOK
<1> QED
  BY <1>2, <1>3

\* Once it is 200 to the handler of one flow file, it stays.
LEMMA StillOne ==
  ASSUME BodyOK, BodyOK', PositionOK',
         request' = request, handler' = handler, handler # "batch",
         phase' \in {"handler", "answered"}, status' = 200,
         ~(request.strict /\ ~request.mediaType), request.header = "good"
  PROVE  ReasonOK'
<1>1. polled' >= Header
  <2>1. polled' \in Nat /\ chunk' \in Nat /\ taken' \in Nat /\ whole' \in Nat
    BY RequestFacts DEF BodyOK, PositionOK
  <2>2. Given(whole)' \in Nat
    BY <2>1, RequestFacts DEF Given
  <2> QED
    BY <2>1, <2>2, RequestFacts DEF PositionOK, InContent
<1>2. StatusTellsWhy'
  BY <1>1 DEF StatusTellsWhy
<1> QED
  BY <1>2 DEF ReasonOK

\* A request that is turned away stays as it is, with the reason told.
LEMMA Rejection ==
  ASSUME IInv, NEW code \in {400, 413, 415}, Reject(code),
         phase \in {"check", "header", "memory"},
         request.strict /\ ~request.mediaType => polled = 0,
         StatusTellsWhy'
  PROVE  IInv'
<1>1. /\ UNCHANGED <<request, handler, bodyVars, taken, whole, remaining, outcome>>
      /\ phase' = "rejected" /\ status' = code
  BY DEF Reject
<1>2. BodyOK'
  BY <1>1, BodyIsKept DEF IInv
<1>3. PositionOK'
  <2>1. Given(whole) \in Nat /\ Given(whole)' = Given(whole)
    BY <1>1, RequestFacts DEF IInv, PositionOK, Given
  <2>2. /\ taken <= Header + request.size
        /\ polled >= chunk + Given(whole) + taken
    BY <2>1, RequestFacts DEF IInv, PositionOK, InContent
  <2> QED
    BY <1>1, <2>1, <2>2 DEF IInv, PositionOK, InContent, bodyVars
<1>4. EchoOK'
  BY <1>1 DEF IInv, EchoOK
<1>5. WholeOrFailed'
  BY <1>1 DEF WholeOrFailed
<1>6. ReasonOK'
  BY <1>1 DEF IInv, ReasonOK, bodyVars
<1> QED
  BY <1>2, <1>3, <1>4, <1>5, <1>6 DEF IInv

\* A response whose header is out owes the rest of the content.
LEMMA EchoOwes ==
  ASSUME BodyOK, PositionOK, EchoOK, Echoing
  PROVE  remaining = request.size - taken
<1>1. phase = "handler" /\ handler = "echo" /\ remaining <= request.size
  BY DEF Echoing
<1>2. remaining # Header + request.size
  BY <1>1, RequestFacts DEF EchoOK
<1> QED
  BY <1>1, <1>2 DEF EchoOK

\* One case for each step of the body, the extractors and the handlers.
LEMMA StepPreserves == IInv /\ [Next]_vars => IInv'
<1> SUFFICES ASSUME IInv, [Next]_vars PROVE IInv'
  OBVIOUS
<1>0. BodyOK /\ PositionOK /\ EchoOK /\ ReasonOK /\ WholeOrFailed
  BY DEF IInv
<1> USE DEF vars
<1>1. CASE PollBody
  <2>1. /\ UNCHANGED <<request, handler, responseVars>> /\ Reading /\ chunk = 0
        /\ body = "open" /\ BodyYields /\ overpolled' = overpolled
    BY <1>0, <1>1 DEF PollBody, Reading, BodyOK
  <2>2. /\ phase \in {"header", "memory", "handler"} /\ phase' = phase /\ status' = status
        /\ whole' = whole /\ taken' = taken /\ remaining' = remaining /\ outcome' = outcome
        /\ request' = request /\ handler' = handler
    BY <2>1 DEF Reading, Echoing, responseVars
  <2>3. Given(whole) \in Nat /\ Given(whole)' = Given(whole)
    BY <1>0, <2>2, RequestFacts DEF PositionOK, Given
  <2>4. BodyOK' /\ polled' = polled + chunk' - chunk /\ chunk' \in Nat /\ polled' \in Nat
    <3>1. CASE \E n \in 1 .. request.sent - polled :
                 /\ polled + n <= Limit
                 /\ polled' = polled + n /\ chunk' = n
                 /\ UNCHANGED <<body, ended>>
      <4>1. PICK n \in 1 .. request.sent - polled :
              polled' = polled + n /\ chunk' = n /\ UNCHANGED <<body, ended>>
        BY <3>1
      <4>2. n \in Nat /\ polled + n <= request.sent
        BY <1>0, RequestFacts
      <4>3. /\ polled' \in 0 .. request.sent /\ chunk' \in 0 .. polled'
            /\ polled' = polled + chunk' - chunk
        BY <1>0, <2>1, <4>1, <4>2, RequestFacts
      <4>4. BodyOK'
        BY <1>0, <2>1, <2>2, <4>1, <4>3 DEF BodyOK
      <4> QED
        BY <4>1, <4>2, <4>3, <4>4, <1>0, RequestFacts
    <3>2. CASE /\ polled < request.sent /\ request.sent > Limit
               /\ body' = "limited" /\ ended' = TRUE
               /\ UNCHANGED <<polled, chunk>>
      <4>1. BodyOK'
        BY <1>0, <2>1, <2>2, <3>2 DEF BodyOK
      <4> QED
        BY <1>0, <3>2, <4>1, RequestFacts
    <3>3. CASE /\ polled = request.sent
               /\ body' = request.last /\ ended' = TRUE
               /\ UNCHANGED <<polled, chunk>>
      <4>1. body' \in {"ended", "failed"}
        BY <1>0, <3>3, RequestFacts
      <4>2. BodyOK'
        BY <1>0, <2>1, <2>2, <3>3, <4>1 DEF BodyOK
      <4> QED
        BY <1>0, <3>3, <4>2, RequestFacts
    <3> QED
      BY <2>1, <3>1, <3>2, <3>3 DEF BodyYields
  <2>5. PositionOK'
    <3>1. InContent' = InContent
      BY <2>2 DEF InContent
    <3>2. polled' = chunk' + Given(whole) + taken + (IF InContent THEN Header ELSE 0)
      BY <1>0, <2>2, <2>3, <2>4, RequestFacts DEF PositionOK
    <3> QED
      BY <1>0, <2>2, <2>3, <3>1, <3>2 DEF PositionOK
  <2>6. EchoOK'
    BY <1>0, <2>2 DEF EchoOK
  <2>7. ~(request.strict /\ ~request.mediaType)
    BY <1>0, <2>2 DEF ReasonOK
  <2>8. ReasonOK' /\ WholeOrFailed'
    <3>1. CASE phase \in {"header", "memory"}
      BY <1>0, <2>2, <2>4, <2>5, <2>7, <3>1, StillOpen DEF ReasonOK
    <3>2. CASE phase = "handler"
      <4>1. ReasonOK'
        BY <1>0, <2>2, <2>4, <2>5, <2>7, <3>2, StillOne DEF ReasonOK, PositionOK
      <4>2. WholeOrFailed'
        BY <2>2, <3>2 DEF WholeOrFailed
      <4> QED
        BY <4>1, <4>2
    <3> QED
      BY <2>2, <3>1, <3>2
  <2> QED
    BY <2>4, <2>5, <2>6, <2>8 DEF IInv
<1>2. CASE CheckMediaType
  <2>1. CASE request.strict /\ ~request.mediaType
    <3>1. phase = "check" /\ Reject(415) /\ polled = 0
      BY <1>0, <1>2, <2>1 DEF CheckMediaType, PositionOK
    <3>2. StatusTellsWhy'
      BY <2>1, <3>1 DEF StatusTellsWhy, Reject, bodyVars
    <3> QED
      BY <3>1, <3>2, Rejection
  <2>2. CASE ~(request.strict /\ ~request.mediaType)
    <3>1. /\ phase = "check" /\ phase' = "header"
          /\ UNCHANGED <<request, handler, bodyVars, status, taken, whole, remaining, outcome>>
      BY <1>2, <2>2 DEF CheckMediaType
    <3>2. BodyOK'
      BY <1>0, <3>1, BodyIsKept
    <3>3. Given(whole)' = Given(whole)
      BY <3>1 DEF Given
    <3>4. PositionOK'
      BY <1>0, <3>1, <3>3, RequestFacts DEF PositionOK, InContent, bodyVars
    <3>5. EchoOK'
      BY <1>0, <3>1 DEF EchoOK
    <3>6. ReasonOK' /\ WholeOrFailed'
      BY <1>0, <2>2, <3>1, <3>2, <3>4, StillOpen DEF ReasonOK, PositionOK
    <3> QED
      BY <3>2, <3>4, <3>5, <3>6 DEF IInv
  <2> QED
    BY <2>1, <2>2
<1>3. CASE ReadHeader
  <2>1. /\ phase = "header" /\ TakeChunk
        /\ UNCHANGED <<request, handler, polled, body, ended, overpolled, phase, status,
                       whole, remaining, outcome>>
    BY <1>3 DEF ReadHeader
  <2>2. BodyOK' /\ PositionOK'
    BY <1>0, <2>1, ReadsCount
  <2>3. EchoOK'
    BY <1>0, <2>1 DEF EchoOK
  <2>4. ReasonOK' /\ WholeOrFailed'
    BY <1>0, <2>1, <2>2, StillOpen DEF ReasonOK
  <2> QED
    BY <2>2, <2>3, <2>4 DEF IInv
<1>4. CASE RejectHeader
  <2>1. phase = "header" /\ HeaderNow # "good" /\ Reject(StatusOf(request.header))
    BY <1>4 DEF RejectHeader
  <2>2. HeaderNow = request.header /\ request.header \in {"bad", "large"}
    BY <1>0, <2>1, RequestFacts DEF HeaderNow
  <2>3. ~(request.strict /\ ~request.mediaType)
    BY <1>0, <2>1 DEF ReasonOK
  <2>4. HeaderNow' = HeaderNow
    BY <2>1 DEF HeaderNow, Reject
  <2>5. /\ StatusOf(request.header) = IF request.header = "large" THEN 413 ELSE 400
        /\ status' = StatusOf(request.header) /\ request' = request
    BY <2>1, <2>2 DEF StatusOf, Reject
  <2>6. StatusTellsWhy'
    BY <2>2, <2>3, <2>4, <2>5 DEF StatusTellsWhy
  <2> QED
    BY <2>1, <2>3, <2>5, <2>6, Rejection
<1>5. CASE RejectBody
  <2>1. /\ phase \in {"header", "memory"} /\ Wanted > 0 /\ chunk = 0 /\ body # "open"
        /\ ~BatchIsOver /\ Reject(StatusOf(body))
    BY <1>0, <1>5 DEF RejectBody, BodyOK
  <2>2. /\ status' = IF body = "limited" THEN 413 ELSE 400
        /\ StatusOf(body) = IF body = "limited" THEN 413 ELSE 400
        /\ request' = request /\ handler' = handler /\ body' = body
    BY <1>0, <2>1 DEF StatusOf, Reject, bodyVars, BodyOK
  <2>3. ~(request.strict /\ ~request.mediaType)
    BY <1>0, <2>1 DEF ReasonOK
  <2>4. Given(whole) \in Nat
    BY <1>0, RequestFacts DEF PositionOK
  <2>5. body # "limited" =>
          polled = request.sent /\ body \in {"ended", "failed"}
    BY <1>0, <2>1 DEF BodyOK
  <2>6. body # "limited" /\ handler # "batch" => request.sent < Header
    <3> SUFFICES ASSUME body # "limited", handler # "batch" PROVE request.sent < Header
      OBVIOUS
    <3>1. phase = "header" /\ whole = 0
      BY <1>0, <2>1 DEF PositionOK
    <3>2. Given(whole) = 0
      BY <1>0, <3>1, RequestFacts DEF Given
    <3>3. taken < Header
      BY <1>0, <2>1, <3>1, RequestFacts DEF PositionOK, Wanted
    <3>4. polled = 0 + 0 + taken + 0
      BY <1>0, <2>1, <3>1, <3>2 DEF PositionOK, InContent
    <3> QED
      BY <1>0, <2>5, <3>3, <3>4, RequestFacts DEF PositionOK
  <2>7. body = "ended" /\ handler = "batch" => ~Divides
    <3> SUFFICES ASSUME body = "ended", handler = "batch", NEW n \in 0 .. request.sent
                 PROVE  Given(n) # request.sent
      BY DEF Divides
    <3> DEFINE more == taken + (IF phase = "memory" THEN Header ELSE 0)
    <3>1. request.sent = Given(whole) + more
      BY <1>0, <2>1, <2>4, <2>5, RequestFacts DEF PositionOK, InContent
    <3>2. more \in 1 .. Header + request.size - 1
      <4>1. CASE phase = "memory"
        <5>1. more = taken + Header
          BY <4>1
        <5>2. taken \in Nat /\ Wanted \in Nat /\ taken + Wanted = request.size
          BY <1>0, <4>1, WantedIsTheRest
        <5>3. Header \in Nat \ {0} /\ request.size \in Nat
          BY <1>0, RequestFacts
        <5> HIDE DEF more
        <5> QED
          BY <2>1, <5>1, <5>2, <5>3
      <4>2. CASE phase = "header"
        <5>1. taken # 0
          BY <2>1, <4>2 DEF BatchIsOver
        <5> QED
          BY <1>0, <2>1, <4>2, <5>1, RequestFacts DEF PositionOK, Wanted
      <4> QED
        BY <2>1, <4>1, <4>2
    <3>3. n \in Nat /\ whole \in Nat /\ Header + request.size \in Nat \ {0}
      BY <1>0, RequestFacts DEF PositionOK
    <3> HIDE DEF more
    <3> DEFINE unit == Header + request.size
    <3>4. Given(n) = n * unit /\ Given(whole) = whole * unit
      BY DEF Given
    <3>5. unit \in Nat \ {0} /\ more \in 1 .. unit - 1
      <4>1. Header \in Nat \ {0} /\ request.size \in Nat
        BY <1>0, RequestFacts
      <4> QED
        BY <3>2, <4>1
    <3> HIDE DEF unit
    <3>6. n * unit # whole * unit + more
      BY <3>3, <3>5, BegunIsNotWhole
    <3> QED
      BY <3>1, <3>4, <3>6
  <2>8. Divides' = Divides
    BY <2>2 DEF Divides, Given
  <2>9. StatusTellsWhy'
    BY <1>0, <2>2, <2>3, <2>5, <2>6, <2>7, <2>8 DEF StatusTellsWhy, BodyOK
  <2> QED
    BY <2>1, <2>2, <2>3, <2>9, Rejection
<1>6. CASE Extract
  <2>1. /\ phase = "header" /\ Wanted = 0 /\ handler # "batch" /\ request.header = "good"
        /\ phase' = "handler" /\ status' = 200 /\ taken' = 0
        /\ remaining' = Header + request.size
        /\ UNCHANGED <<request, handler, bodyVars, whole, outcome>>
    BY <1>6 DEF Extract
  <2>2. BodyOK'
    BY <1>0, <2>1, BodyIsKept
  <2>3. Given(whole) \in Nat /\ Given(whole)' = Given(whole)
    BY <1>0, <2>1, RequestFacts DEF PositionOK, Given
  <2>4. taken = Header
    <3>1. taken + Wanted = Header /\ taken \in Nat
      BY <1>0, <2>1, WantedIsTheRest
    <3> QED
      BY <2>1, <3>1
  <2>5. PositionOK'
    <3>1. polled = chunk + Given(whole) + 0 + Header
      BY <1>0, <2>1, <2>3, <2>4, RequestFacts DEF PositionOK, InContent
    <3> QED
      BY <1>0, <2>1, <2>3, <3>1, RequestFacts DEF PositionOK, InContent, bodyVars
  <2>6. EchoOK'
    BY <1>0, <2>1, RequestFacts DEF EchoOK
  <2>7. ~(request.strict /\ ~request.mediaType)
    BY <1>0, <2>1 DEF ReasonOK
  <2>8. ReasonOK'
    BY <1>0, <2>1, <2>2, <2>5, <2>7, StillOne
  <2>9. WholeOrFailed'
    BY <2>1 DEF WholeOrFailed
  <2> QED
    BY <2>2, <2>5, <2>6, <2>8, <2>9 DEF IInv
<1>7. CASE ReaderReads
  <2>1. /\ phase = "handler" /\ handler = "reader" /\ TakeChunk
        /\ UNCHANGED <<request, handler, polled, body, ended, overpolled, phase, status,
                       whole, remaining, outcome>>
    BY <1>7 DEF ReaderReads
  <2>2. BodyOK' /\ PositionOK'
    BY <1>0, <2>1, ReadsCount
  <2>3. EchoOK'
    BY <1>0, <2>1 DEF EchoOK
  <2>4. ReasonOK'
    BY <1>0, <2>1, <2>2, StillOne DEF ReasonOK
  <2>5. WholeOrFailed'
    BY <2>1 DEF WholeOrFailed
  <2> QED
    BY <2>2, <2>3, <2>4, <2>5 DEF IInv
<1>8. CASE ReaderAnswers
  <2>1. /\ phase = "handler" /\ handler = "reader" /\ phase' = "answered" /\ outcome' = "end"
        /\ UNCHANGED <<request, handler, bodyVars, status, taken, whole, remaining>>
    BY <1>8 DEF ReaderAnswers
  <2>2. BodyOK'
    BY <1>0, <2>1, BodyIsKept
  <2>3. PositionOK'
    <3>1. InContent /\ InContent' /\ Given(whole)' = Given(whole)
      BY <2>1 DEF InContent, Given
    <3> QED
      BY <1>0, <2>1, <3>1 DEF PositionOK, bodyVars
  <2>4. EchoOK'
    BY <1>0, <2>1 DEF EchoOK
  <2>5. ReasonOK'
    BY <1>0, <2>1, <2>2, <2>3, StillOne DEF ReasonOK
  <2>6. WholeOrFailed'
    BY <2>1 DEF WholeOrFailed
  <2> QED
    BY <2>2, <2>3, <2>4, <2>5, <2>6 DEF IInv
<1>9. CASE EchoHeader
  <2>1. /\ phase = "handler" /\ handler = "echo" /\ remaining = Header + request.size
        /\ remaining' = request.size
        /\ UNCHANGED <<request, handler, bodyVars, phase, status, taken, whole, outcome>>
    BY <1>9 DEF EchoHeader
  <2>2. BodyOK'
    BY <1>0, <2>1, BodyIsKept
  <2>3. PositionOK'
    <3>1. InContent' = InContent /\ Given(whole)' = Given(whole)
      BY <2>1 DEF InContent, Given
    <3> QED
      BY <1>0, <2>1, <3>1 DEF PositionOK, bodyVars
  <2>4. EchoOK'
    <3>1. taken = 0
      <4>1. taken \in Nat
        BY <1>0 DEF PositionOK
      <4>2. remaining = request.size - taken \/ taken = 0
        BY <1>0, <2>1 DEF EchoOK
      <4> QED
        BY <1>0, <2>1, <4>1, <4>2, RequestFacts
    <3>2. remaining' = request.size - taken'
      BY <1>0, <2>1, <3>1, RequestFacts
    <3>3. remaining' \in 0 .. Header + request.size
      BY <1>0, <2>1, RequestFacts
    <3> QED
      BY <1>0, <2>1, <3>2, <3>3 DEF EchoOK
  <2>5. ReasonOK'
    BY <1>0, <2>1, <2>2, <2>3, StillOne DEF ReasonOK
  <2>6. WholeOrFailed'
    BY <2>1 DEF WholeOrFailed
  <2> QED
    BY <2>2, <2>3, <2>4, <2>5, <2>6 DEF IInv
<1>10. CASE EchoContent
  <2>1. /\ Echoing /\ phase = "handler" /\ handler = "echo" /\ TakeChunk
        /\ remaining' = remaining - (taken' - taken)
        /\ UNCHANGED <<request, handler, polled, body, ended, overpolled, phase, status,
                       whole, outcome>>
    BY <1>10 DEF EchoContent, Echoing
  <2>2. BodyOK' /\ PositionOK'
    BY <1>0, <2>1, ReadsCount
  <2>3. EchoOK'
    <3>1. taken \in Nat /\ taken' \in Nat /\ taken' <= request.size
      <4>1. InContent'
        BY <2>1 DEF InContent
      <4> QED
        BY <1>0, <2>1, <2>2, <4>1 DEF PositionOK
    <3>2. remaining = request.size - taken
      BY <1>0, <2>1, EchoOwes
    <3>3. remaining' = request.size - taken'
      BY <1>0, <2>1, <3>1, <3>2, RequestFacts
    <3>4. remaining' \in 0 .. Header + request.size
      BY <1>0, <3>1, <3>3, RequestFacts
    <3> QED
      BY <1>0, <2>1, <3>3, <3>4 DEF EchoOK
  <2>4. ReasonOK'
    BY <1>0, <2>1, <2>2, StillOne DEF ReasonOK
  <2>5. WholeOrFailed'
    BY <2>1 DEF WholeOrFailed
  <2> QED
    BY <2>2, <2>3, <2>4, <2>5 DEF IInv
<1>11. CASE EchoEnds
  <2>1. /\ Echoing /\ phase = "handler" /\ handler = "echo" /\ ContentEnds
        /\ phase' = "answered"
        /\ outcome' = IF (Wanted > 0 /\ body # "ended") \/ remaining > 0 THEN "error" ELSE "end"
        /\ UNCHANGED <<request, handler, bodyVars, status, taken, whole, remaining>>
    BY <1>11 DEF EchoEnds, Echoing
  <2>2. BodyOK'
    BY <1>0, <2>1, BodyIsKept
  <2>3. PositionOK'
    <3>1. InContent /\ InContent' /\ Given(whole)' = Given(whole)
      BY <2>1 DEF InContent, Given
    <3> QED
      BY <1>0, <2>1, <3>1 DEF PositionOK, bodyVars
  <2>4. EchoOK'
    BY <1>0, <2>1 DEF EchoOK
  <2>5. ReasonOK'
    BY <1>0, <2>1, <2>2, <2>3, StillOne DEF ReasonOK
  <2>6. taken \in Nat /\ taken <= request.size
    BY <1>0, <2>1 DEF PositionOK, InContent
  <2>7. Wanted = request.size - taken /\ remaining = request.size - taken
    BY <1>0, <2>1, EchoOwes DEF Wanted
  <2>8. CASE taken = request.size
    <3>1. remaining = 0 /\ ~(Wanted > 0)
      BY <1>0, <2>7, <2>8, RequestFacts
    <3>2. outcome' = "end"
      BY <2>1, <3>1
    <3> QED
      BY <2>1, <2>2, <2>3, <2>4, <2>5, <2>8, <3>1, <3>2 DEF IInv, WholeOrFailed
  <2>9. CASE taken # request.size
    <3>0. request.size \in Nat
      BY <1>0, RequestFacts
    <3>1. remaining > 0 /\ Wanted # 0 /\ taken < request.size
      BY <2>6, <2>7, <2>9, <3>0
    <3>2. chunk = 0 /\ body # "open"
      BY <1>0, <2>1, <3>1 DEF ContentEnds, BodyOK
    <3>3. body # "limited" => request.sent < Header + request.size
      <4> SUFFICES ASSUME body # "limited" PROVE request.sent < Header + request.size
        OBVIOUS
      <4>1. polled = request.sent
        BY <1>0, <3>2 DEF BodyOK
      <4>2. whole = 0 /\ Given(whole) = 0
        BY <1>0, <2>1, RequestFacts DEF PositionOK, Given
      <4>3. polled = chunk + Given(whole) + taken + Header
        BY <1>0, <2>1 DEF PositionOK, InContent
      <4> QED
        BY <1>0, <2>6, <3>1, <3>2, <4>1, <4>2, <4>3, RequestFacts
    <3>4. outcome' = "error"
      BY <2>1, <3>1
    <3>5. WholeOrFailed'
      BY <2>1, <3>1, <3>3, <3>4 DEF WholeOrFailed, bodyVars
    <3> QED
      BY <2>2, <2>3, <2>4, <2>5, <3>5 DEF IInv
  <2> QED
    BY <2>8, <2>9
<1>12. CASE BatchHeader
  <2>1. /\ phase = "header" /\ Wanted = 0 /\ handler = "batch" /\ HeaderNow = "good"
        /\ phase' = "memory" /\ taken' = 0
        /\ UNCHANGED <<request, handler, bodyVars, status, whole, remaining, outcome>>
    BY <1>12 DEF BatchHeader
  <2>2. BodyOK'
    BY <1>0, <2>1, BodyIsKept
  <2>3. Given(whole) \in Nat /\ Given(whole)' = Given(whole)
    BY <1>0, <2>1, RequestFacts DEF PositionOK, Given
  <2>4. taken = Header
    <3>1. taken + Wanted = Header /\ taken \in Nat
      BY <1>0, <2>1, WantedIsTheRest
    <3> QED
      BY <2>1, <3>1
  <2>5. PositionOK'
    <3>1. polled = chunk + Given(whole) + 0 + Header
      BY <1>0, <2>1, <2>3, <2>4, RequestFacts DEF PositionOK, InContent
    <3> QED
      BY <1>0, <2>1, <2>3, <3>1, RequestFacts DEF PositionOK, InContent, bodyVars
  <2>6. EchoOK'
    BY <1>0, <2>1 DEF EchoOK
  <2>7. whole = 1 => request.header = "good"
    BY <2>1 DEF HeaderNow
  <2>8. ReasonOK' /\ WholeOrFailed'
    BY <1>0, <2>1, <2>2, <2>5, <2>7, StillOpen DEF ReasonOK
  <2> QED
    BY <2>2, <2>5, <2>6, <2>8 DEF IInv
<1>13. CASE BatchReads
  <2>1. /\ phase = "memory" /\ TakeChunk
        /\ UNCHANGED <<request, handler, polled, body, ended, overpolled, phase, status,
                       whole, remaining, outcome>>
    BY <1>13 DEF BatchReads
  <2>2. BodyOK' /\ PositionOK'
    BY <1>0, <2>1, ReadsCount
  <2>3. EchoOK'
    BY <1>0, <2>1 DEF EchoOK
  <2>4. ReasonOK' /\ WholeOrFailed'
    BY <1>0, <2>1, <2>2, StillOpen DEF ReasonOK
  <2> QED
    BY <2>2, <2>3, <2>4 DEF IInv
<1>14. CASE BatchTakes
  <2>1. /\ phase = "memory" /\ Wanted = 0 /\ phase' = "header" /\ taken' = 0
        /\ whole' = whole + 1
        /\ UNCHANGED <<request, handler, bodyVars, status, remaining, outcome>>
    BY <1>14 DEF BatchTakes
  <2>2. BodyOK' /\ handler = "batch"
    BY <1>0, <2>1, BodyIsKept DEF PositionOK
  <2>3. /\ Given(whole) \in Nat /\ whole \in Nat
        /\ Given(whole)' = Given(whole) + Header + request.size
    <3>1. whole \in Nat
      BY <1>0 DEF PositionOK
    <3>2. Given(whole)' = Given(whole + 1)
      BY <2>1 DEF Given
    <3> QED
      BY <1>0, <3>1, <3>2, RequestFacts
  <2>4. taken = request.size
    <3>1. taken + Wanted = request.size /\ taken \in Nat
      BY <1>0, <2>1, WantedIsTheRest
    <3> QED
      BY <2>1, <3>1
  <2>5. PositionOK'
    <3>1. polled = chunk + Given(whole)' + 0 + 0
      BY <1>0, <2>1, <2>3, <2>4, RequestFacts DEF PositionOK, InContent
    <3>2. whole' \in Nat
      BY <2>1, <2>3
    <3> QED
      BY <1>0, <2>1, <2>2, <2>3, <3>1, <3>2, RequestFacts DEF PositionOK, InContent, bodyVars
  <2>6. EchoOK'
    BY <1>0, <2>1 DEF EchoOK
  <2>7. whole' > 1 => request.header = "good"
    <3>1. whole' > 1 => whole > 1 \/ whole = 1
      BY <2>1, <2>3
    <3> QED
      BY <1>0, <2>1, <2>2, <3>1 DEF ReasonOK
  <2>8. ReasonOK' /\ WholeOrFailed'
    BY <1>0, <2>1, <2>2, <2>5, <2>7, StillOpen DEF ReasonOK
  <2> QED
    BY <2>2, <2>5, <2>6, <2>8 DEF IInv
<1>15. CASE BatchEnds
  <2>1. /\ handler = "batch" /\ phase = "header" /\ taken = 0 /\ chunk = 0 /\ body = "ended"
        /\ phase' = "answered" /\ status' = 200 /\ outcome' = "end"
        /\ UNCHANGED <<request, handler, bodyVars, taken, whole, remaining>>
    BY <1>15 DEF BatchEnds, BatchIsOver
  <2>2. BodyOK'
    BY <1>0, <2>1, BodyIsKept
  <2>3. Given(whole) \in Nat /\ Given(whole)' = Given(whole)
    BY <1>0, <2>1, RequestFacts DEF PositionOK, Given
  <2>4. PositionOK'
    BY <1>0, <2>1, <2>3, RequestFacts DEF PositionOK, InContent, bodyVars
  <2>5. EchoOK'
    BY <1>0, <2>1 DEF EchoOK
  <2>6. ~(request.strict /\ ~request.mediaType)
    BY <1>0, <2>1 DEF ReasonOK
  <2>7. whole > 1 => request.header = "good"
    BY <1>0, <2>1 DEF ReasonOK
  <2>8. StatusTellsWhy'
    BY <2>1, <2>6, <2>7 DEF StatusTellsWhy
  <2>9. ReasonOK'
    BY <1>0, <2>1, <2>6, <2>7, <2>8 DEF ReasonOK
  <2>10. Given(whole) = request.sent /\ request.last = "ended"
    <3>1. polled = request.sent /\ request.last = "ended"
      BY <1>0, <2>1 DEF BodyOK
    <3>2. polled = chunk + Given(whole) + taken + 0
      BY <1>0, <2>1 DEF PositionOK, InContent
    <3> QED
      BY <2>1, <2>3, <3>1, <3>2
  <2>11. WholeOrFailed'
    BY <2>1, <2>3, <2>10 DEF WholeOrFailed, bodyVars
  <2> QED
    BY <2>2, <2>4, <2>5, <2>9, <2>11 DEF IInv
<1>16. CASE UNCHANGED vars
  <2>1. UNCHANGED <<request, handler, bodyVars, responseVars>>
    BY <1>16
  <2>2. BodyOK'
    BY <1>0, <2>1, BodyIsKept
  <2>3. PositionOK'
    BY <1>0, <2>1 DEF PositionOK, InContent, Given, bodyVars, responseVars
  <2>4. EchoOK'
    BY <1>0, <2>1 DEF EchoOK, responseVars
  <2>5. StatusTellsWhy' /\ WholeOrFailed'
    <3>1. HeaderNow' = HeaderNow /\ Divides' = Divides /\ Given(whole)' = Given(whole)
      BY <2>1 DEF HeaderNow, Divides, Given, responseVars
    <3>2. StatusTellsWhy'
      BY <1>0, <2>1, <3>1 DEF ReasonOK, StatusTellsWhy, bodyVars, responseVars
    <3> QED
      BY <1>0, <2>1, <3>1, <3>2 DEF WholeOrFailed, bodyVars, responseVars
  <2>6. ReasonOK'
    BY <1>0, <2>1, <2>5 DEF ReasonOK, bodyVars, responseVars
  <2> QED
    BY <2>2, <2>3, <2>4, <2>5, <2>6 DEF IInv
<1> QED
  BY <1>1, <1>2, <1>3, <1>4, <1>5, <1>6, <1>7, <1>8, <1>9, <1>10, <1>11, <1>12, <1>13,
     <1>14, <1>15, <1>16 DEF Next

-----------------------------------------------------------------------------
\* The invariant holds of every request.
LEMMA Invariance == Spec => []IInv
<1>1. Init => IInv
  BY InitEstablishes
<1>2. IInv /\ [Next]_vars => IInv'
  BY StepPreserves
<1> QED
  BY <1>1, <1>2, PTL DEF Spec

\* Every variable of the request, FlowFileBody, the extraction and
\* ExactLength keeps to its type; nothing is taken that was not polled.
THEOREM TypeCorrect == Spec => []TypeOK
<1>1. ASSUME IInv PROVE TypeOK
  <2>0. BodyOK /\ PositionOK /\ EchoOK /\ ReasonOK
    BY <1>1 DEF IInv
  <2>1. /\ Header \in Nat /\ request.size \in Nat /\ request.sent \in Nat
        /\ polled \in Nat /\ chunk \in Nat /\ taken \in Nat /\ whole \in Nat
        /\ Given(whole) \in Nat /\ whole <= Given(whole)
    BY <2>0, RequestFacts DEF PositionOK
  <2>2. taken \in 0 .. Header + request.size
    BY <2>0, <2>1 DEF PositionOK
  <2>3. polled >= chunk + Given(whole) + taken
    BY <2>0, <2>1 DEF PositionOK
  <2>4. polled <= request.sent
    BY <2>0, <2>1 DEF BodyOK
  <2>5. taken + chunk <= polled /\ whole \in 0 .. request.sent
    BY <2>1, <2>3, <2>4
  <2>6. /\ request \in Requests /\ handler \in {"echo", "reader", "batch"}
        /\ polled \in 0 .. request.sent /\ chunk \in 0 .. polled
        /\ body \in {"open", "ended", "failed", "limited"}
        /\ ended \in BOOLEAN /\ overpolled = FALSE
    BY <2>0 DEF BodyOK
  <2>7. /\ phase \in {"check", "header", "memory", "handler", "rejected", "answered"}
        /\ status \in {0, 200, 400, 413, 415} /\ outcome \in {"open", "end", "error"}
        /\ remaining \in 0 .. Header + request.size
    BY <2>0 DEF PositionOK, EchoOK, ReasonOK
  <2> QED
    BY <2>2, <2>5, <2>6, <2>7 DEF TypeOK
<1> QED
  BY <1>1, Invariance, PTL

\* FlowFileBody never polls a body that has ended or failed, whatever the
\* reader over it goes on to ask.
THEOREM PolledToItsEnd == Spec => []NeverPolledAfterEnd
<1>1. IInv => NeverPolledAfterEnd
  BY DEF IInv, BodyOK, NeverPolledAfterEnd
<1> QED
  BY <1>1, Invariance, PTL

\* Every rejection names its reason, and was made with no more read than it
\* took to know.
THEOREM StatusIsTrue == Spec => []StatusTellsWhy
<1>1. IInv => StatusTellsWhy
  BY DEF IInv, ReasonOK
<1> QED
  BY <1>1, Invariance, PTL

\* An answer carries exactly the bytes it announced or fails, and a batch
\* ends with every flow file that was sent.
THEOREM WholeResponses == Spec => []WholeOrFailed
<1>1. IInv => WholeOrFailed
  BY DEF IInv
<1> QED
  BY <1>1, Invariance, PTL

(***************************************************************************)
(* Every request is answered: no step can be repeated for ever, and there  *)
(* is one to take until there is an answer.                                *)
(***************************************************************************)

\* How far a request has come: in its body, in its batch, and in the code.
Rank ==
  CASE phase = "check" -> 0
    [] phase = "header" -> 1
    [] phase \in {"rejected", "answered"} -> 4
    [] OTHER -> IF Echoing THEN 3 ELSE 2

Told == IF ended THEN 1 ELSE 0

\* What has been done about what was polled.
Handled == (polled - chunk) + 2 * whole + Rank

Come == polled + Told + Handled

\* What a request comes to, without a look at the order of its steps.
LEMMA ComeIs ==
  ASSUME IInv
  PROVE  /\ Come \in 0 .. 4 * request.sent + 5
         /\ polled \in Nat /\ chunk \in 0 .. polled /\ whole \in Nat /\ Rank \in 0 .. 4 /\ taken \in Nat
         /\ Told \in 0 .. 1 /\ Header \in Nat \ {0} /\ request.size \in Nat
         /\ remaining \in 0 .. Header + request.size
<1>1. BodyOK /\ PositionOK /\ EchoOK
  BY DEF IInv
<1>2. /\ polled \in 0 .. request.sent /\ chunk \in 0 .. polled /\ ended \in BOOLEAN
      /\ request.sent \in Nat /\ polled \in Nat /\ chunk \in Nat
      /\ Header \in Nat \ {0} /\ request.size \in Nat
  BY <1>1, RequestFacts DEF BodyOK
<1>3. whole \in Nat /\ taken \in Nat /\ remaining \in 0 .. Header + request.size
  BY <1>1 DEF PositionOK, EchoOK
<1>4. Given(whole) \in Nat /\ whole <= Given(whole)
  BY <1>1, <1>3, RequestFacts
<1>5. polled >= chunk + Given(whole) + taken
  BY <1>1, <1>2, <1>3, <1>4 DEF PositionOK
<1>6. Rank \in 0 .. 4 /\ Told \in 0 .. 1
  BY DEF Rank, Told
<1>7. whole <= request.sent
  BY <1>2, <1>3, <1>4, <1>5
<1> QED
  BY <1>2, <1>3, <1>6, <1>7 DEF Come, Handled

\* Each step brings it further.
LEMMA ComesFurther == IInv /\ Next => Come' > Come
<1> SUFFICES ASSUME IInv, Next PROVE Come' > Come
  OBVIOUS
<1>1. BodyOK /\ PositionOK /\ EchoOK
  BY DEF IInv
<1>2. request.sent \in Nat /\ request' = request /\ BodyOK' /\ PositionOK'
  BY <1>1, StepPreserves, RequestFacts
     DEF IInv, BodyOK, Next, PollBody, CheckMediaType, Reject, ReadHeader, RejectHeader, RejectBody,
         Extract, ReaderReads, ReaderAnswers, EchoHeader, EchoContent, EchoEnds, BatchHeader,
         BatchReads, BatchTakes, BatchEnds
<1>3. /\ polled \in Nat /\ chunk \in 0 .. polled /\ whole \in Nat /\ Rank \in Nat /\ Told \in 0 .. 1
      /\ polled' \in Nat /\ chunk' \in 0 .. polled' /\ whole' \in Nat /\ Rank' \in Nat /\ Told' \in 0 .. 1
  <2>1. polled \in Nat /\ chunk \in 0 .. polled /\ polled' \in Nat /\ chunk' \in 0 .. polled'
    BY <1>1, <1>2 DEF BodyOK
  <2> QED
    BY <1>1, <1>2, <2>1 DEF PositionOK, Rank, Told
\* Steps that leave the body alone, or take from its chunk.
<1>4. ASSUME UNCHANGED <<polled, ended>>, Handled' > Handled
      PROVE  Come' > Come
  <2>1. Told' = Told /\ polled' = polled
    BY <1>4 DEF Told
  <2>2. PICK c \in 0 .. polled, w \in Nat, r \in Nat : chunk' = c /\ whole' = w /\ Rank' = r
    BY <1>3, <2>1
  <2>3. Handled \in Nat /\ Handled' \in Nat /\ Told \in Nat
    BY <1>3, <2>1, <2>2 DEF Handled
  <2>4. PICK h \in Nat : Handled' = h
    BY <2>3
  <2> QED
    BY <1>3, <1>4, <2>1, <2>3, <2>4 DEF Come
<1>5. ASSUME UNCHANGED <<request, handler, phase, polled, ended, whole>>, TakeChunk,
             Echoing => Echoing'
      PROVE  Come' > Come
  <2>1. PICK n \in 1 .. Least(chunk, Wanted) : chunk' = chunk - n
    BY <1>5 DEF TakeChunk
  <2>2. n \in Nat /\ n > 0 /\ whole' = whole
    BY <1>5, <2>1, <1>3
  <2>3. Rank' >= Rank
    BY <1>5 DEF Rank
  <2>4. PICK r \in Nat : Rank' = r
    BY <1>3
  <2>5. Handled' > Handled
    BY <1>3, <1>5, <2>1, <2>2, <2>3, <2>4 DEF Handled
  <2> QED
    BY <1>4, <1>5, <2>5
<1>6. CASE PollBody
  <2>1. /\ chunk = 0 /\ ended = FALSE /\ body = "open"
        /\ BodyYields /\ UNCHANGED <<request, handler, responseVars>>
    BY <1>1, <1>6 DEF PollBody, Reading, BodyOK
  <2>2. Rank' = Rank /\ whole' = whole
    BY <2>1 DEF Rank, Echoing, responseVars
  <2>3. CASE \E n \in 1 .. request.sent - polled : polled' = polled + n /\ chunk' = n /\ ended' = ended
    <3>1. Told' = Told
      BY <2>3 DEF Told
    <3> QED
      BY <1>3, <2>1, <2>2, <2>3, <3>1 DEF Come, Handled
  <2>4. CASE ended' = TRUE /\ UNCHANGED <<polled, chunk>>
    <3>1. Told = 0 /\ Told' = 1
      BY <2>1, <2>4 DEF Told
    <3> QED
      BY <1>3, <2>1, <2>2, <2>4, <3>1 DEF Come, Handled
  <2> QED
    BY <2>1, <2>3, <2>4 DEF BodyYields
<1>7. CASE CheckMediaType \/ RejectHeader \/ RejectBody \/ ReaderAnswers \/ EchoEnds \/ BatchEnds
  <2>1. /\ phase \in {"check", "header", "memory", "handler"} /\ UNCHANGED <<bodyVars, whole>>
        /\ phase' \in {"rejected", "answered"} \/ (phase = "check" /\ phase' = "header")
    BY <1>7 DEF CheckMediaType, RejectHeader, RejectBody, ReaderAnswers, EchoEnds, BatchEnds,
                BatchIsOver, Reject, Echoing
  <2>2. Rank' > Rank
    BY <2>1 DEF Rank
  <2>3. PICK r \in Nat : Rank' = r
    BY <1>3
  <2>4. Handled' > Handled
    BY <1>3, <2>1, <2>2, <2>3 DEF Handled, bodyVars
  <2> QED
    BY <1>4, <2>1, <2>4 DEF bodyVars
<1>8. CASE ReadHeader \/ ReaderReads \/ BatchReads
  BY <1>5, <1>8 DEF ReadHeader, ReaderReads, BatchReads, Echoing
<1>9. CASE EchoContent
  <2>1. remaining = request.size - taken
    BY <1>1, <1>9, EchoOwes DEF EchoContent
  <2>2. remaining' <= request.size'
    <3>1. PICK n \in 1 .. Least(chunk, Wanted) : taken' = taken + n
      BY <1>9 DEF EchoContent, TakeChunk
    <3>2. remaining' = remaining - (taken' - taken) /\ request' = request /\ n \in Nat
      BY <1>9, <3>1, ComeIs DEF EchoContent
    <3> QED
      BY <2>1, <3>1, <3>2, ComeIs
  <2> QED
    BY <1>5, <1>9, <2>2 DEF EchoContent, Echoing
<1>10. CASE Extract \/ BatchHeader
  <2>1. phase = "header" /\ phase' \in {"handler", "memory"} /\ UNCHANGED <<bodyVars, whole>>
    BY <1>10 DEF Extract, BatchHeader
  <2>2. Rank' > Rank
    BY <2>1 DEF Rank
  <2>3. PICK r \in Nat : Rank' = r
    BY <1>3
  <2>4. Handled' > Handled
    BY <1>3, <2>1, <2>2, <2>3 DEF Handled, bodyVars
  <2> QED
    BY <1>4, <2>1, <2>4 DEF bodyVars
<1>11. CASE EchoHeader
  <2>1. /\ phase = "handler" /\ handler = "echo" /\ remaining = Header + request.size
        /\ remaining' = request.size /\ UNCHANGED <<request, handler, bodyVars, phase, whole>>
    BY <1>11 DEF EchoHeader
  <2>2. ~Echoing /\ Echoing'
    BY <2>1, ComeIs DEF Echoing
  <2>3. Rank' > Rank
    BY <2>1, <2>2 DEF Rank
  <2>4. PICK r \in Nat : Rank' = r
    BY <1>3
  <2>5. Handled' > Handled
    BY <1>3, <2>1, <2>3, <2>4 DEF Handled, bodyVars
  <2> QED
    BY <1>4, <2>1, <2>5 DEF bodyVars
<1>12. CASE BatchTakes
  <2>1. phase = "memory" /\ phase' = "header" /\ whole' = whole + 1 /\ UNCHANGED bodyVars
    BY <1>12 DEF BatchTakes
  <2>2. Rank' = 1 /\ Rank = 2
    BY <2>1 DEF Rank, Echoing
  <2>3. PICK r \in Nat : Rank' = r
    BY <1>3
  <2>4. Handled' > Handled
    BY <1>3, <2>1, <2>2, <2>3 DEF Handled, bodyVars
  <2> QED
    BY <1>4, <2>1, <2>4 DEF bodyVars
<1> QED
  BY <1>6, <1>7, <1>8, <1>9, <1>10, <1>11, <1>12 DEF Next

\* A request cannot go on for ever, not even a batch of flow files that hold
\* nothing: each step brings it further, and the end is in sight.
THEOREM RequestsStop == Spec => [][Come' > Come]_vars /\ [](Come \in 0 .. 4 * request.sent + 5)
<1>1. IInv /\ [Next]_vars => [Come' > Come]_vars
  BY ComesFurther
<1>2. IInv => Come \in 0 .. 4 * request.sent + 5
  BY ComeIs
<1> QED
  BY <1>1, <1>2, Invariance, PTL DEF Spec

\* What the body, the extractors and the handlers need for a step.
CanGoOn ==
  \/ phase = "check"
  \/ Reading /\ ~ended
  \/ phase \in {"header", "memory"} /\ Wanted > 0 /\ (chunk > 0 \/ (ended /\ ~BatchIsOver))
  \/ phase = "header" /\ taken > 0 /\ HeaderNow # "good"
  \/ phase = "header" /\ Wanted = 0 /\ HeaderNow = "good"
  \/ phase = "memory" /\ Wanted = 0
  \/ phase = "handler" /\ handler = "reader"
  \/ phase = "handler" /\ handler = "echo" /\ remaining = Header + request.size
  \/ Echoing /\ ((chunk > 0 /\ Wanted > 0) \/ ContentEnds)
  \/ BatchIsOver

\* Nobody waits for what does not come: a body that was read to its end is
\* known to have ended, and an answer is due then.
THEOREM NeverLeftWaiting == Spec => [](phase \notin {"rejected", "answered"} => CanGoOn)
<1>1. ASSUME IInv, phase \notin {"rejected", "answered"} PROVE CanGoOn
  <2>1. BodyOK /\ PositionOK /\ EchoOK
    BY <1>1 DEF IInv
  <2>2. phase \in {"check", "header", "memory", "handler"} /\ chunk \in Nat /\ handler \in {"echo", "reader", "batch"}
    BY <1>1, <2>1, RequestFacts DEF PositionOK, BodyOK
  <2>3. CASE phase = "header"
    <3>1. Wanted \in Nat /\ (Wanted = 0 => taken > 0)
      BY <2>1, <2>3, WantedIsTheRest, RequestFacts
    <3> QED
      BY <2>2, <2>3, <3>1 DEF CanGoOn, Reading
  <2>4. CASE phase = "memory"
    <3>1. Wanted \in Nat
      BY <2>1, <2>4, WantedIsTheRest
    <3> QED
      BY <2>2, <2>4, <3>1 DEF CanGoOn, Reading, BatchIsOver
  <2>5. CASE phase = "handler" /\ handler = "echo"
    <3>1. Wanted \in Nat
      BY <2>1, <2>5, WantedIsTheRest
    <3>2. remaining = Header + request.size \/ Echoing
      BY <2>1, <2>5, RequestFacts DEF EchoOK, PositionOK, Echoing
    <3> QED
      BY <2>2, <2>5, <3>1, <3>2 DEF CanGoOn, Reading, ContentEnds
  <2>6. phase = "handler" => handler # "batch"
    BY <2>1 DEF PositionOK
  <2> QED
    BY <2>2, <2>3, <2>4, <2>5, <2>6 DEF CanGoOn
<1> QED
  BY <1>1, Invariance, PTL
=============================================================================
