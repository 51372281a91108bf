--------------------------- MODULE TransferProofs ---------------------------
(***************************************************************************)
(* What a reader is given of the wire, for every size of a header, all     *)
(* sizes of contents and any number of flow files, with both halves of the *)
(* crate at work at the same time.                                         *)
(***************************************************************************)
EXTENDS Transfer, StreamWriterProofs

\* Nothing more happens once next returns None, and only who drives the reader
\* goes on after a mismatch, to the flow file behind it.
Stopped ==
  /\ done => phase = "idle"
  /\ ~done /\ mode # "driven" => mismatch = <<>>
  /\ inHand \/ phase \in {"discard", "memory"} => mismatch = <<>>
  /\ verdict = "end" => closed /\ at = landed

\* The flow file next has begun, and not handed out.
Begun == IF phase \in {"header", "memory"} THEN 1 ELSE 0

\* Each flow file took a byte of the wire at least.
Progress ==
  /\ handed + Begun <= at
  /\ phase = "memory" => taken + unread = size

ReaderIInv == ReaderTypeOK /\ Stopped /\ Progress

-----------------------------------------------------------------------------
\* A read gets a byte at least, no more than was asked for, and none that has
\* not arrived.
LEMMA ArrivalsFit ==
  ASSUME landed \in Nat, at \in 0 .. landed, NEW room \in Int, NEW n \in Arrivals(room)
  PROVE  n \in Nat /\ n > 0 /\ n <= room /\ at + n \in 1 .. landed
<1>1. n \in 1 .. Least(room, landed - at)
  BY DEF Arrivals
<1>2. landed - at \in Int
  OBVIOUS
<1>3. CASE room < landed - at
  BY <1>1, <1>2, <1>3 DEF Least
<1>4. CASE ~(room < landed - at)
  BY <1>1, <1>2, <1>4 DEF Least
<1> QED
  BY <1>3, <1>4

\* A reader begins with nothing read.
LEMMA ReaderInitial == WireInit /\ ReaderInit => ReaderIInv
<1> SUFFICES ASSUME WireInit, ReaderInit PROVE ReaderIInv
  OBVIOUS
<1>1. landed = 0 /\ Len(declared) = 0
  BY DEF WireInit
<1>2. at = 0 /\ taken = 0 /\ size = 0 /\ unread = 0 /\ current = 0 /\ handed = 0
  BY DEF ReaderInit
<1>3. /\ phase = "idle" /\ done = FALSE /\ verdict = "open" /\ mismatch = <<>> /\ cancelled = {} /\ inHand = FALSE
      /\ mode \in {"streaming", "buffered", "stream", "driven"}
  BY DEF ReaderInit
<1>4. ReaderTypeOK
  <2>1. /\ at \in 0 .. landed /\ handed \in 0 .. at /\ size \in Sizes \union {0}
        /\ unread \in 0 .. size /\ current \in 0 .. Len(declared) /\ taken \in 0 .. 0
    BY <1>1, <1>2
  <2>2. (CASE phase = "discard" -> unread
           [] phase = "header"  -> Header
           [] phase = "memory"  -> size
           [] OTHER             -> 0) = 0
    BY <1>3
  <2> QED
    BY <1>3, <2>1, <2>2 DEF ReaderTypeOK
<1>5. Stopped /\ Progress
  BY <1>2, <1>3 DEF Stopped, Progress, Begun
<1> QED
  BY <1>4, <1>5 DEF ReaderIInv

\* No step of a reader touches the wire, and none gives back a byte.
LEMMA ReaderInductive ==
  ASSUME WireTypeOK, Len(wire) \in Nat, ReaderIInv, ReaderNext
  PROVE  ReaderIInv' /\ UNCHANGED wireVars /\ at <= at'
<1> USE DEF ReaderIInv
<1>1. UNCHANGED wireVars
  BY DEF ReaderNext, NextSteps, CallNext, SkipContent, Discard, DiscardEnds, FirstByte, StreamEnds,
         ReadHeader, HeaderParsed, HeaderMisread, HeaderCutShort, ReadMemory, MemoryEnds, NextFails,
         NextCancelled, ReadContent
<1>2. UNCHANGED <<wire, landed, closed, declared>>
  BY <1>1 DEF wireVars
<1>3. /\ landed \in Nat /\ at \in 0 .. landed /\ at \in Nat /\ Header \in Nat /\ Header > 1
      /\ size \in Nat /\ unread \in 0 .. size /\ handed \in 0 .. at
  BY WireAssumption DEF ReaderTypeOK, WireTypeOK
<1>4. /\ phase = "discard" => taken \in 0 .. unread
      /\ phase = "header" => taken \in 0 .. Header
      /\ phase = "memory" => taken \in 0 .. size
      /\ phase \in {"idle", "first"} => taken \in 0 .. 0
      /\ inHand \in BOOLEAN /\ (inHand => phase = "idle" /\ ~done)
  BY DEF ReaderTypeOK
<1>5. CASE CallNext
  <2>1. /\ phase = "idle" /\ ~done /\ taken' = 0 /\ inHand' = FALSE
        /\ phase' \in {"discard", "first"} /\ (phase' = "discard" => mode = "streaming")
        /\ UNCHANGED <<mode, at, size, unread, current, handed, done, verdict, mismatch, cancelled>>
    BY <1>5, Zenon DEF CallNext, resultVars
  <2>4. inHand' \in BOOLEAN /\ ~inHand'
    BY <2>1, Zenon
  <2>2. ReaderTypeOK'
    BY <1>2, <1>3, <2>1, <2>4 DEF ReaderTypeOK
  <2>3. Stopped' /\ Progress' /\ at <= at'
    BY <1>2, <1>3, <2>1 DEF Stopped, Progress, Begun
  <2> QED
    BY <1>1, <2>2, <2>3
<1>6. CASE SkipContent
  <2>1. /\ phase = "idle" /\ ~done /\ taken' = 0 /\ inHand /\ inHand' = FALSE /\ phase' = "discard"
        /\ UNCHANGED <<mode, at, size, unread, current, handed, done, verdict, mismatch, cancelled>>
    BY <1>6 DEF SkipContent, resultVars
  <2>4. inHand' \in BOOLEAN /\ ~inHand'
    BY <2>1, Zenon
  <2>2. ReaderTypeOK'
    BY <1>2, <1>3, <2>1, <2>4 DEF ReaderTypeOK
  <2>3. Stopped' /\ Progress' /\ at <= at'
    BY <1>2, <1>3, <2>1 DEF Stopped, Progress, Begun
  <2> QED
    BY <1>1, <2>2, <2>3
<1>7. CASE Discard
  <2>1. PICK n \in Arrivals(unread - taken) : Take(n)
    BY <1>7 DEF Discard
  <2>2. n \in Nat /\ n > 0 /\ n <= unread - taken /\ at + n \in 1 .. landed
    BY <1>3, <1>4, <1>7, <2>1, ArrivalsFit DEF Discard
  <2> QED
    BY <1>2, <1>3, <1>4, <1>7, <2>1, <2>2 DEF Take, Discard, ReaderTypeOK, Stopped, Progress, Begun, resultVars
<1>8. CASE DiscardEnds
  <2>1. phase = "discard" /\ unread' = 0 /\ UNCHANGED <<mode, at, size, current, inHand, handed, cancelled>>
    BY <1>8 DEF DiscardEnds
  <2>2. \/ phase' = "idle" /\ taken' = 0 /\ mode = "driven" /\ UNCHANGED <<done, verdict>>
        \/ phase' = "first" /\ taken' = 0 /\ UNCHANGED <<done, verdict, mismatch>>
        \/ phase' = "idle" /\ taken' = 0 /\ done' = TRUE /\ verdict' = "error"
    BY <1>8, Zenon DEF DiscardEnds, SkipReturns, Stop, resultVars
  <2>3. ~done /\ ~inHand
    BY <1>4, <2>1 DEF Stopped
  <2>4. ReaderTypeOK'
    <3>1. 0 \in 0 .. size
      BY <1>3
    <3>2. CASE phase' \in {"idle", "first"} /\ taken' = 0 /\ UNCHANGED <<done, verdict>>
      BY <1>2, <1>3, <2>1, <2>3, <3>1, <3>2 DEF ReaderTypeOK
    <3>3. CASE phase' = "idle" /\ taken' = 0 /\ done' = TRUE /\ verdict' = "error"
      BY <1>2, <1>3, <2>1, <2>3, <3>1, <3>3 DEF ReaderTypeOK
    <3> QED
      BY <2>2, <3>2, <3>3
  <2>5. verdict # "end"
    BY <2>3 DEF ReaderTypeOK
  <2>6. Stopped' /\ Progress' /\ at <= at'
    BY <1>2, <1>3, <2>1, <2>2, <2>3, <2>5 DEF Stopped, Progress, Begun
  <2> QED
    BY <1>1, <2>4, <2>6
<1>9. CASE FirstByte
  BY <1>2, <1>3, <1>4, <1>9 DEF FirstByte, ReaderTypeOK, Stopped, Progress, Begun, resultVars
<1>10. CASE StreamEnds
  BY <1>2, <1>3, <1>4, <1>10 DEF StreamEnds, EndOfWire, Stop, ReaderTypeOK, Stopped, Progress, Begun, resultVars
<1>11. CASE ReadHeader
  <2>1. PICK n \in Arrivals(Header - taken) : Take(n)
    BY <1>11 DEF ReadHeader
  <2>2. n \in Nat /\ n > 0 /\ n <= Header - taken /\ at + n \in 1 .. landed
    BY <1>3, <1>4, <1>11, <2>1, ArrivalsFit DEF ReadHeader
  <2> QED
    BY <1>2, <1>3, <1>4, <1>11, <2>1, <2>2 DEF Take, ReadHeader, ReaderTypeOK, Stopped, Progress, Begun, resultVars
<1>12. CASE HeaderParsed \/ HeaderMisread
  <2>1. PICK i \in 0 .. Len(declared), declares \in Sizes : Parsed(i, declares)
    <3>1. CASE HeaderParsed
      <4>1. PICK i \in 1 .. Len(declared) : Parsed(i, declared[i])
        BY <3>1 DEF HeaderParsed
      <4>2. declared[i] \in Sizes /\ i \in 0 .. Len(declared)
        BY ElementOfSeq DEF WireTypeOK
      <4> QED
        BY <4>1, <4>2
    <3>2. CASE HeaderMisread
      <4>1. PICK declares \in Sizes : Parsed(0, declares)
        BY <3>2 DEF HeaderMisread
      <4>2. 0 \in 0 .. Len(declared)
        BY LenProperties DEF WireTypeOK
      <4> QED
        BY <4>1, <4>2
    <3> QED
      BY <1>12, <3>1, <3>2
  <2>2. phase = "header" /\ UNCHANGED <<mode, at, done, verdict, cancelled>>
    BY <1>12 DEF HeaderParsed, HeaderMisread
  <2>3. size' = declares /\ unread' = declares /\ current' = i /\ taken' = 0 /\ mismatch' = <<>>
        /\ inHand' = ~InMemory /\ declares \in Nat
    BY <2>1, WireAssumption DEF Parsed
  <2>4. \/ phase' = "idle" /\ handed' = handed + 1
        \/ phase' = "memory" /\ handed' = handed /\ InMemory
    BY <2>1 DEF Parsed
  <2>5. ~done /\ handed + 1 <= at
    BY <2>2 DEF Stopped, Progress, Begun
  <2>6. ReaderTypeOK'
    BY <1>2, <1>3, <2>2, <2>3, <2>4, <2>5 DEF ReaderTypeOK, InMemory
  <2>7. Progress'
    BY <1>3, <2>2, <2>3, <2>4, <2>5 DEF Progress, Begun
  <2> QED
    BY <1>1, <1>2, <1>3, <2>2, <2>3, <2>4, <2>5, <2>6, <2>7 DEF Stopped, ReaderTypeOK
<1>14. CASE HeaderCutShort
  BY <1>2, <1>3, <1>4, <1>14 DEF HeaderCutShort, Stop, ReaderTypeOK, Stopped, Progress, Begun, resultVars
<1>15. CASE ReadMemory
  <2>1. PICK n \in Arrivals(unread) : Take(n) /\ unread' = unread - n
    BY <1>15 DEF ReadMemory
  <2>2. n \in Nat /\ n > 0 /\ n <= unread /\ at + n \in 1 .. landed
    BY <1>3, <1>4, <1>15, <2>1, ArrivalsFit DEF ReadMemory
  <2>3. /\ phase = "memory" /\ at' = at + n /\ taken' = taken + n /\ unread' = unread - n
        /\ UNCHANGED <<mode, phase, size, current, inHand, handed, done, verdict, mismatch, cancelled>>
    BY <1>15, <2>1 DEF Take, ReadMemory, resultVars
  <2>4. taken + unread = size /\ taken \in 0 .. size /\ handed + 1 <= at
    BY <1>4, <2>3 DEF Progress, Begun
  <2>5. /\ unread' \in 0 .. size /\ taken' \in 0 .. size /\ at' \in 0 .. landed
        /\ handed \in 0 .. at' /\ handed + 1 <= at' /\ taken' + unread' = size
    <3> HIDE DEF ReaderIInv
    <3> QED
      BY <1>3, <2>2, <2>3, <2>4
  <2>6. ReaderTypeOK'
    BY <1>2, <1>4, <2>3, <2>5 DEF ReaderTypeOK
  <2> QED
    <3>1. ~done /\ mismatch = <<>>
      BY <2>3 DEF Stopped
    <3>4. Stopped'
      <4> HIDE DEF ReaderIInv
      <4> QED
        BY <2>3, <3>1, <2>6 DEF Stopped, ReaderTypeOK
    <3>2. Progress'
      BY <2>3, <2>5 DEF Progress, Begun
    <3>3. at <= at'
      BY <1>3, <2>2, <2>3
    <3> QED
      BY <1>1, <2>6, <3>2, <3>3, <3>4
<1>16. CASE MemoryEnds
  <2>1. phase = "memory" /\ UNCHANGED <<mode, at, size, unread, current, inHand, cancelled>>
    BY <1>16 DEF MemoryEnds
  <2>2. /\ phase' = "idle" /\ taken' = 0
        /\ \/ handed' = handed + 1 /\ UNCHANGED <<done, verdict, mismatch>>
           \/ handed' = handed /\ done' = TRUE /\ verdict' = "error"
    BY <1>16 DEF MemoryEnds, Stop, resultVars
  <2>3. ~done /\ ~inHand /\ mismatch = <<>> /\ handed + 1 <= at
    BY <1>4, <2>1 DEF Stopped, Progress, Begun
  <2>4. ReaderTypeOK'
    <3>1. handed + 1 \in 0 .. at
      BY <1>3, <2>3
    <3>2. CASE handed' = handed + 1 /\ UNCHANGED <<done, verdict, mismatch>>
      BY <1>2, <1>3, <2>1, <2>2, <3>1, <3>2 DEF ReaderTypeOK
    <3>3. CASE handed' = handed /\ done' = TRUE /\ verdict' = "error"
      BY <1>2, <1>3, <2>1, <2>2, <3>3 DEF ReaderTypeOK
    <3> QED
      BY <2>2, <3>2, <3>3
  <2>5. Progress'
    BY <1>3, <2>1, <2>2, <2>3 DEF Progress, Begun
  <2> QED
    BY <1>1, <1>2, <1>3, <2>1, <2>2, <2>3, <2>4, <2>5 DEF Stopped, ReaderTypeOK
<1>17. CASE NextFails
  BY <1>2, <1>3, <1>4, <1>17 DEF NextFails, Stop, ReaderTypeOK, Stopped, Progress, Begun, resultVars
<1>18. CASE NextCancelled
  BY <1>2, <1>3, <1>4, <1>18 DEF NextCancelled, ReaderTypeOK, Stopped, Progress, Begun, resultVars
<1>19. CASE ReadContent
  <2>3. /\ phase = "idle" /\ ~done /\ inHand
        /\ UNCHANGED <<mode, phase, taken, size, current, inHand, handed, done, verdict, mismatch, cancelled>>
    BY <1>19 DEF ReadContent, resultVars
  <2>1. PICK n \in Arrivals(unread) : at' = at + n /\ unread' = unread - n
    BY <1>19 DEF ReadContent
  <2>2. n \in Nat /\ n > 0 /\ n <= unread /\ at + n \in 1 .. landed
    BY <1>3, <1>4, <1>19, <2>1, ArrivalsFit DEF ReadContent
  <2> QED
    <3>1. unread' \in 0 .. size /\ at' \in 0 .. landed /\ handed \in 0 .. at' /\ at <= at'
      BY <1>3, <2>1, <2>2
    <3>2. ReaderTypeOK'
      BY <1>2, <1>4, <2>3, <3>1 DEF ReaderTypeOK, InMemory
    <3>3. verdict # "end"
      BY <2>3 DEF ReaderTypeOK
    <3>4. Stopped' /\ Progress'
      BY <1>3, <2>1, <2>2, <2>3, <3>1, <3>3 DEF Stopped, Progress, Begun
    <3> QED
      BY <1>1, <3>1, <3>2, <3>4
<1> QED
  BY <1>1, <1>5, <1>6, <1>7, <1>8, <1>9, <1>10, <1>11, <1>12, <1>14, <1>15, <1>16, <1>17, <1>18, <1>19
     DEF ReaderNext, NextSteps

-----------------------------------------------------------------------------
\* What was read ends with a flow file.
AtEnd == at = 0 \/ Ends(at)

\* The last byte read is of the current flow file, where the cursors say.
InContent ==
  IF current = 0
  THEN at = 0 /\ size = 0 /\ unread = 0
  ELSE /\ at > 0 /\ size = declared[current]
       /\ wire[at] = <<current, Header + size - unread + (IF phase = "discard" THEN taken ELSE 0)>>

\* The reader is where the stream ended within a content, which skip_content
\* has reported.
CutShort ==
  /\ mode = "driven" /\ mismatch # <<>> /\ unread = 0
  /\ at = landed /\ closed
  /\ at > 0 /\ wire[at][1] = current

\* Where the reader is in the stream, in each of its phases.
Placed ==
  /\ ~done /\ phase = "idle" => InContent \/ CutShort
  /\ phase \in {"discard", "memory"} => InContent
  /\ ~done /\ InMemory /\ phase = "idle" => unread = 0
  /\ phase = "first" => AtEnd \/ CutShort
  /\ phase = "header" => at > 0 /\ taken > 0 /\ wire[at][2] = taken
  /\ verdict = "end" => AtEnd \/ CutShort

\* The flow files a byte of which was read.
Seen == {wire[place][1] : place \in 1 .. at}

\* Those were handed out, but for the one that was begun.
Tallied == verdict # "error" => Cardinality(Seen) = handed + Begun

\* What a SizeMismatch was reported on is where the reader has stopped, or
\* behind it when the caller has gone on.
Reported ==
  mismatch # <<>> =>
    /\ current # 0
    /\ mismatch[1] = declared[current]
    /\ mismatch[2] \in Nat /\ mismatch[2] < mismatch[1]
    /\ \E place \in 1 .. at : wire[place][1] = current /\ Header + mismatch[2] <= wire[place][2]
    /\ mode # "driven" =>
         closed /\ at = landed /\ wire[at] = <<current, Header + mismatch[2]>>

\* All of this as long as no future of next was dropped, and no flow file
\* that was given up half-way has been passed.
IInv ==
  /\ WriterIInv /\ ReaderIInv
  /\ Undisturbed => Placed /\ Tallied /\ Reported

-----------------------------------------------------------------------------
\* Reading on in a flow file gives the bytes that come next in it.
LEMMA ReadOn ==
  ASSUME WriterIInv, NEW a \in 1 .. Len(wire), NEW n \in Nat, a + n <= Sound,
         wire[a][2] + n <= Header + declared[wire[a][1]]
  PROVE  /\ wire[a + n] = <<wire[a][1], wire[a][2] + n>>
         /\ {wire[place][1] : place \in 1 .. a + n} = {wire[place][1] : place \in 1 .. a}
<1> USE DEF WriterIInv
<1>1. Len(wire) \in Nat /\ Header \in Nat /\ Sound \in 0 .. Len(wire)
  BY Numbers, SoundPlaces, WireAssumption DEF SoundIsBeginning
<1>2. wire[a][1] \in 1 .. Part /\ wire[a][2] \in Nat /\ declared[wire[a][1]] \in Nat
  <2>1. wire[a][1] \in 1 .. Part /\ wire[a][2] \in 1 .. PutOf(wire[a][1])
    BY DEF Layout
  <2> QED
    BY <2>1, Numbers
<1>3. ASSUME NEW m \in 0 .. n PROVE wire[a + m] = <<wire[a][1], wire[a][2] + m>>
  <2>1. m \in Nat /\ a + m <= Sound
    BY <1>1
  <2>2. wire[a][2] + m <= Header + declared[wire[a][1]]
    <3> DEFINE k == wire[a][2]
               full == Header + declared[wire[a][1]]
    <3>1. k \in Nat /\ full \in Nat /\ k + n <= full /\ m <= n
      BY <1>1, <1>2
    <3>2. k + m <= full
      <4> HIDE DEF k, full
      <4> QED
        BY <2>1, <3>1
    <3> QED
      BY <3>2
  <2> QED
    BY <2>1, <2>2, RestOfFlowFile
<1>4. wire[a + n] = <<wire[a][1], wire[a][2] + n>>
  BY <1>3
<1>5. ASSUME NEW p \in 1 .. a + n PROVE wire[p][1] \in {wire[place][1] : place \in 1 .. a}
  <2>1. CASE p <= a
    BY <2>1
  <2>2. CASE p > a
    <3>1. p - a \in 0 .. n /\ p = a + (p - a) /\ a \in 1 .. a
      BY <2>2
    <3>2. PICK m \in 0 .. n : p = a + m
      BY <3>1
    <3>3. wire[p] = <<wire[a][1], wire[a][2] + m>>
      BY <1>3, <3>2, Zenon
    <3>4. wire[p][1] = wire[a][1]
      BY <3>3
    <3> QED
      BY <3>1, <3>4
  <2> QED
    BY <2>1, <2>2
<1>6. 1 .. a \subseteq 1 .. a + n
  OBVIOUS
<1> QED
  BY <1>4, <1>5, <1>6

\* Behind the end of a flow file comes the first byte of one of which none
\* was read before.
LEMMA ReadFirst ==
  ASSUME WriterIInv, NEW a \in 0 .. Len(wire), a + 1 <= Sound, a = 0 \/ Ends(a)
  PROVE  /\ Starts(a + 1)
         /\ Cardinality({wire[place][1] : place \in 1 .. a + 1})
              = Cardinality({wire[place][1] : place \in 1 .. a}) + 1
<1> USE DEF WriterIInv
<1> DEFINE S == {wire[place][1] : place \in 1 .. a}
           j == wire[a + 1][1]
<1>1. Len(wire) \in Nat /\ Part \in Nat /\ Sound \in 0 .. Len(wire)
  BY Numbers, SoundPlaces DEF SoundIsBeginning
<1>2. a + 1 \in 1 .. Len(wire)
  BY <1>1
<1>3. Starts(a + 1)
  <2>1. CASE a = 0
    BY <1>2, <2>1, SoundStart
  <2>2. CASE a # 0
    <3>1. a \in 1 .. Len(wire)
      BY <2>2
    <3> QED
      BY <2>2, <3>1, SoundShape
  <2> QED
    BY <2>1, <2>2
<1>4. j \in 1 .. Part /\ a + 1 = From(j) + 1
  BY <1>2, <1>3 DEF Layout, Starts
<1>5. From(j) \in Nat
  BY <1>4, Numbers
<1>6. j \notin S
  <2> SUFFICES ASSUME NEW p \in 1 .. a, wire[p][1] = j PROVE FALSE
    OBVIOUS
  <2>1. p \in 1 .. Len(wire)
    BY <1>1
  <2>2. wire[p][2] \in 1 .. PutOf(j) /\ p = From(j) + wire[p][2]
    BY <2>1 DEF Layout
  <2>3. PutOf(j) \in Nat
    BY <1>4, Numbers
  <2> HIDE DEF j
  <2> QED
    BY <1>4, <1>5, <2>2, <2>3
<1>7. IsFiniteSet(S)
  <2>1. \A place \in 1 .. a : wire[place][1] \in 1 .. Part
    <3>1. 1 .. a \subseteq 1 .. Len(wire)
      BY <1>1
    <3>2. \A place \in 1 .. Len(wire) : wire[place][1] \in 1 .. Part
      BY DEF Layout
    <3> QED
      BY <3>1, <3>2
  <2>2. S \in SUBSET (1 .. Part)
    BY <2>1
  <2> HIDE DEF S
  <2> QED
    BY <1>1, <2>2, FromOne, FS_Subset
<1>8. {wire[place][1] : place \in 1 .. a + 1} = S \union {j}
  <2>1. \A p \in 1 .. a + 1 : p \in 1 .. a \/ p = a + 1
    OBVIOUS
  <2>2. 1 .. a \subseteq 1 .. a + 1 /\ a + 1 \in 1 .. a + 1
    OBVIOUS
  <2> QED
    BY <2>1, <2>2
<1>9. Cardinality(S \union {j}) = Cardinality(S) + 1
  <2> HIDE DEF S, j
  <2> QED
    BY <1>6, <1>7, FS_AddElement
<1> QED
  BY <1>3, <1>8, <1>9

\* Bytes that lead up to byte k of a flow file, k of them, are the beginning
\* of that flow file and of no other.
LEMMA HeaderIsOf ==
  ASSUME WriterIInv, at \in 1 .. Len(wire), taken \in Nat, taken > 0, wire[at][2] = taken,
         NEW i \in 1 .. Part
  PROVE  HeaderOf(i) <=> i = wire[at][1]
<1> USE DEF WriterIInv
<1> DEFINE j == wire[at][1]
           read == SubSeq(wire, at - taken + 1, at)
<1>1. Len(wire) \in Nat /\ Part \in Nat
  BY Numbers
<1>2. j \in 1 .. Part /\ taken \in 1 .. PutOf(j) /\ at = From(j) + taken
  BY DEF Layout
<1>3. PutOf(j) \in Nat /\ From(j) \in Nat
  BY <1>2, Numbers
<1>4. ASSUME NEW k \in 1 .. taken PROVE wire[at - taken + k] = <<j, k>>
  <2>1. k \in 1 .. PutOf(j) /\ at - taken + k = From(j) + k
    <3> HIDE DEF j
    <3> QED
      BY <1>2, <1>3
  <2> QED
    BY <1>2, <2>1 DEF Layout
<1>5. /\ Len(read) = taken /\ read \in Seq(Nat \X Nat)
      /\ \A k \in 1 .. taken : read[k] = <<j, k>>
  <2>1. at - taken + 1 \in Int /\ at \in Int /\ at - taken + 1 <= at /\ at - (at - taken + 1) + 1 = taken
    BY <1>1
  <2>2. \A p \in at - taken + 1 .. at : wire[p] \in Nat \X Nat
    <3>1. \A p \in at - taken + 1 .. at : p \in 1 .. Len(wire)
      <4> HIDE DEF j
      <4> QED
        BY <1>1, <1>2, <1>3
    <3> QED
      BY <3>1, ElementOfSeq DEF Layout
  <2>3. /\ read \in Seq(Nat \X Nat) /\ Len(read) = taken
        /\ \A k \in 1 .. taken : read[k] = wire[at - taken + 1 + k - 1]
    BY <2>1, <2>2, SubSeqProperties
  <2>4. ASSUME NEW k \in 1 .. taken PROVE at - taken + 1 + k - 1 = at - taken + k
    BY <1>1
  <2>5. \A k \in 1 .. taken : read[k] = <<j, k>>
    BY <1>4, <2>3, <2>4
  <2> QED
    BY <2>3, <2>5
<1>6. /\ Bytes(i, 0, taken) \in Seq(Nat \X Nat) /\ Len(Bytes(i, 0, taken)) = taken
      /\ \A k \in 1 .. taken : Bytes(i, 0, taken)[k] = <<i, k>>
  <2>1. \A k \in 1 .. taken : 0 + k = k /\ <<i, k>> \in Nat \X Nat
    BY <1>1
  <2>2. Bytes(i, 0, taken) = [k \in 1 .. taken |-> <<i, k>>]
    BY <2>1 DEF Bytes
  <2>3. Bytes(i, 0, taken) \in [1 .. taken -> Nat \X Nat]
    BY <2>1, <2>2
  <2>4. Bytes(i, 0, taken) \in Seq(Nat \X Nat) /\ Len(Bytes(i, 0, taken)) = taken
    BY <2>3, SeqDef, LenProperties
  <2> QED
    BY <2>2, <2>4
<1>7. ASSUME HeaderOf(i) PROVE i = j
  <2>1. taken \in 1 .. taken
    OBVIOUS
  <2>2. read[taken] = Bytes(i, 0, taken)[taken]
    BY <1>7 DEF HeaderOf
  <2>3. <<j, taken>> = <<i, taken>>
    <3>1. read[taken] = <<j, taken>>
      BY <1>5, <2>1, Zenon
    <3>2. Bytes(i, 0, taken)[taken] = <<i, taken>>
      BY <1>6, <2>1, Zenon
    <3> QED
      BY <2>2, <3>1, <3>2
  <2> QED
    BY <2>3
<1>8. ASSUME i = j PROVE HeaderOf(i)
  <2>1. \A k \in 1 .. taken : read[k] = Bytes(i, 0, taken)[k]
    BY <1>5, <1>6, <1>8
  <2>2. read = Bytes(i, 0, taken)
    <3> HIDE DEF read, j
    <3> QED
      BY <1>5, <1>6, <2>1, SeqEqual
  <2> QED
    BY <2>2 DEF HeaderOf
<1> QED
  BY <1>7, <1>8

-----------------------------------------------------------------------------
\* A step of a reader that no dropped future and no torn flow file disturbs.
Calm ==
  /\ IInv /\ Undisturbed /\ Undisturbed' /\ ReaderIInv'
  /\ UNCHANGED <<wire, landed, closed, declared>>
  /\ at <= at' /\ at' <= Sound

\* What is not disturbed behind a step was not before it.
LEMMA StaysCalm ==
  ASSUME IInv, ReaderNext, UNCHANGED writerVars, Undisturbed'
  PROVE  Calm
<1>1. ReaderIInv' /\ UNCHANGED wireVars /\ at <= at'
  BY ReaderInductive, Numbers DEF IInv, WriterIInv
<1>2. UNCHANGED <<wire, landed, closed, declared>>
  BY <1>1 DEF wireVars
<1>3. Sound' = Sound
  BY <1>2 DEF writerVars, Sound, Torn, PutOf
<1>4. at \in Nat /\ at' \in Nat /\ Sound \in Nat
  <2>1. landed \in Nat /\ landed' \in Nat
    BY <1>2, Numbers DEF IInv, WriterIInv, WireTypeOK
  <2>2. Sound \in Nat
    BY Numbers, SoundPlaces DEF IInv, WriterIInv, SoundIsBeginning
  <2> QED
    BY <1>1, <2>1, <2>2 DEF IInv, ReaderIInv, ReaderTypeOK
<1>5. mode' = mode /\ cancelled \subseteq cancelled'
  BY DEF ReaderNext, NextSteps, CallNext, SkipContent, Discard, DiscardEnds, FirstByte, StreamEnds,
         ReadHeader, HeaderParsed, HeaderMisread, HeaderCutShort, ReadMemory, MemoryEnds, NextFails,
         NextCancelled, ReadContent
<1>6. at' <= Sound
  BY <1>3 DEF Undisturbed
<1>7. Undisturbed
  BY <1>1, <1>4, <1>5, <1>6 DEF Undisturbed
<1> QED
  BY <1>1, <1>2, <1>6, <1>7 DEF Calm

\* The numbers at hand in such a step.
LEMMA CalmNumbers ==
  ASSUME Calm
  PROVE  /\ Len(wire) \in Nat /\ landed \in Nat /\ landed <= Len(wire)
         /\ at \in Nat /\ at <= landed /\ at' \in Nat /\ at' <= Sound
         /\ Header \in Nat /\ Header > 1 /\ size \in Nat /\ unread \in 0 .. size
         /\ handed \in Nat /\ current \in 0 .. Part
         /\ (at > 0 => at \in 1 .. Len(wire) /\ wire[at][1] \in 1 .. Part /\ wire[at][2] \in Nat /\ wire[at][2] > 0)
<1> USE DEF Calm, IInv, WriterIInv, ReaderIInv
<1>1. Len(wire) \in Nat /\ landed \in Nat /\ landed <= Len(wire)
  BY Numbers DEF WireTypeOK
<1>2. at \in Nat /\ at <= landed
  BY <1>1 DEF ReaderTypeOK
<1>3. at' \in Nat /\ at' <= Sound
  BY <1>1 DEF ReaderTypeOK
<1>4. Header \in Nat /\ Header > 1 /\ size \in Nat /\ unread \in 0 .. size
  BY WireAssumption DEF ReaderTypeOK
<1>5. handed \in Nat
  BY <1>2 DEF ReaderTypeOK
<1>6. current \in 0 .. Part
  BY DEF ReaderTypeOK, Part
<1>7. ASSUME at > 0
      PROVE  at \in 1 .. Len(wire) /\ wire[at][1] \in 1 .. Part /\ wire[at][2] \in Nat /\ wire[at][2] > 0
  <2>1. at \in 1 .. Len(wire)
    BY <1>1, <1>2, <1>7
  <2>2. wire[at][1] \in 1 .. Part /\ wire[at][2] \in 1 .. PutOf(wire[at][1])
    BY <2>1 DEF Layout
  <2>3. PutOf(wire[at][1]) \in Nat
    BY <2>2, Numbers
  <2>4. wire[at][2] \in Nat /\ wire[at][2] > 0
    BY <2>2, <2>3
  <2> QED
    BY <2>1, <2>2, <2>4
<1> QED
  BY <1>1, <1>2, <1>3, <1>4, <1>5, <1>6, <1>7

\* n more bytes of a content are the next ones of it.
LEMMA ContentReadOn ==
  ASSUME Calm, InContent, NEW before \in Nat, NEW n \in Nat, n > 0, at' = at + n,
         before = IF phase = "discard" THEN taken ELSE 0,
         n <= unread - before
  PROVE  /\ current # 0 /\ at > 0 /\ size = declared[current]
         /\ wire[at] = <<current, Header + size - unread + before>>
         /\ wire[at'] = <<current, Header + size - unread + before + n>>
         /\ Seen' = Seen
<1>1. /\ Len(wire) \in Nat /\ at \in Nat /\ at <= Len(wire) /\ at' \in Nat /\ at' <= Sound
      /\ Header \in Nat /\ size \in Nat /\ unread \in 0 .. size
  BY CalmNumbers
<1>2. unread > 0
  BY <1>1
<1>3. current # 0
  BY <1>2 DEF InContent
<1>4. at > 0 /\ size = declared[current] /\ wire[at] = <<current, Header + size - unread + before>>
  BY <1>3 DEF InContent
<1>5. at \in 1 .. Len(wire)
  BY <1>1, <1>4
<1>6. wire[at][1] = current /\ wire[at][2] = Header + size - unread + before
  BY <1>4
<1>7. wire[at][2] + n <= Header + declared[wire[at][1]]
  <2>1. Header + size - unread + before + n <= Header + size
    BY <1>1
  <2> QED
    BY <1>4, <1>6, <2>1
<1>8. WriterIInv /\ UNCHANGED wire /\ at + n <= Sound
  BY <1>1 DEF Calm, IInv
<1>9. /\ wire[at + n] = <<wire[at][1], wire[at][2] + n>>
      /\ {wire[place][1] : place \in 1 .. at + n} = {wire[place][1] : place \in 1 .. at}
  BY <1>5, <1>7, <1>8, ReadOn
<1>10. Seen' = Seen
  BY <1>8, <1>9 DEF Seen
<1> QED
  BY <1>3, <1>4, <1>6, <1>9, <1>10

\* A content of which nothing is left to read ends where the reader is.
LEMMA ContentRead ==
  ASSUME Calm, InContent, NEW before \in Nat,
         before = IF phase = "discard" THEN taken ELSE 0, before = unread
  PROVE  /\ AtEnd
         /\ current # 0 => wire[at] = <<current, Header + size>>
<1>1. Header \in Nat /\ size \in Nat /\ unread \in Nat
  BY CalmNumbers
<1>2. CASE current = 0
  BY <1>2 DEF InContent, AtEnd
<1>3. CASE current # 0
  <2>1. size = declared[current] /\ wire[at] = <<current, Header + size - unread + before>>
    BY <1>3 DEF InContent
  <2>2. Header + size - unread + before = Header + size
    BY <1>1
  <2>3. wire[at] = <<current, Header + size>>
    BY <2>1, <2>2
  <2> QED
    BY <2>1, <2>3 DEF AtEnd, Ends
<1> QED
  BY <1>2, <1>3

\* What a call of next that is under way has to say, and what it keeps.
LEMMA UnderWay ==
  ASSUME Calm
  PROVE  /\ Placed /\ Tallied /\ Reported /\ ReaderTypeOK /\ Stopped /\ Progress
         /\ phase # "idle" => ~done
         /\ ~done => verdict = "open"
         /\ inHand \/ phase \in {"discard", "memory"} \/ (~done /\ mode # "driven") => mismatch = <<>>
         /\ at' = at => Seen' = Seen /\ (AtEnd => AtEnd')
         /\ UNCHANGED <<mode, at, unread, current, mismatch>> => (CutShort => CutShort')
<1>1. Placed /\ Tallied /\ Reported /\ ReaderTypeOK /\ Stopped /\ Progress
  BY DEF Calm, IInv, ReaderIInv
<1>2. phase # "idle" => ~done
  BY <1>1 DEF Stopped
<1>3. ~done => verdict = "open"
  BY <1>1 DEF ReaderTypeOK
<1>4. UNCHANGED <<wire, landed, closed, declared>>
  BY DEF Calm
<1>5. at' = at => Seen' = Seen /\ (AtEnd => AtEnd')
  BY <1>4 DEF Seen, AtEnd, Ends
<1>6. inHand \/ phase \in {"discard", "memory"} \/ (~done /\ mode # "driven") => mismatch = <<>>
  BY <1>1 DEF Stopped
<1>7. UNCHANGED <<mode, at, unread, current, mismatch>> => (CutShort => CutShort')
  BY <1>4 DEF CutShort
<1> QED
  BY <1>1, <1>2, <1>3, <1>5, <1>6, <1>7

\* What was reported stays true as long as the reader goes on.
LEMMA ReportStays ==
  ASSUME Calm, ~done, UNCHANGED <<mode, current, mismatch>>
  PROVE  Reported'
<1>1. Reported /\ (mode # "driven" => mismatch = <<>>)
  BY UnderWay
<1>2. UNCHANGED <<wire, declared>>
  BY DEF Calm
<1>3. CASE mismatch = <<>>
  BY <1>3 DEF Reported
<1>4. CASE mismatch # <<>>
  <2>1. mode = "driven" /\ mode' = "driven"
    BY <1>1, <1>4
  <2>2. 1 .. at \subseteq 1 .. at'
    BY CalmNumbers DEF Calm
  <2>3. PICK place \in 1 .. at : wire[place][1] = current /\ Header + mismatch[2] <= wire[place][2]
    BY <1>1, <1>4 DEF Reported
  <2>4. place \in 1 .. at'
    BY <2>2
  <2>5. \E p \in 1 .. at' : wire'[p][1] = current' /\ Header + mismatch'[2] <= wire'[p][2]
    BY <1>2, <2>3, <2>4
  <2>6. /\ current' # 0 /\ mismatch'[1] = declared'[current']
        /\ mismatch'[2] \in Nat /\ mismatch'[2] < mismatch'[1]
    BY <1>1, <1>2, <1>4 DEF Reported
  <2> QED
    BY <2>1, <2>5, <2>6, Zenon DEF Reported
<1> QED
  BY <1>3, <1>4

\* The call of next, or of skip_content, itself.
LEMMA CallKeeps ==
  ASSUME Calm, CallNext \/ SkipContent
  PROVE  Placed' /\ Tallied' /\ Reported'
<1>1. /\ phase = "idle" /\ ~done /\ phase' \in {"discard", "first"} /\ taken' = 0
      /\ UNCHANGED <<mode, at, size, unread, current, handed, done, verdict, mismatch>>
      /\ phase' = "discard" => inHand \/ mode = "streaming"
  BY Zenon DEF CallNext, SkipContent, resultVars
<1>2. /\ Placed /\ Tallied /\ verdict = "open"
      /\ Seen' = Seen /\ (AtEnd => AtEnd') /\ (CutShort => CutShort')
      /\ phase' = "discard" => mismatch = <<>>
  BY <1>1, UnderWay
<1>3. InContent \/ CutShort
  BY <1>1, <1>2 DEF Placed
<1>4. UNCHANGED <<wire, declared>>
  BY DEF Calm
<1>7. Tallied'
  BY <1>1, <1>2 DEF Tallied, Begun
<1>8. Reported'
  BY <1>1, ReportStays
<1>5. CASE phase' = "discard"
  <2>1. InContent'
    <3>1. InContent
      BY <1>2, <1>3, <1>5 DEF CutShort
    <3> QED
      BY <1>1, <1>4, <1>5, <3>1 DEF InContent
  <2>2. Placed'
    BY <1>1, <1>2, <1>5, <2>1 DEF Placed
  <2> QED
    BY <1>7, <1>8, <2>2
<1>6. CASE phase' = "first"
  <2>1. unread = 0
    <3>1. CallNext
      BY <1>6 DEF SkipContent
    <3>2. mode = "driven" => unread = 0
      BY <3>1 DEF CallNext
    <3>3. mode = "streaming" => ~(unread > 0)
      BY <1>6, <3>1 DEF CallNext
    <3>4. InMemory => unread = 0
      BY <1>1, <1>2 DEF Placed
    <3>5. unread \in Nat
      BY CalmNumbers
    <3>6. ReaderTypeOK
      BY UnderWay
    <3>7. mode \in {"streaming", "driven"} \/ InMemory
      BY <3>6 DEF ReaderTypeOK, InMemory
    <3> QED
      BY <3>2, <3>3, <3>4, <3>5, <3>7
  <2>2. AtEnd \/ CutShort
    BY <1>1, <1>3, <2>1, ContentRead
  <2>3. Placed'
    BY <1>1, <1>2, <1>6, <2>2 DEF Placed
  <2> QED
    BY <1>7, <1>8, <2>3
<1> QED
  BY <1>1, <1>5, <1>6

\* Reading from a content, in next or by who was handed it.
LEMMA ContentKeeps ==
  ASSUME Calm, Discard \/ ReadMemory \/ ReadContent
  PROVE  Placed' /\ Tallied' /\ Reported'
<1> DEFINE before == IF phase = "discard" THEN taken ELSE 0
<1>1. /\ phase \in {"idle", "discard", "memory"} /\ ~done
      /\ UNCHANGED <<mode, phase, size, current, handed, done, verdict, mismatch>>
      /\ ReadContent => phase = "idle" /\ inHand /\ ~InMemory
      /\ Discard => phase = "discard"
      /\ ReadMemory => phase = "memory"
  <2>1. phase \in {"idle", "discard", "memory"}
    BY DEF Discard, ReadMemory, ReadContent
  <2>2. ~done
    BY <2>1, UnderWay DEF Discard, ReadMemory, ReadContent
  <2>3. inHand => ~InMemory
    BY UnderWay DEF ReaderTypeOK
  <2> QED
    BY <2>1, <2>2, <2>3 DEF Discard, ReadMemory, ReadContent, resultVars
<1>2. Placed /\ Tallied /\ mismatch = <<>> /\ verdict = "open" /\ ReaderTypeOK
  BY <1>1, UnderWay DEF Discard, ReadMemory, ReadContent
<1>3. InContent
  BY <1>1, <1>2 DEF Placed, CutShort
<1>4. UNCHANGED <<wire, declared>>
  BY DEF Calm
<1>5. /\ landed \in Nat /\ at \in 0 .. landed /\ unread \in 0 .. size /\ size \in Nat /\ Header \in Nat
      /\ unread \in Nat /\ at \in Nat
  BY CalmNumbers
<1>6. before \in Nat /\ (phase = "discard" => before = taken) /\ (phase # "discard" => before = 0)
  <2>1. phase = "discard" => taken \in Nat
    BY <1>2, <1>5 DEF ReaderTypeOK
  <2> QED
    BY <2>1
<1>7. PICK n \in Arrivals(unread - before) :
        /\ at' = at + n
        /\ IF phase = "discard" THEN taken' = taken + n /\ unread' = unread ELSE unread' = unread - n
  <2>1. CASE Discard
    BY <1>1, <1>6, <2>1 DEF Discard, Take
  <2>2. CASE ReadMemory \/ ReadContent
    <3>1. PICK n \in Arrivals(unread) : at' = at + n /\ unread' = unread - n
      BY <2>2 DEF ReadMemory, ReadContent, Take
    <3>2. phase # "discard" /\ unread - before = unread
      BY <1>1, <1>5, <1>6, <2>2
    <3> QED
      BY <3>1, <3>2
  <2> QED
    BY <2>1, <2>2
<1> HIDE DEF before
<1>8. n \in Nat /\ n > 0 /\ n <= unread - before
  BY <1>5, <1>6, <1>7, ArrivalsFit
<1>9. /\ current # 0 /\ at > 0 /\ size = declared[current]
      /\ wire[at'] = <<current, Header + size - unread + before + n>>
      /\ Seen' = Seen
  BY <1>3, <1>6, <1>7, <1>8, ContentReadOn DEF before
<1>10. at' > 0
  BY <1>5, <1>7, <1>8
<1>11. InContent'
  <2>1. CASE phase = "discard"
    <3>1. Header + size - unread + before + n = Header + size - unread' + taken'
      BY <1>5, <1>6, <1>7, <1>8, <2>1
    <3> QED
      BY <1>1, <1>4, <1>9, <1>10, <2>1, <3>1 DEF InContent
  <2>2. CASE phase # "discard"
    <3>1. Header + size - unread + before + n = Header + size - unread' + 0
      BY <1>5, <1>6, <1>7, <1>8, <2>2
    <3> QED
      BY <1>1, <1>4, <1>9, <1>10, <2>2, <3>1 DEF InContent
  <2> QED
    BY <2>1, <2>2
<1>12. Placed'
  <2>1. InMemory' = InMemory
    BY <1>1 DEF InMemory
  <2>2. ~(InMemory /\ phase = "idle")
    BY <1>1
  <2> QED
    BY <1>1, <1>2, <1>11, <2>1, <2>2 DEF Placed
<1>13. Tallied'
  BY <1>1, <1>2, <1>9 DEF Tallied, Begun
<1>14. Reported'
  BY <1>1, <1>2 DEF Reported
<1> QED
  BY <1>12, <1>13, <1>14

\* A skip that is through: at the end of the content, or reported.
LEMMA DiscardEndsKeeps ==
  ASSUME Calm, DiscardEnds
  PROVE  Placed' /\ Tallied' /\ Reported'
<1>1. /\ phase = "discard" /\ (taken = unread \/ EndOfWire) /\ unread' = 0
      /\ UNCHANGED <<mode, at, size, current, handed>>
  BY DEF DiscardEnds
<1>2. /\ ~done /\ Placed /\ Tallied /\ mismatch = <<>> /\ verdict = "open" /\ ReaderTypeOK
      /\ Seen' = Seen /\ (AtEnd => AtEnd')
  BY <1>1, UnderWay
<1>3. InContent
  BY <1>1, <1>2 DEF Placed
<1>4. UNCHANGED <<wire, landed, closed, declared>>
  BY DEF Calm
<1>5. /\ Header \in Nat /\ size \in Nat /\ unread \in 0 .. size /\ taken \in 0 .. unread
      /\ unread \in Nat /\ taken \in Nat
  <2>1. Header \in Nat /\ size \in Nat /\ unread \in 0 .. size
    BY CalmNumbers
  <2>2. taken \in 0 .. unread
    BY <1>1, <1>2 DEF ReaderTypeOK
  <2> QED
    BY <2>1, <2>2
<1>6. ASSUME size # 0
      PROVE  /\ current # 0 /\ at > 0 /\ size = declared[current]
             /\ wire[at] = <<current, Header + size - unread + taken>>
             /\ at \in 1 .. at
  <2>1. current # 0
    BY <1>3, <1>6 DEF InContent
  <2>2. at > 0 /\ size = declared[current] /\ wire[at] = <<current, Header + size - unread + taken>>
    BY <1>1, <1>3, <2>1 DEF InContent
  <2> QED
    BY <2>1, <2>2, CalmNumbers
\* What is reported is of the flow file whose byte was read last.
<1>7. ASSUME NEW told \in Nat, told < size, told <= size - unread + taken, mismatch' = <<size, told>>,
             mode # "driven" => closed /\ at = landed /\ told = size - unread + taken
      PROVE  Reported'
  <2>1. size # 0
    BY <1>5, <1>7
  <2>2. mismatch'[1] = declared'[current'] /\ mismatch'[1] = size /\ mismatch'[2] = told /\ current' # 0
    BY <1>1, <1>4, <1>6, <1>7, <2>1
  <2>3. at' \in 1 .. at' /\ wire'[at'] = <<current', Header + size - unread + taken>>
    BY <1>1, <1>4, <1>6, <2>1
  <2>4. Header + told <= Header + size - unread + taken
    BY <1>5, <1>7
  <2>5. wire'[at'][1] = current' /\ Header + mismatch'[2] <= wire'[at'][2]
    BY <2>2, <2>3, <2>4
  <2>6. mode' # "driven" => closed' /\ at' = landed' /\ wire'[at'] = <<current', Header + mismatch'[2]>>
    <3>1. told = size - unread + taken => Header + size - unread + taken = Header + told
      BY <1>5, <1>7
    <3> QED
      BY <1>1, <1>4, <1>7, <2>2, <2>3, <3>1
  <2>7. mismatch'[2] \in Nat /\ mismatch'[2] < mismatch'[1]
    BY <1>7, <2>2
  <2> QED
    BY <2>2, <2>3, <2>5, <2>6, <2>7, Zenon DEF Reported
<1>8. CASE mode = "driven"
  <2>1. /\ phase' = "idle" /\ taken' = 0 /\ UNCHANGED <<done, verdict>> /\ ~InMemory'
        /\ IF taken = size THEN mismatch' = mismatch ELSE mismatch' = <<size, taken>>
    BY <1>1, <1>8 DEF DiscardEnds, Mismatched, InMemory
  <2>2. Tallied'
    BY <1>1, <1>2, <2>1 DEF Tallied, Begun
  <2>3. Reported'
    <3>1. CASE taken = size
      BY <1>2, <2>1, <3>1 DEF Reported
    <3>2. CASE taken # size
      <4>1. taken < size /\ taken <= size - unread + taken
        BY <1>5, <3>2
      <4> QED
        BY <1>5, <1>7, <1>8, <2>1, <3>2, <4>1
    <3> QED
      BY <3>1, <3>2
  <2>4. InContent' \/ CutShort'
    <3>1. CASE taken = unread
      <4>1. AtEnd /\ (current # 0 => wire[at] = <<current, Header + size>>)
        BY <1>1, <1>3, <1>5, <3>1, ContentRead
      <4>2. CASE current = 0
        BY <1>1, <1>3, <4>2 DEF InContent
      <4>3. CASE current # 0
        <5>1. at > 0 /\ size = declared[current]
          BY <1>3, <4>3 DEF InContent
        <5>2. Header + size - unread' + 0 = Header + size
          BY <1>1, <1>5
        <5> QED
          BY <1>1, <1>4, <2>1, <4>1, <4>3, <5>1, <5>2 DEF InContent
      <4> QED
        BY <4>2, <4>3
    <3>2. CASE taken # unread
      <4>1. at = landed /\ closed /\ size # 0 /\ taken # size
        BY <1>1, <1>5, <3>2 DEF EndOfWire
      <4>2. at > 0 /\ wire[at] = <<current, Header + size - unread + taken>> /\ mismatch' # <<>>
        BY <1>6, <2>1, <4>1
      <4> QED
        BY <1>1, <1>4, <1>8, <4>1, <4>2 DEF CutShort
    <3> QED
      BY <3>1, <3>2
  <2>5. Placed'
    BY <1>1, <1>2, <2>1, <2>4 DEF Placed
  <2> QED
    BY <2>2, <2>3, <2>5
<1>9. CASE mode # "driven" /\ taken = unread
  <2>1. phase' = "first" /\ taken' = 0 /\ UNCHANGED <<done, verdict, mismatch>>
    BY <1>9 DEF DiscardEnds, SkipReturns, resultVars
  <2>2. AtEnd
    BY <1>1, <1>3, <1>5, <1>9, ContentRead
  <2> QED
    BY <1>1, <1>2, <2>1, <2>2 DEF Placed, Tallied, Reported, Begun
<1>10. CASE mode # "driven" /\ taken # unread
  <2>1. /\ done' = TRUE /\ verdict' = "error" /\ phase' = "idle"
        /\ mismatch' = <<size, size - unread + taken>>
    BY <1>10 DEF DiscardEnds, Stop, Mismatched
  <2>2. Placed' /\ Tallied'
    BY <2>1 DEF Placed, Tallied
  <2>3. at = landed /\ closed
    BY <1>1, <1>10 DEF EndOfWire
  <2>4. size - unread + taken \in Nat /\ size - unread + taken < size
    BY <1>5, <1>10
  <2>5. Reported'
    BY <1>7, <2>1, <2>3, <2>4
  <2> QED
    BY <2>2, <2>5
<1> QED
  BY <1>8, <1>9, <1>10

\* The first byte of a header, where a flow file ended, is the first byte of
\* a flow file.
LEMMA FirstByteKeeps ==
  ASSUME Calm, FirstByte
  PROVE  Placed' /\ Tallied' /\ Reported'
<1>1. /\ phase = "first" /\ at' = at + 1 /\ taken' = 1 /\ phase' = "header"
      /\ UNCHANGED <<mode, current, handed, done, verdict, mismatch>>
      /\ at < landed
  BY DEF FirstByte, resultVars
<1>2. ~done /\ Placed /\ Tallied /\ verdict = "open"
  BY <1>1, UnderWay
<1>3. AtEnd
  BY <1>1, <1>2, CalmNumbers DEF Placed, CutShort
<1>4. /\ Len(wire) \in Nat /\ at \in 0 .. Len(wire) /\ at + 1 <= Sound /\ at' > 0
      /\ handed \in Nat /\ WriterIInv /\ UNCHANGED wire
  <2>1. /\ Len(wire) \in Nat /\ landed \in Nat /\ landed <= Len(wire) /\ at \in Nat /\ at <= landed
        /\ at' <= Sound /\ handed \in Nat
    BY CalmNumbers
  <2> QED
    BY <1>1, <2>1 DEF Calm, IInv
<1>5. /\ wire[at + 1][2] = 1
      /\ Cardinality({wire[place][1] : place \in 1 .. at + 1})
           = Cardinality({wire[place][1] : place \in 1 .. at}) + 1
  BY <1>3, <1>4, ReadFirst DEF AtEnd, Starts
<1>6. Placed'
  <2>1. wire'[at'][2] = taken'
    BY <1>1, <1>4, <1>5
  <2> QED
    BY <1>1, <1>2, <1>4, <2>1 DEF Placed
<1>7. Tallied'
  <2>1. Cardinality(Seen) = handed + 0
    BY <1>1, <1>2 DEF Tallied, Begun
  <2>2. Cardinality(Seen') = Cardinality(Seen) + 1
    BY <1>1, <1>4, <1>5 DEF Seen
  <2>3. Cardinality(Seen') = handed + 1
    BY <1>4, <2>1, <2>2
  <2> QED
    BY <1>1, <2>3 DEF Tallied, Begun
<1>8. Reported'
  BY <1>1, <1>2, ReportStays
<1> QED
  BY <1>6, <1>7, <1>8

\* More bytes of a header are more of the header that was begun.
LEMMA ReadHeaderKeeps ==
  ASSUME Calm, ReadHeader
  PROVE  Placed' /\ Tallied' /\ Reported'
<1>1. phase = "header" /\ UNCHANGED <<mode, phase, current, handed, done, verdict, mismatch>>
  BY DEF ReadHeader, resultVars
<1>2. ~done /\ Placed /\ Tallied /\ verdict = "open" /\ ReaderTypeOK
  BY <1>1, UnderWay
<1>3. at > 0 /\ taken > 0 /\ wire[at][2] = taken
  BY <1>1, <1>2 DEF Placed
<1>4. /\ landed \in Nat /\ at \in 0 .. landed /\ at \in Nat /\ Header \in Nat
      /\ at \in 1 .. Len(wire) /\ wire[at][1] \in 1 .. Part /\ at' <= Sound
  BY <1>3, CalmNumbers
<1>5. taken \in 0 .. Header /\ taken \in Nat
  BY <1>1, <1>2, <1>4 DEF ReaderTypeOK
<1>6. WriterIInv /\ UNCHANGED wire
  BY DEF Calm, IInv
<1>7. PICK n \in Arrivals(Header - taken) : at' = at + n /\ taken' = taken + n
  BY DEF ReadHeader, Take
<1>8. n \in Nat /\ n > 0 /\ n <= Header - taken
  BY <1>4, <1>5, <1>7, ArrivalsFit
<1>9. declared[wire[at][1]] \in Nat
  BY <1>4, <1>6, Numbers DEF WriterIInv
<1>10. taken + n <= Header + declared[wire[at][1]]
  BY <1>4, <1>5, <1>8, <1>9
<1>11. /\ wire[at + n] = <<wire[at][1], wire[at][2] + n>>
       /\ {wire[place][1] : place \in 1 .. at + n} = {wire[place][1] : place \in 1 .. at}
  BY <1>3, <1>4, <1>6, <1>7, <1>8, <1>10, ReadOn
<1>12. Seen' = Seen
  BY <1>6, <1>7, <1>11 DEF Seen
<1>13. at' > 0 /\ taken' > 0 /\ wire'[at'][2] = taken'
  BY <1>3, <1>4, <1>5, <1>6, <1>7, <1>8, <1>11
<1>14. Reported'
  BY <1>1, <1>2, ReportStays
<1> QED
  BY <1>1, <1>2, <1>12, <1>13, <1>14 DEF Placed, Tallied, Begun

\* What was read as a header is the header of the flow file that begins
\* there, so none is misread.
LEMMA HeaderKeeps ==
  ASSUME Calm, HeaderParsed \/ HeaderMisread
  PROVE  Placed' /\ Tallied' /\ Reported'
<1> DEFINE j == wire[at][1]
<1>1. /\ phase = "header" /\ taken = Header
      /\ UNCHANGED <<mode, at, done, verdict>>
  BY DEF HeaderParsed, HeaderMisread
<1>2. /\ ~done /\ Placed /\ Tallied /\ verdict = "open" /\ Seen' = Seen
  BY <1>1, UnderWay
<1>3. at > 0 /\ taken > 0 /\ wire[at][2] = taken
  BY <1>1, <1>2 DEF Placed
<1>4. /\ Header \in Nat /\ at \in 1 .. Len(wire) /\ j \in 1 .. Part /\ handed \in Nat /\ Part = Len(declared)
  BY <1>3, CalmNumbers DEF Part
<1>5. WriterIInv /\ UNCHANGED <<wire, declared>>
  BY DEF Calm, IInv
<1>6. \A i \in 1 .. Part : HeaderOf(i) <=> i = j
  BY <1>1, <1>3, <1>4, <1>5, HeaderIsOf
<1>7. Parsed(j, declared[j])
  <2>1. ~HeaderMisread
    BY <1>4, <1>6 DEF HeaderMisread
  <2>2. PICK i \in 1 .. Part : HeaderOf(i) /\ Parsed(i, declared[i])
    BY <1>4, <2>1 DEF HeaderParsed
  <2> QED
    BY <1>6, <2>2
<1>8. /\ size' = declared[j] /\ unread' = declared[j] /\ current' = j /\ taken' = 0 /\ mismatch' = <<>>
      /\ \/ ~InMemory /\ phase' = "idle" /\ handed' = handed + 1
         \/ phase' = "memory" /\ handed' = handed
  BY <1>7 DEF Parsed
<1>9. wire[at] = <<j, Header>>
  <2>1. wire[at] \in Nat \X Nat
    BY <1>4, <1>5, ElementOfSeq DEF WriterIInv, Layout
  <2> QED
    BY <1>1, <1>3, <2>1
<1>10. InContent'
  <2>1. j # 0 /\ declared[j] \in Nat
    BY <1>4, <1>5, Numbers DEF WriterIInv
  <2>2. Header + size' - unread' + 0 = Header
    <3> HIDE DEF j
    <3> QED
      BY <1>4, <1>8, <2>1
  <2> QED
    BY <1>1, <1>3, <1>5, <1>8, <1>9, <2>1, <2>2 DEF InContent
<1>11. InMemory' = InMemory
  BY <1>1 DEF InMemory
<1>12. Placed'
  BY <1>1, <1>2, <1>8, <1>10, <1>11 DEF Placed
<1>13. Tallied'
  <2>1. Cardinality(Seen) = handed + 1
    BY <1>1, <1>2 DEF Tallied, Begun
  <2>2. handed' + Begun' = handed + 1
    BY <1>4, <1>8 DEF Begun
  <2> QED
    BY <1>2, <2>1, <2>2 DEF Tallied
<1>14. Reported'
  BY <1>8 DEF Reported
<1> QED
  BY <1>12, <1>13, <1>14

\* A content that is in memory, or was cut short.
LEMMA MemoryEndsKeeps ==
  ASSUME Calm, MemoryEnds
  PROVE  Placed' /\ Tallied' /\ Reported'
<1>1. /\ phase = "memory" /\ (unread = 0 \/ EndOfWire) /\ phase' = "idle" /\ taken' = 0
      /\ UNCHANGED <<mode, at, size, unread, current>>
  BY DEF MemoryEnds, Stop
<1>2. /\ ~done /\ Placed /\ Tallied /\ mismatch = <<>> /\ verdict = "open" /\ ReaderTypeOK /\ Progress
      /\ Seen' = Seen
  BY <1>1, UnderWay
<1>3. InContent
  BY <1>1, <1>2 DEF Placed
<1>4. UNCHANGED <<wire, landed, closed, declared>>
  BY DEF Calm
<1>5. /\ Header \in Nat /\ size \in Nat /\ unread \in 0 .. size /\ unread \in Nat /\ handed \in Nat
      /\ taken + unread = size /\ taken \in Nat
  <2>1. Header \in Nat /\ size \in Nat /\ unread \in 0 .. size /\ handed \in Nat
    BY CalmNumbers
  <2>2. taken \in 0 .. size /\ taken + unread = size
    BY <1>1, <1>2 DEF ReaderTypeOK, Progress
  <2> QED
    BY <2>1, <2>2
<1>6. CASE unread = 0
  <2>1. handed' = handed + 1 /\ UNCHANGED <<done, verdict, mismatch>>
    BY <1>6 DEF MemoryEnds, resultVars
  <2>2. InContent'
    BY <1>1, <1>3, <1>4 DEF InContent
  <2>3. Placed'
    BY <1>1, <1>2, <1>6, <2>1, <2>2 DEF Placed
  <2>4. Tallied'
    BY <1>1, <1>2, <1>5, <2>1 DEF Tallied, Begun
  <2> QED
    BY <1>2, <2>1, <2>3, <2>4 DEF Reported
<1>7. CASE unread # 0
  <2>1. done' = TRUE /\ verdict' = "error" /\ mismatch' = <<size, taken>> /\ closed /\ at = landed
    BY <1>1, <1>7 DEF MemoryEnds, Stop, Mismatched, EndOfWire
  <2>2. Placed' /\ Tallied'
    BY <1>1, <2>1 DEF Placed, Tallied
  <2>3. /\ current # 0 /\ at > 0 /\ size = declared[current]
        /\ wire[at] = <<current, Header + size - unread + 0>>
    BY <1>1, <1>3, <1>7 DEF InContent
  <2>4. Header + size - unread + 0 = Header + taken /\ taken < size
    BY <1>5, <1>7
  <2>5. /\ mismatch'[1] = declared'[current'] /\ mismatch'[2] = taken /\ mismatch'[1] = size
        /\ wire'[at'][1] = current' /\ wire'[at'][2] = Header + taken
        /\ closed' /\ at' = landed' /\ current' # 0 /\ at' > 0
    BY <1>1, <1>4, <2>1, <2>3, <2>4
  <2>6. mismatch'[2] \in Nat /\ mismatch'[2] < mismatch'[1] /\ Header + mismatch'[2] <= wire'[at'][2]
        /\ wire'[at'][2] = Header + mismatch'[2]
    BY <1>5, <2>4, <2>5
  <2>7. wire'[at'] = <<current', Header + mismatch'[2]>> /\ at' \in 1 .. at'
    <3>1. wire'[at'] = <<current', Header + taken>>
      BY <1>1, <1>4, <2>3, <2>4
    <3> QED
      BY <1>1, <2>3, <2>5, <3>1, CalmNumbers
  <2>8. Reported'
    BY <2>5, <2>6, <2>7, Zenon DEF Reported
  <2> QED
    BY <2>2, <2>8
<1> QED
  BY <1>6, <1>7

\* A stream that ends between two flow files, and one that fails anywhere.
LEMMA StopKeeps ==
  ASSUME Calm, StreamEnds \/ HeaderCutShort \/ NextFails
  PROVE  Placed' /\ Tallied' /\ Reported'
<1>1. /\ phase # "idle" /\ done' = TRUE /\ phase' = "idle"
      /\ UNCHANGED <<mode, at, unread, current, handed, mismatch>>
      /\ verdict' = "error" \/ (verdict' = "end" /\ phase = "first")
  BY DEF StreamEnds, HeaderCutShort, NextFails, Stop
<1>2. /\ ~done /\ Placed /\ Tallied /\ verdict = "open" /\ Seen' = Seen
      /\ (AtEnd => AtEnd') /\ (CutShort => CutShort')
  BY <1>1, UnderWay
<1>3. phase = "first" => AtEnd' \/ CutShort'
  BY <1>2 DEF Placed
<1>4. Placed'
  BY <1>1, <1>3 DEF Placed
<1>5. Tallied'
  BY <1>1, <1>2 DEF Tallied, Begun
<1>6. Reported'
  BY <1>1, <1>2, ReportStays
<1> QED
  BY <1>4, <1>5, <1>6

\* So every step that nothing disturbs keeps the reader in its place.
LEMMA ReaderKeeps ==
  ASSUME Calm, ReaderNext
  PROVE  Placed' /\ Tallied' /\ Reported'
<1>1. ~NextCancelled
  <2>1. ASSUME NextCancelled PROVE FALSE
    <3>1. cancelled' # {} /\ mode # "stream" /\ mode' = mode
      BY <2>1 DEF NextCancelled, Cancellable
    <3> QED
      BY <3>1 DEF Calm, Undisturbed
  <2> QED
    BY <2>1
<1> QED
  BY <1>1, CallKeeps, ContentKeeps, DiscardEndsKeeps, FirstByteKeeps, ReadHeaderKeeps, HeaderKeeps,
     MemoryEndsKeeps, StopKeeps DEF ReaderNext, NextSteps

-----------------------------------------------------------------------------
\* The writer, at work at the same time, changes nothing of what was read,
\* and takes nothing of it back.
LEMMA WriterKeeps ==
  ASSUME IInv, WriterNext \/ UNCHANGED <<wireVars, writerVars>>, UNCHANGED readerVars
  PROVE  IInv'
<1>1. WriterIInv' /\ WireGrows
  BY WriterInductive, WriterGrows DEF IInv
<1>2. UNCHANGED <<mode, phase, at, taken, size, unread, current, inHand, handed, done, verdict, mismatch,
                 cancelled>>
  BY DEF readerVars, callVars, resultVars
<1>3. WriterIInv /\ ReaderIInv
  BY DEF IInv
<1>4. /\ Len(wire) \in Nat /\ landed \in Nat /\ landed' \in Nat /\ landed <= Len(wire)
      /\ at \in Nat /\ at <= landed
      /\ Part \in Nat /\ Part' \in Nat /\ current \in 0 .. Part
  <2>1. Len(wire) \in Nat /\ Part \in Nat
    BY <1>3, Numbers DEF WriterIInv
  <2>2. landed \in Nat /\ landed <= Len(wire)
    BY <1>3, <2>1 DEF WriterIInv, WireTypeOK
  <2>3. landed' \in Nat /\ Part' \in Nat
    <3>1. WireTypeOK' /\ Layout'
      BY <1>1 DEF WriterIInv
    <3>2. wire' \in Seq(Nat \X Nat) /\ declared' \in Seq(Sizes)
      BY <3>1 DEF Layout, WireTypeOK
    <3>3. Len(wire') \in Nat /\ Len(declared') \in Nat
      BY <3>2, LenProperties
    <3> QED
      BY <3>1, <3>3 DEF WireTypeOK, Part
  <2> QED
    BY <1>3, <2>1, <2>2, <2>3 DEF ReaderIInv, ReaderTypeOK, Part
<1>5. /\ Part <= Part' /\ \A i \in 1 .. Part : declared'[i] = declared[i]
      /\ landed <= landed' /\ (closed => closed' /\ landed' = landed)
      /\ \A p \in 1 .. at : wire'[p] = wire[p]
  BY <1>1, <1>4 DEF WireGrows
<1>6. ReaderIInv'
  <2>1. at' \in 0 .. landed' /\ current' \in 0 .. Len(declared')
    BY <1>2, <1>4, <1>5 DEF Part
  <2>2. ReaderTypeOK'
    BY <1>2, <1>3, <2>1 DEF ReaderIInv, ReaderTypeOK, InMemory
  <2>3. Stopped' /\ Progress'
    BY <1>2, <1>3, <1>5 DEF ReaderIInv, Stopped, Progress, Begun
  <2> QED
    BY <2>2, <2>3 DEF ReaderIInv
<1>7. ASSUME Undisturbed' PROVE Placed' /\ Tallied' /\ Reported'
  <2>1. Undisturbed
    <3>1. at <= Sound'
      BY <1>2, <1>7 DEF Undisturbed
    <3>2. at \in 0 .. Len(wire)
      BY <1>4
    <3>3. at <= Sound
      BY <1>1, <3>1, <3>2 DEF WireGrows
    <3> QED
      BY <1>2, <1>7, <3>3 DEF Undisturbed
  <2>2. Placed /\ Tallied /\ Reported
    BY <2>1 DEF IInv
  <2>3. ASSUME at > 0
        PROVE  /\ wire'[at] = wire[at]
               /\ wire[at][1] \in 1 .. Part /\ declared'[wire[at][1]] = declared[wire[at][1]]
    <3>1. at \in 1 .. at /\ at \in 1 .. Len(wire)
      BY <1>4, <2>3
    <3>2. wire[at][1] \in 1 .. Part
      BY <1>3, <3>1 DEF WriterIInv, Layout
    <3> QED
      BY <1>5, <3>1, <3>2
  <2>4. current # 0 => declared'[current] = declared[current]
    BY <1>4, <1>5
  <2>5. AtEnd => AtEnd'
    <3>1. CASE at = 0
      BY <1>2, <3>1 DEF AtEnd
    <3>2. CASE at # 0
      BY <1>2, <1>4, <2>3, <3>2 DEF AtEnd, Ends
    <3> QED
      BY <3>1, <3>2
  <2>6. InContent => InContent'
    <3>1. CASE current = 0
      BY <1>2, <3>1 DEF InContent
    <3>2. CASE current # 0
      BY <1>2, <2>3, <2>4, <3>2 DEF InContent
    <3> QED
      BY <3>1, <3>2
  <2>7. Seen' = Seen
    BY <1>2, <1>5 DEF Seen
  <2>11. CutShort => CutShort'
    BY <1>2, <1>5, <2>3 DEF CutShort
  <2>8. Placed'
    <3>1. phase = "header" => at > 0 /\ wire'[at] = wire[at]
      BY <2>2, <2>3 DEF Placed
    <3> QED
      BY <1>2, <2>2, <2>5, <2>6, <2>11, <3>1 DEF Placed, InMemory
  <2>9. Tallied'
    BY <1>2, <2>2, <2>7 DEF Tallied, Begun
  <2>10. Reported'
    <3>1. CASE mismatch = <<>>
      BY <1>2, <3>1 DEF Reported
    <3>2. CASE mismatch # <<>>
      <4>1. /\ current # 0 /\ mismatch[1] = declared[current]
            /\ mismatch[2] \in Nat /\ mismatch[2] < mismatch[1]
        BY <2>2, <3>2 DEF Reported
      <4>2. PICK place \in 1 .. at : wire[place][1] = current /\ Header + mismatch[2] <= wire[place][2]
        BY <2>2, <3>2 DEF Reported
      <4>3. \E p \in 1 .. at' : wire'[p][1] = current' /\ Header + mismatch'[2] <= wire'[p][2]
        BY <1>2, <1>5, <4>2
      <4>4. ASSUME mode # "driven"
            PROVE  closed' /\ at = landed' /\ wire'[at] = <<current, Header + mismatch[2]>>
        <5>1. closed /\ at = landed /\ wire[at] = <<current, Header + mismatch[2]>> /\ at > 0
          BY <1>4, <2>2, <3>2, <4>2, <4>4 DEF Reported
        <5> QED
          BY <1>5, <2>3, <5>1
      <4>5. declared'[current] = declared[current]
        BY <2>4, <4>1
      <4> QED
        BY <1>2, <4>1, <4>3, <4>4, <4>5 DEF Reported
    <3> QED
      BY <3>1, <3>2
  <2> QED
    BY <2>8, <2>9, <2>10
<1> QED
  BY <1>1, <1>6, <1>7 DEF IInv

\* Nothing is written and nothing read at first.
LEMMA TransferInitial == TransferInit => IInv
<1> SUFFICES ASSUME TransferInit PROVE IInv
  OBVIOUS
<1>1. WireInit /\ WriterInit /\ ReaderInit
  BY DEF TransferInit
<1>2. WriterIInv /\ ReaderIInv
  BY <1>1, WriterInitial, ReaderInitial
<1>3. /\ at = 0 /\ current = 0 /\ size = 0 /\ unread = 0 /\ handed = 0
      /\ phase = "idle" /\ done = FALSE /\ verdict = "open" /\ mismatch = <<>>
  BY <1>1 DEF ReaderInit
<1>4. InContent
  BY <1>3 DEF InContent
<1>5. Placed
  BY <1>3, <1>4 DEF Placed
<1>6. Tallied
  <2>1. Seen = {}
    BY <1>3 DEF Seen
  <2>2. Cardinality(Seen) = 0
    BY <2>1, FS_EmptySet
  <2> QED
    BY <1>3, <2>2 DEF Tallied, Begun
<1>7. Reported
  BY <1>3 DEF Reported
<1> QED
  BY <1>2, <1>5, <1>6, <1>7 DEF IInv

\* Each step of either half keeps the invariant.
LEMMA TransferInductive == IInv /\ [Next]_vars => IInv'
<1> SUFFICES ASSUME IInv, [Next]_vars PROVE IInv'
  OBVIOUS
<1>1. CASE WriterNext /\ UNCHANGED readerVars
  BY <1>1, WriterKeeps
<1>2. CASE ReaderNext /\ UNCHANGED writerVars
  <2>1. ReaderIInv' /\ UNCHANGED wireVars
    BY <1>2, ReaderInductive, Numbers DEF IInv, WriterIInv
  <2>2. WriterIInv'
    BY <1>2, <2>1, WriterInductive DEF IInv
  <2>3. ASSUME Undisturbed' PROVE Placed' /\ Tallied' /\ Reported'
    <3>1. Calm
      BY <1>2, <2>3, StaysCalm
    <3> QED
      BY <1>2, <3>1, ReaderKeeps
  <2> QED
    BY <2>1, <2>2, <2>3 DEF IInv
<1>3. CASE UNCHANGED vars
  BY <1>3, WriterKeeps DEF vars
<1> QED
  BY <1>1, <1>2, <1>3 DEF Next

-----------------------------------------------------------------------------
\* Where next looks for a flow file, one starts: what was read ends with one.
LEMMA Boundary == IInv => AtBoundary
<1> SUFFICES ASSUME IInv, Undisturbed, phase = "first", at < landed, at < Sound PROVE Starts(at + 1)
  BY DEF AtBoundary
<1>2. Len(wire) \in Nat /\ landed \in Nat /\ landed <= Len(wire) /\ at \in 0 .. landed /\ Sound \in Nat
  <2>1. WriterIInv /\ Len(wire) \in Nat
    BY Numbers DEF IInv, WriterIInv
  <2>2. landed \in Nat /\ landed <= Len(wire)
    BY <2>1 DEF WriterIInv, WireTypeOK
  <2>3. Sound \in Nat
    BY <2>1, SoundPlaces DEF WriterIInv, SoundIsBeginning
  <2> QED
    BY <2>1, <2>2, <2>3 DEF IInv, ReaderIInv, ReaderTypeOK
<1>1. WriterIInv /\ AtEnd
  BY <1>2 DEF IInv, Placed, CutShort
<1>3. at \in 0 .. Len(wire) /\ at + 1 <= Sound
  BY <1>2
<1> QED
  BY <1>1, <1>3, ReadFirst DEF AtEnd

\* What may still be read of a content is the rest of it, as RestOfFlowFile
\* has it of the byte read last.
LEMMA RestIsOwn == IInv => OwnContent
<1> SUFFICES ASSUME IInv, Undisturbed, phase \in {"idle", "memory"}, ~done, current # 0,
                    NEW n \in 1 .. unread, at + n <= Sound
             PROVE  wire[at + n] = <<current, Header + size - unread + n>>
  BY DEF OwnContent
<1>1. WriterIInv /\ InContent
  BY DEF IInv, Placed, CutShort
<1>2. at > 0 /\ size = declared[current] /\ wire[at] = <<current, Header + size - unread + 0>>
  BY <1>1 DEF InContent
<1>3. /\ Len(wire) \in Nat /\ landed \in Nat /\ landed <= Len(wire) /\ at \in 0 .. landed
      /\ Header \in Nat /\ size \in Nat /\ unread \in 0 .. size
  <2>1. Len(wire) \in Nat
    BY <1>1, Numbers DEF WriterIInv
  <2>2. landed \in Nat /\ landed <= Len(wire)
    BY <1>1, <2>1 DEF WriterIInv, WireTypeOK
  <2> QED
    BY <2>1, <2>2, WireAssumption DEF IInv, ReaderIInv, ReaderTypeOK
<1>4. at \in 1 .. Len(wire) /\ n \in Nat
  BY <1>2, <1>3
<1>5. Header + size - unread + 0 + n <= Header + size /\ Header + size - unread + 0 + n = Header + size - unread + n
  BY <1>3
<1>6. wire[at][1] = current /\ wire[at][2] = Header + size - unread + 0
  BY <1>2
<1>7. wire[at][2] + n <= Header + declared[wire[at][1]]
  BY <1>2, <1>5, <1>6
<1>8. wire[at + n] = <<wire[at][1], wire[at][2] + n>>
  BY <1>1, <1>4, <1>7, RestOfFlowFile DEF WriterIInv
<1> QED
  BY <1>5, <1>6, <1>8

\* The bytes of a content that arrived are as many as was reported: they are
\* the last of what was read.
LEMMA Exact == IInv => MismatchIsExact
<1> DEFINE told == mismatch[2]
           lies == From(current) + Header + 1 .. From(current) + Header + told
           came == {place \in 1 .. landed : wire[place][1] = current /\ wire[place][2] > Header}
<1> SUFFICES ASSUME IInv, Undisturbed, mismatch # <<>>
             PROVE  /\ mismatch[1] = declared[current] /\ told < mismatch[1]
                    /\ IF mode = "driven" THEN told <= Cardinality(came) ELSE told = Cardinality(came)
  BY DEF MismatchIsExact
<1>1. WriterIInv
  BY DEF IInv
<1>2. /\ current # 0 /\ mismatch[1] = declared[current]
      /\ told \in Nat /\ told < mismatch[1]
      /\ mode # "driven" => at = landed /\ wire[at] = <<current, Header + told>>
  BY DEF IInv, Reported
<1>13. PICK place \in 1 .. at : wire[place][1] = current /\ Header + told <= wire[place][2]
  BY DEF IInv, Reported
<1>3. /\ Len(wire) \in Nat /\ landed \in Nat /\ landed <= Len(wire) /\ at \in 0 .. landed /\ Header \in Nat
  <2>1. Len(wire) \in Nat
    BY <1>1, Numbers DEF WriterIInv
  <2>2. landed \in Nat /\ landed <= Len(wire)
    BY <1>1, <2>1 DEF WriterIInv, WireTypeOK
  <2> QED
    BY <2>1, <2>2, WireAssumption DEF IInv, ReaderIInv, ReaderTypeOK
<1>4. place \in 1 .. Len(wire) /\ place \in Nat /\ place <= landed
  BY <1>3
<1>5. /\ current \in 1 .. Part /\ wire[place][2] \in 1 .. PutOf(current)
      /\ place = From(current) + wire[place][2]
  BY <1>1, <1>4, <1>13 DEF WriterIInv, Layout
<1>6. PutOf(current) \in Nat /\ From(current) \in Nat /\ wire[place][2] \in Nat
  <2>1. PutOf(current) \in Nat /\ From(current) \in Nat
    BY <1>1, <1>5, Numbers DEF WriterIInv
  <2> QED
    BY <1>5, <2>1
<1>8. lies \subseteq came
  <2> SUFFICES ASSUME NEW p \in lies PROVE p \in came
    OBVIOUS
  <2>1. PICK k \in Nat : k > Header /\ k <= Header + told /\ p = From(current) + k
    <3> DEFINE f == From(current)
    <3>1. p - f \in Nat /\ p - f > Header /\ p - f <= Header + told /\ p = f + (p - f)
      <4>1. f \in Nat /\ p \in f + Header + 1 .. f + Header + told
        BY <1>6
      <4> HIDE DEF f
      <4> QED
        BY <1>2, <1>3, <4>1
    <3> QED
      BY <3>1
  <2>2. k \in 1 .. PutOf(current) /\ From(current) + k <= landed /\ From(current) + k \in Int
        /\ From(current) + k >= 1
    <3> DEFINE f == From(current)
               b == wire[place][2]
               m == told
               q == PutOf(current)
    <3>1. /\ f \in Nat /\ b \in Nat /\ m \in Nat /\ q \in Nat /\ k \in Nat /\ Header \in Nat
          /\ place \in Nat /\ landed \in Nat /\ place <= landed
      BY <1>2, <1>3, <1>4, <1>6
    <3>3. k > Header /\ k <= Header + m /\ Header + m <= b /\ place = f + b
      BY <1>5, <1>13, <2>1
    <3>4. b <= q
      BY <1>5, <1>6
    <3>5. k \in 1 .. q /\ f + k <= landed /\ f + k \in Int /\ f + k >= 1
      <4> HIDE DEF f, b, m, q
      <4> QED
        BY <3>1, <3>3, <3>4
    <3> QED
      BY <3>5
  <2>3. wire[From(current) + k] = <<current, k>>
    BY <1>1, <1>5, <2>2 DEF WriterIInv, Layout
  <2> QED
    BY <2>1, <2>2, <2>3
<1>9. IsFiniteSet(came) /\ Cardinality(came) \in Nat
  <2>1. came \subseteq 1 .. landed
    OBVIOUS
  <2> HIDE DEF came
  <2>2. came \in SUBSET (1 .. landed) /\ IsFiniteSet(1 .. landed)
    BY <1>3, <2>1, FromOne
  <2>3. IsFiniteSet(came)
    BY <2>2, FS_Subset
  <2> QED
    BY <2>3, FS_CardinalityType
<1>10. Cardinality(lies) = told
  <2> DEFINE f == From(current)
             m == told
             first == f + Header + 1
             last == f + Header + m
  <2>1. f \in Nat /\ m \in Nat
    BY <1>2, <1>6
  <2> HIDE DEF f, m
  <2>2. /\ first \in Int /\ last \in Int
        /\ m = 0 => first > last
        /\ m # 0 => ~(first > last) /\ last - first + 1 = m
    BY <1>3, <2>1
  <2>3. Cardinality(first .. last) = IF first > last THEN 0 ELSE last - first + 1
    <3> HIDE DEF first, last
    <3> QED
      BY <2>2, FS_Interval
  <2>4. Cardinality(first .. last) = m
    <3> HIDE DEF first, last
    <3>1. CASE m = 0
      BY <2>2, <2>3, <3>1
    <3>2. CASE m # 0
      BY <2>2, <2>3, <3>2
    <3> QED
      BY <3>1, <3>2
  <2> QED
    BY <2>4 DEF f, m
<1>11. told <= Cardinality(came)
  <2> HIDE DEF told, lies, came
  <2> QED
    BY <1>8, <1>9, <1>10, FS_Subset
<1>12. ASSUME mode # "driven" PROVE told = Cardinality(came)
  <2>1. at = landed /\ wire[at] = <<current, Header + told>> /\ at \in 1 .. Len(wire)
    BY <1>2, <1>3, <1>12, <1>13
  <2>4. at = From(current) + (Header + told)
    BY <1>1, <2>1 DEF WriterIInv, Layout
  <2>2. ASSUME NEW p \in came PROVE p \in lies
    <3>1. p \in 1 .. Len(wire) /\ p <= at /\ wire[p][1] = current /\ wire[p][2] > Header
      BY <1>3, <2>1
    <3>2. wire[p][2] \in 1 .. PutOf(current) /\ p = From(current) + wire[p][2]
      BY <1>1, <3>1 DEF WriterIInv, Layout
    <3> DEFINE f == From(current)
               k == wire[p][2]
               m == told
    <3>3. f \in Nat /\ k \in Nat /\ p = f + k /\ k > Header /\ at = f + (Header + m) /\ p <= at /\ m \in Nat
      BY <1>2, <1>6, <2>4, <3>1, <3>2
    <3>4. p \in f + Header + 1 .. f + Header + m
      <4> HIDE DEF f, k, m
      <4> QED
        BY <1>3, <3>3
    <3> QED
      BY <3>4
  <2>3. came = lies
    <3> HIDE DEF came, lies
    <3> QED
      BY <1>8, <2>2
  <2> QED
    BY <1>10, <2>3
<1> QED
  BY <1>2, <1>11, <1>12

\* A clean end is behind everything that landed, and behind a flow file.
LEMMA EndsClean == IInv => EndsBetweenFlowFiles
<1> SUFFICES ASSUME IInv, Undisturbed, verdict = "end"
             PROVE  at = landed /\ (landed > 0 => Ends(landed) \/ (mode = "driven" /\ mismatch # <<>>))
  BY DEF EndsBetweenFlowFiles
<1>1. at = landed /\ (AtEnd \/ CutShort)
  BY DEF IInv, ReaderIInv, Stopped, Placed
<1> QED
  BY <1>1 DEF AtEnd, CutShort

\* When a stream that was finished without a failure was read to its end, no
\* flow file is torn but the one skip_content has reported: the first that is
\* would be the last one on the wire, and the end would not be the end of it.
LEMMA NoneElseTorn ==
  ASSUME IInv, Undisturbed, finished, verdict = "end"
  PROVE  at = Len(wire) /\ \A i \in Torn : i = current /\ mismatch # <<>>
<1>1. WriterIInv
  BY DEF IInv
<1>2. at = landed /\ landed = Len(wire) /\ (AtEnd \/ CutShort) /\ at <= Sound
  BY DEF IInv, WriterIInv, Closed, ReaderIInv, Stopped, Placed, Undisturbed
<1>3. Len(wire) \in Nat /\ SoundIsBeginning
  BY <1>1, Numbers, SoundPlaces DEF WriterIInv
<1>4. ASSUME NEW i \in Torn PROVE i = current /\ mismatch # <<>>
  <2>1. i \in 1 .. Part /\ PutOf(i) \in 1 .. Header + declared[i] - 1
    BY <1>1 DEF Torn, WriterIInv, WriterTypeOK
  <2>2. PutOf(i) \in Nat /\ From(i) \in Nat /\ declared[i] \in Nat /\ Header \in Nat
    BY <1>1, <2>1, Numbers, WireAssumption DEF WriterIInv
  <2>3. PutOf(i) >= 1 /\ PutOf(i) < Header + declared[i]
    BY <2>1, <2>2
  <2>4. From(i) + 1 \in 1 .. Len(wire) /\ wire[From(i) + 1][1] = i
    <3>1. 1 \in 1 .. PutOf(i)
      BY <2>2, <2>3
    <3>2. From(i) + 1 \in 1 .. Len(wire) /\ wire[From(i) + 1] = <<i, 1>>
      BY <1>1, <2>1, <3>1 DEF WriterIInv, Layout
    <3> QED
      BY <3>2
  <2>5. at \in 1 .. Len(wire) /\ at # 0 /\ From(i) + 1 <= at
    BY <1>2, <1>3, <2>2, <2>4
  <2>6. wire[at][1] <= i
    BY <1>2, <1>3, <2>5 DEF SoundIsBeginning
  <2>7. i <= wire[at][1]
    BY <1>1, <2>4, <2>5, InOrder DEF WriterIInv
  <2>8. wire[at][1] \in 1 .. Part /\ wire[at][2] \in 1 .. PutOf(wire[at][1]) /\ Part \in Nat
    BY <1>1, <2>5, Numbers DEF WriterIInv, Layout
  <2>9. wire[at][1] = i
    <3> DEFINE j == wire[at][1]
    <3>1. j \in 1 .. Part /\ j <= i /\ i <= j
      BY <2>6, <2>7, <2>8
    <3>2. j = i
      <4> HIDE DEF j
      <4> QED
        BY <2>1, <2>8, <3>1
    <3> QED
      BY <3>2
  <2>10. ~AtEnd
    <3>1. Header + declared[i] \notin 1 .. PutOf(i)
      BY <2>2, <2>3
    <3> QED
      BY <2>5, <2>8, <2>9, <3>1 DEF AtEnd, Ends
  <2> QED
    BY <1>2, <2>9, <2>10 DEF CutShort
<1> QED
  BY <1>2, <1>4

\* Those read are then the flow files that were not abandoned, and of the
\* abandoned ones those that were out, or reported.
LEMMA AllIsRead == IInv => NothingLost
<1> DEFINE complete == {i \in abandoned : PutOf(i) = Header + declared[i] \/ (i = current /\ mismatch # <<>>)}
           kept == (1 .. Part) \ abandoned
<1> SUFFICES ASSUME IInv, Undisturbed, finished, ~poisoned, verdict = "end"
             PROVE  handed = count + Cardinality(complete)
  BY DEF NothingLost
<1>1. WriterIInv /\ Settled
  BY DEF IInv, Settled
<1>2. at = Len(wire) /\ \A i \in Torn : i = current /\ mismatch # <<>>
  BY NoneElseTorn
<1>3. Len(wire) \in Nat /\ Part \in Nat /\ Header \in Nat /\ Header > 1
  BY <1>1, Numbers, WireAssumption DEF WriterIInv
<1>4. Cardinality(Seen) = handed
  <2>1. Cardinality(Seen) = handed + Begun
    BY DEF IInv, Tallied
  <2>2. phase = "idle" /\ handed \in Nat
    <3>1. landed \in Nat
      BY <1>1, <1>3 DEF WriterIInv, WireTypeOK
    <3> QED
      BY <3>1 DEF IInv, ReaderIInv, ReaderTypeOK, Stopped
  <2> QED
    BY <2>1, <2>2 DEF Begun
<1>5. ASSUME NEW i \in 1 .. Part PROVE PutOf(i) \in Nat /\ declared[i] \in Nat /\ PutOf(i) <= Header + declared[i]
  BY <1>1, Numbers DEF WriterIInv, Written
<1>6. ASSUME NEW i \in Seen PROVE i \in 1 .. Part /\ PutOf(i) >= 1
  <2>1. PICK p \in 1 .. Len(wire) : i = wire[p][1]
    BY <1>2 DEF Seen
  <2>2. i \in 1 .. Part /\ wire[p][2] \in 1 .. PutOf(i)
    BY <1>1, <2>1 DEF WriterIInv, Layout
  <2> QED
    BY <1>5, <2>2
<1>7. ASSUME NEW i \in 1 .. Part, PutOf(i) >= 1 PROVE i \in Seen
  <2>1. 1 \in 1 .. PutOf(i)
    BY <1>5, <1>7
  <2>2. From(i) + 1 \in 1 .. Len(wire) /\ wire[From(i) + 1] = <<i, 1>>
    BY <1>1, <2>1 DEF WriterIInv, Layout
  <2>3. wire[From(i) + 1][1] = i
    BY <2>2
  <2> QED
    BY <1>2, <2>2, <2>3, Zenon DEF Seen
<1>8. abandoned \subseteq 1 .. Part
  BY <1>1 DEF WriterIInv, WriterTypeOK
<1>9. ASSUME NEW i \in kept PROVE i \in Seen
  <2>1. i \in 1 .. Part /\ PutOf(i) = Header + declared[i]
    BY <1>1 DEF WriterIInv, Written
  <2>2. PutOf(i) >= 1
    BY <1>3, <1>5, <2>1
  <2> QED
    BY <1>7, <2>1, <2>2
<1>10. ASSUME NEW i \in complete PROVE i \in Seen
  <2>1. CASE PutOf(i) = Header + declared[i]
    <3>1. i \in 1 .. Part
      BY <1>8
    <3>2. PutOf(i) >= 1
      BY <1>3, <1>5, <2>1, <3>1
    <3> QED
      BY <1>7, <3>1, <3>2
  <2>2. CASE i = current /\ mismatch # <<>>
    <3>1. \E place \in 1 .. at : wire[place][1] = current
      BY <2>2 DEF IInv, Reported
    <3> QED
      BY <2>2, <3>1 DEF Seen
  <2> QED
    BY <2>1, <2>2
<1>11. ASSUME NEW i \in Seen, i \in abandoned PROVE i \in complete
  <2>1. i \in 1 .. Part /\ PutOf(i) >= 1
    BY <1>6
  <2>2. CASE PutOf(i) \in 1 .. Header + declared[i] - 1
    <3>1. i \in Torn
      BY <1>11, <2>2 DEF Torn
    <3> QED
      BY <1>2, <1>11, <3>1
  <2>3. CASE PutOf(i) \notin 1 .. Header + declared[i] - 1
    <3> DEFINE x == PutOf(i)
               full == Header + declared[i]
    <3>1. x \in Nat /\ full \in Nat /\ x <= full /\ x >= 1 /\ x \notin 1 .. full - 1
      BY <1>3, <1>5, <2>1, <2>3
    <3>2. x = full
      <4> HIDE DEF x, full
      <4> QED
        BY <3>1
    <3> QED
      BY <1>11, <3>2
  <2> QED
    BY <2>2, <2>3
<1>12. Seen = kept \union complete
  <2>1. \A i \in Seen : i \in kept \/ i \in complete
    BY <1>6, <1>11
  <2> QED
    BY <1>9, <1>10, <2>1
<1>13. /\ IsFiniteSet(abandoned) /\ Cardinality(abandoned) \in Nat
       /\ IsFiniteSet(complete) /\ Cardinality(complete) \in Nat
  <2>1. IsFiniteSet(abandoned) /\ Cardinality(abandoned) \in Nat
    BY <1>1, AbandonedCount DEF WriterIInv
  <2>2. complete \in SUBSET abandoned
    OBVIOUS
  <2> HIDE DEF complete
  <2>3. IsFiniteSet(complete)
    BY <2>1, <2>2, FS_Subset
  <2> QED
    BY <2>1, <2>3, FS_CardinalityType
<1>14. IsFiniteSet(kept) /\ Cardinality(kept) = Part - Cardinality(abandoned)
  <2>1. IsFiniteSet(1 .. Part) /\ Cardinality(1 .. Part) = Part
    BY <1>3, FromOne
  <2>2. /\ IsFiniteSet(kept)
        /\ Cardinality(kept) = Cardinality(1 .. Part) - Cardinality((1 .. Part) \cap abandoned)
    BY <2>1, FS_Difference
  <2>3. (1 .. Part) \cap abandoned = abandoned
    BY <1>8
  <2> QED
    BY <2>1, <2>2, <2>3
<1>15. Cardinality(Seen) = Cardinality(kept) + Cardinality(complete)
  <2>1. kept \cap complete = {}
    OBVIOUS
  <2> HIDE DEF kept, complete
  <2>2. Cardinality(kept \union complete)
          = Cardinality(kept) + Cardinality(complete) - Cardinality(kept \cap complete)
    BY <1>13, <1>14, FS_Union
  <2>3. Cardinality(kept \cap complete) = 0
    BY <2>1, FS_EmptySet
  <2>4. Cardinality(kept) \in Nat
    BY <1>14, FS_CardinalityType
  <2> QED
    BY <1>12, <1>13, <2>2, <2>3, <2>4
<1>16. count + Cardinality(abandoned) = Part /\ count \in Nat
  BY <1>1, <1>3 DEF WriterIInv, Counted, WriterTypeOK
<1> QED
  <2> HIDE DEF kept, complete
  <2> QED
    BY <1>3, <1>4, <1>13, <1>14, <1>15, <1>16

-----------------------------------------------------------------------------
\* So the invariant holds throughout.
LEMMA Invariant == Spec => []IInv
<1> QED
  BY TransferInitial, TransferInductive, PTL DEF Spec

\* The fields of the writers and the readers, the locals of next, and the
\* wire keep to their types.
THEOREM TypeCorrect == Spec => []TypeOK
<1>1. IInv => TypeOK
  BY DEF IInv, WriterIInv, ReaderIInv, TypeOK
<1> QED
  BY <1>1, Invariant, PTL

\* Between two calls of a writer that does not say it is poisoned (poisoned
\* in FlowFilesWriter), the wire holds whole flow files, in order, and as
\* many as were counted, up to a flow file whose write was dropped half-way.
THEOREM WrittenWhole == Spec => []WholeUnlessPoisoned
<1>1. IInv => WholeUnlessPoisoned
  BY Whole DEF IInv
<1> QED
  BY <1>1, Invariant, PTL

\* next looks for a flow file only where one starts, however much the caller
\* has read of the one before.
THEOREM ReadsAtBoundaries == Spec => []AtBoundary
  BY Boundary, Invariant, PTL

\* What the caller may still read of a content is the rest of that content.
THEOREM ReadsItsOwn == Spec => []OwnContent
  BY RestIsOwn, Invariant, PTL

\* SizeMismatch says what the header declared and how much of that arrived.
THEOREM MismatchTrue == Spec => []MismatchIsExact
  BY Exact, Invariant, PTL

\* A stream ends cleanly only where a flow file does, or within one that
\* skip_content has reported.
THEOREM CleanEnd == Spec => []EndsBetweenFlowFiles
  BY EndsClean, Invariant, PTL

\* A stream that was finished without a failure, read to a clean end, is
\* every flow file the writer counted, and those that were out when their
\* write was dropped, or were reported to be cut short.
THEOREM AllArrives == Spec => []NothingLost
  BY AllIsRead, Invariant, PTL

-----------------------------------------------------------------------------
\* How far a call of next is.  Between two calls it counts whether there is
\* something to skip first.
CallRank ==
  CASE phase = "first"   -> 3
    [] phase = "header"  -> 4
    [] phase = "memory"  -> 5
    [] phase = "discard" -> 1
    [] OTHER             -> IF inHand \/ (mode = "streaming" /\ unread > 0) THEN 0 ELSE 2

\* How far the reader is: in the stream, in its flow files, and in its call.
Gone == at + 6 * handed + (IF done THEN 6 ELSE CallRank)

LEMMA GoneIs ==
  ASSUME WireTypeOK, Len(wire) \in Nat, ReaderIInv
  PROVE  /\ landed \in Nat /\ at \in 0 .. landed /\ handed \in 0 .. at /\ CallRank \in 0 .. 5
         /\ Gone \in 0 .. 7 * landed + 6
<1>1. landed \in Nat /\ at \in 0 .. landed /\ handed \in 0 .. at
  BY DEF ReaderIInv, ReaderTypeOK, WireTypeOK
<1>2. CallRank \in 0 .. 5
  BY DEF CallRank
<1> QED
  BY <1>1, <1>2 DEF Gone

\* A call of next that goes on, ends or is begun, and a caller that reads,
\* take the reader further.
LEMMA GoesFurther ==
  ASSUME WireTypeOK, Len(wire) \in Nat, ReaderIInv, ReaderNext, ~NextCancelled
  PROVE  Gone' > Gone
<1>1. landed \in Nat /\ at \in 0 .. landed /\ handed \in 0 .. at /\ CallRank \in 0 .. 5
  BY GoneIs
<1>2. CallRank' \in 0 .. 5
  BY DEF CallRank
<1>3. PICK k \in 0 .. 5 : CallRank' = k
  BY <1>2
\* A read, a call that is begun, and a step of one that takes nothing.
<1>4. ASSUME ~done, UNCHANGED done, UNCHANGED handed, NEW n \in Nat, at' = at + n,
             CallRank' > CallRank \/ (n > 0 /\ CallRank' >= CallRank)
      PROVE  Gone' > Gone
  BY <1>1, <1>3, <1>4 DEF Gone
\* A call that returns a flow file, and one that ends the stream.
<1>5. ASSUME ~done, UNCHANGED done, UNCHANGED at, handed' = handed + 1
      PROVE  Gone' > Gone
  BY <1>1, <1>3, <1>5 DEF Gone
<1>6. ASSUME ~done, done' = TRUE, UNCHANGED <<at, handed>>
      PROVE  Gone' > Gone
  BY <1>1, <1>6 DEF Gone
<1>7. ~done \/ phase = "idle"
  BY DEF ReaderIInv, Stopped
<1>8. unread \in Nat
  BY WireAssumption DEF ReaderIInv, ReaderTypeOK
<1>9. CASE CallNext
  <2>1. ~done /\ UNCHANGED <<done, handed, at>>
    BY <1>9 DEF CallNext, resultVars
  <2>2. phase = "idle" /\ (phase' = IF mode = "streaming" /\ unread > 0 THEN "discard" ELSE "first")
    BY <1>9 DEF CallNext
  <2>3. CallRank' > CallRank
    BY <1>9, <2>2 DEF CallNext, CallRank
  <2> QED
    BY <1>1, <1>4, <2>1, <2>3
<1>10. CASE SkipContent
  <2>1. ~done /\ UNCHANGED <<done, handed, at>>
    BY <1>10 DEF SkipContent, resultVars
  <2>2. CallRank' > CallRank
    BY <1>10 DEF SkipContent, CallRank
  <2> QED
    BY <1>1, <1>4, <2>1, <2>2
<1>11. CASE Discard \/ ReadHeader \/ ReadMemory
  <2>1. ~done /\ UNCHANGED <<done, handed, phase>> /\ phase \in {"discard", "header", "memory"}
    BY <1>7, <1>11 DEF Discard, ReadHeader, ReadMemory, resultVars
  <2>2. \E room \in Int : \E n \in Arrivals(room) : at' = at + n
    <3>1. taken \in Int /\ unread \in Int /\ Header \in Int
      BY <1>8, <1>11, WireAssumption DEF ReaderIInv, ReaderTypeOK, Discard, ReadHeader, ReadMemory
    <3> QED
      BY <1>11, <3>1 DEF Discard, ReadHeader, ReadMemory, Take
  <2>3. PICK n \in Nat : n > 0 /\ at' = at + n
    BY <1>1, <2>2, ArrivalsFit
  <2>4. CallRank' = CallRank
    BY <2>1 DEF CallRank
  <2> QED
    BY <1>1, <1>4, <2>1, <2>3, <2>4
<1>12. CASE DiscardEnds
  <2>1. phase = "discard" /\ ~inHand' /\ unread' = 0 /\ ~done /\ UNCHANGED <<mode, at, handed>>
    BY <1>7, <1>12 DEF DiscardEnds, ReaderIInv, ReaderTypeOK
  <2>2. \/ phase' \in {"idle", "first"} /\ UNCHANGED done
        \/ done' = TRUE
    BY <1>12, Zenon DEF DiscardEnds, SkipReturns, Stop, resultVars
  <2>3. CASE phase' \in {"idle", "first"} /\ UNCHANGED done
    <3>1. CallRank' > CallRank
      BY <2>1, <2>3 DEF CallRank
    <3> QED
      BY <1>1, <1>4, <2>1, <2>3, <3>1
  <2> QED
    BY <1>6, <2>1, <2>2, <2>3
<1>13. CASE FirstByte
  <2>1. ~done /\ UNCHANGED <<done, handed>> /\ at' = at + 1
    BY <1>7, <1>13 DEF FirstByte, resultVars
  <2>2. CallRank' > CallRank
    BY <1>13 DEF FirstByte, CallRank
  <2> QED
    BY <1>4, <2>1, <2>2
<1>14. CASE HeaderParsed \/ HeaderMisread
  <2>1. ~done /\ phase = "header" /\ UNCHANGED <<done, at>>
    BY <1>7, <1>14 DEF HeaderParsed, HeaderMisread, resultVars
  <2>2. handed' = handed + 1 \/ (phase' = "memory" /\ handed' = handed)
    BY <1>14 DEF HeaderParsed, HeaderMisread, Parsed
  <2>3. CASE phase' = "memory" /\ handed' = handed
    <3>1. CallRank' > CallRank
      BY <2>1, <2>3 DEF CallRank
    <3> QED
      BY <1>1, <1>4, <2>1, <2>3, <3>1
  <2> QED
    BY <1>5, <2>1, <2>2, <2>3
<1>15. CASE MemoryEnds
  <2>1. ~done /\ UNCHANGED at
    BY <1>7, <1>15 DEF MemoryEnds
  <2>2. (handed' = handed + 1 /\ UNCHANGED done) \/ (handed' = handed /\ done' = TRUE)
    BY <1>15 DEF MemoryEnds, Stop, resultVars
  <2> QED
    BY <1>5, <1>6, <2>1, <2>2
<1>16. CASE StreamEnds \/ HeaderCutShort \/ NextFails
  <2>1. ~done /\ done' = TRUE /\ UNCHANGED <<at, handed>>
    BY <1>7, <1>16 DEF StreamEnds, HeaderCutShort, NextFails, Stop
  <2> QED
    BY <1>6, <2>1
<1>17. CASE ReadContent
  <2>1. /\ ~done /\ phase = "idle" /\ inHand
        /\ UNCHANGED <<done, handed, phase, mode, inHand>>
    BY <1>17 DEF ReadContent, resultVars
  <2>2. PICK n \in Arrivals(unread) : at' = at + n
    BY <1>17 DEF ReadContent
  <2>3. n \in Nat /\ n > 0
    BY <1>1, <1>8, <2>2, ArrivalsFit
  <2>4. CallRank = 0
    BY <2>1 DEF CallRank
  <2> QED
    BY <1>1, <1>2, <1>4, <2>1, <2>2, <2>3, <2>4
<1> QED
  BY <1>9, <1>10, <1>11, <1>12, <1>13, <1>14, <1>15, <1>16, <1>17 DEF ReaderNext, NextSteps

\* A reader cannot go round in circles, whatever it is given: with every step
\* but a call that is dropped it comes further, and the bytes that arrived
\* are as far as it can come.
THEOREM ReadersStop ==
  Spec => /\ [][Gone' > Gone \/ UNCHANGED readerVars \/ NextCancelled]_vars
          /\ [](Gone \in 0 .. 7 * landed + 6)
<1>1. IInv /\ [Next]_vars => [Gone' > Gone \/ UNCHANGED readerVars \/ NextCancelled]_vars
  <2> SUFFICES ASSUME IInv, ReaderNext, ~NextCancelled PROVE Gone' > Gone
    BY DEF Next
  <2> QED
    BY GoesFurther, Numbers DEF IInv, WriterIInv
<1>2. IInv => Gone \in 0 .. 7 * landed + 6
  BY GoneIs, Numbers DEF IInv, WriterIInv
<1> QED
  BY <1>1, <1>2, Invariant, PTL DEF Spec

\* What a call of next needs for a step.
NextCanGoOn ==
  \/ EndOfWire
  \/ at < landed /\ phase = "first"
  \/ at < landed /\ phase = "discard" /\ taken < unread
  \/ at < landed /\ phase = "header" /\ taken < Header
  \/ at < landed /\ phase = "memory" /\ unread > 0
  \/ phase = "discard" /\ taken = unread
  \/ phase = "header" /\ taken = Header
  \/ phase = "memory" /\ unread = 0

\* A call of next waits only for bytes that have yet to arrive: it answers
\* what has arrived, and the end, without another call of the writer.
THEOREM NextWaitsForTheWire ==
  Spec => [](phase # "idle" /\ ~NextCanGoOn => at = landed /\ ~closed)
<1>1. ASSUME IInv, phase # "idle", ~NextCanGoOn PROVE at = landed /\ ~closed
  <2>1. ReaderIInv /\ landed \in Nat
    BY <1>1, Numbers DEF IInv, WriterIInv, WireTypeOK
  <2>2. at \in 0 .. landed /\ unread \in Nat /\ Header \in Nat
    BY <2>1, WireAssumption DEF ReaderIInv, ReaderTypeOK
  <2>3. /\ phase \in {"discard", "first", "header", "memory"}
        /\ phase = "discard" => taken \in 0 .. unread
        /\ phase = "header" => taken \in 0 .. Header
    BY <1>1, <2>1 DEF ReaderIInv, ReaderTypeOK
  <2> QED
    BY <1>1, <2>1, <2>2, <2>3 DEF NextCanGoOn, EndOfWire
<1> QED
  BY <1>1, Invariant, PTL
=============================================================================
