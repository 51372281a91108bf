---------------------------- MODULE SpoolProofs ----------------------------
(***************************************************************************)
(* Proofs about Spool for every content size, pipe size and set of faults. *)
(*                                                                         *)
(* None of the promises is inductive by itself.  IInv joins them through   *)
(* the chain of cursors from the content to the reader (Cursors), what the *)
(* copy owes at each of its steps (CopyAt), what the file and the bytes    *)
(* read back hold (Contents), how old the follow task's snapshot may be    *)
(* (Snapshot), why each task may have stopped (Endings), and what the      *)
(* reader was told (Told).                                                 *)
(***************************************************************************)
EXTENDS Spool, TLAPS

Cursors ==
  /\ got <= sent /\ sent <= position /\ position <= progress.written
  /\ progress.written <= landed /\ landed <= taken /\ taken <= Size
  /\ sent <= got + PipeSize
  /\ position <= sent + PipeSize
  /\ taken <= landed + PipeSize
  /\ at.sink = landed /\ at.source = position

CopyAt ==
  /\ copy = "read" => taken = progress.written
  /\ copy = "write" => landed = progress.written
  /\ copy \in {"write", "flush"} => progress.written < taken

Contents ==
  /\ \A o \in Offsets : o < landed => file[o] = o
  /\ \A o \in Offsets : o < position => bytes[o] = o

Snapshot ==
  /\ saw.written <= progress.written
  /\ follow = "read" => position < saw.written
  /\ follow = "send" => sent < position
  /\ follow \in {"look", "wait", "read"} => sent = position
  /\ follow = "wait" => position = saw.written /\ ~saw.done
  /\ follow = "wait" /\ ~unseen => saw = progress

Failed == failure # None \/ error # None

Endings ==
  /\ progress.done => copy = "done"
  /\ copy = "done" => progress.done \/ dropped
  /\ copy = "end" \/ progress.done => progress.written = Size \/ Failed
  /\ follow \in {"end", "done"} => dropped \/ sent = position
  /\ follow \in {"end", "done"} =>
       \/ dropped \/ Failed
       \/ position = progress.written /\ (progress.done \/ copy = "panicked")

Told ==
  /\ eof /\ error = None =>
       /\ follow = "done" /\ failure = None
       /\ got = progress.written
       /\ copy = "panicked" \/ (progress.done /\ got = Size)
  /\ error # None /\ ~EmptyReads =>
       follow = "done" /\ errorAt = got /\ got = sent /\ sent = position

IInv == TypeOK /\ Cursors /\ CopyAt /\ Contents /\ Snapshot /\ Endings /\ Told

USE SizeAssumption, PipeSizeAssumption, FaultsAssumption, ReadsAssumption
    DEF FaultKinds, Offsets, Hole, None, copyVars, fileVars, watchVars, followVars, readerVars

\* Nothing has moved yet, so every cursor is 0 and nobody was told anything.
LEMMA Initial == Init => IInv
<1> SUFFICES ASSUME Init PROVE IInv
  OBVIOUS
<1>1. TypeOK
  <2>1. 0 \in 0 .. Size
    OBVIOUS
  <2>2. file \in [Offsets -> Offsets \union {Hole}] /\ bytes = file
    BY DEF Init
  <2> QED
    BY <2>1, <2>2 DEF Init, TypeOK
<1>2. Cursors /\ CopyAt
  BY DEF Init, Cursors, CopyAt
<1>3. Contents
  BY DEF Init, Contents
<1>4. Snapshot
  BY DEF Init, Snapshot
<1>5. Endings /\ Told
  BY DEF Init, Endings, Told, Failed
<1> QED
  BY <1>1, <1>2, <1>3, <1>4, <1>5 DEF IInv

\* The copy task, up to the publication of a chunk and of its end.
LEMMA CopyReadKeeps == IInv /\ CopyRead => IInv'
<1> SUFFICES ASSUME IInv, CopyRead PROVE IInv'
  OBVIOUS
<1> USE DEF IInv, CopyRead, TypeOK
<1>1. TypeOK'
  OBVIOUS
<1>2. Cursors' /\ CopyAt'
  BY DEF Cursors, CopyAt
<1>3. Contents' /\ Snapshot'
  BY DEF Contents, Snapshot
<1>4. Endings'
  BY DEF Cursors, CopyAt, Endings, Failed
<1>5. Told'
  BY DEF Told, Endings
<1> QED
  BY <1>1, <1>2, <1>3, <1>4, <1>5

LEMMA LandKeeps == IInv /\ Land => IInv'
<1> SUFFICES ASSUME IInv, Land PROVE IInv'
  OBVIOUS
<1> USE DEF IInv, Land, TypeOK
<1>1. TypeOK'
  <2>1. PICK n \in 1 .. PipeSize :
          /\ landed + n <= taken
          /\ landed' = landed + n
          /\ at' = [at EXCEPT !.sink = @ + n]
    OBVIOUS
  <2>2. landed + n \in 0 .. Size /\ at.sink + n \in 0 .. Size
    BY <2>1 DEF Cursors
  <2>3. file' \in [Offsets -> Offsets \union {Hole}]
    BY DEF Cursors
  <2>4. at' \in [sink : 0 .. Size, source : 0 .. Size]
    BY <2>1, <2>2
  <2> QED
    BY <2>1, <2>2, <2>3, <2>4
<1>2. Cursors' /\ CopyAt'
  BY DEF Cursors, CopyAt
<1>3. Contents'
  <2>1. PICK n \in 1 .. PipeSize :
          /\ landed' = landed + n
          /\ file' = [o \in Offsets |->
                        IF at.sink <= o /\ o < at.sink + n
                        THEN landed + (o - at.sink)
                        ELSE file[o]]
    OBVIOUS
  <2>2. at.sink = landed /\ landed \in Nat
    BY DEF Cursors
  <2>3. ASSUME NEW o \in Offsets, o < landed + n
        PROVE  file'[o] = o
    BY <2>1, <2>2, <2>3 DEF Contents
  <2> QED
    BY <2>1, <2>3 DEF Contents
<1>4. Snapshot'
  BY DEF Snapshot
<1>5. Endings' /\ Told'
  BY DEF Endings, Failed, Told
<1> QED
  BY <1>1, <1>2, <1>3, <1>4, <1>5

\* The other steps of the copy move no bytes: they publish, record or stop.
LEMMA CopyWriteKeeps == IInv /\ CopyWrite => IInv'
<1> SUFFICES ASSUME IInv, CopyWrite PROVE IInv'
  OBVIOUS
<1> USE DEF IInv, CopyWrite, TypeOK
<1>1. TypeOK' /\ Contents' /\ Snapshot' /\ Told'
  BY DEF Contents, Snapshot, Told
<1>2. Cursors' /\ CopyAt'
  BY DEF Cursors, CopyAt
<1>3. Endings'
  BY DEF Endings, Failed
<1> QED
  BY <1>1, <1>2, <1>3

LEMMA CopyFlushKeeps == IInv /\ CopyFlush => IInv'
<1> SUFFICES ASSUME IInv, CopyFlush PROVE IInv'
  OBVIOUS
<1> USE DEF IInv, CopyFlush, Publish, TypeOK
<1>1. TypeOK' /\ Contents'
  BY DEF Contents
<1>2. Cursors' /\ CopyAt'
  BY DEF Cursors, CopyAt
<1>3. Snapshot'
  BY DEF Snapshot, Cursors
<1>4. ~(eof /\ error = None)
  BY DEF Told, Endings
<1>5. ~progress.done
  BY DEF Endings
<1>6. Told'
  BY <1>4 DEF Told
<1>7. Endings'
  BY <1>5 DEF Endings, Failed
<1> QED
  BY <1>1, <1>2, <1>3, <1>6, <1>7

LEMMA CopyEndKeeps == IInv /\ CopyEnd => IInv'
<1> SUFFICES ASSUME IInv, CopyEnd PROVE IInv'
  OBVIOUS
<1> USE DEF IInv, CopyEnd, Publish, TypeOK
<1>1. TypeOK' /\ Contents'
  BY DEF Contents
<1>2. Cursors' /\ CopyAt'
  BY DEF Cursors, CopyAt
<1>3. Snapshot'
  BY DEF Snapshot
<1>4. Endings'
  BY DEF Endings, Failed
<1>5. Told'
  BY DEF Told, Endings
<1> QED
  BY <1>1, <1>2, <1>3, <1>4, <1>5

LEMMA CopyErrorsKeep == IInv /\ CopyErrors => IInv'
<1> SUFFICES ASSUME IInv,
                    NEW step \in {"read", "write", "flush"},
                    NEW fault \in {"source", "write", "flush"},
                    CopyFails(step, fault)
             PROVE  IInv'
  BY DEF CopyErrors
<1> USE DEF IInv, CopyFails, TypeOK
<1>1. TypeOK' /\ Contents' /\ Snapshot'
  BY DEF Contents, Snapshot
<1>2. Cursors' /\ CopyAt'
  BY DEF Cursors, CopyAt
<1>3. Endings'
  BY DEF Endings, Failed
<1>4. Told'
  BY DEF Told, Endings
<1> QED
  BY <1>1, <1>2, <1>3, <1>4

LEMMA CopyStopsKeep == IInv /\ (CopyPanics \/ CopyAborted) => IInv'
<1> SUFFICES ASSUME IInv, CopyPanics \/ CopyAborted PROVE IInv'
  OBVIOUS
<1> USE DEF IInv, CopyPanics, CopyAborted, TypeOK
<1>1. TypeOK' /\ Contents' /\ Snapshot'
  <2>1. /\ copy' \in {"done", "panicked"}
        /\ UNCHANGED <<taken, landed, fileVars, watchVars, followVars, readerVars, failure>>
    OBVIOUS
  <2> QED
    BY <2>1 DEF Contents, Snapshot
<1>2. Cursors' /\ CopyAt'
  BY DEF Cursors, CopyAt
<1>3. Endings'
  BY DEF Endings, Failed
<1>4. Told'
  BY DEF Told, Endings
<1> QED
  BY <1>1, <1>2, <1>3, <1>4

\* The follow task.
LEMMA FollowLookKeeps == IInv /\ FollowLook => IInv'
<1> SUFFICES ASSUME IInv, FollowLook PROVE IInv'
  OBVIOUS
<1> USE DEF IInv, FollowLook, TypeOK
<1>1. TypeOK' /\ Contents'
  BY DEF Contents
<1>2. Cursors' /\ CopyAt'
  BY DEF Cursors, CopyAt
<1>3. Snapshot'
  BY DEF Snapshot, Cursors
<1>4. Endings'
  BY DEF Endings, Failed, Snapshot
<1>5. Told'
  BY DEF Told
<1> QED
  BY <1>1, <1>2, <1>3, <1>4, <1>5

\* A closed channel nobody has published on since the last look: the copy
\* did not end by itself, for its last publication would have been seen.
LEMMA FollowChangedKeeps == IInv /\ FollowChanged => IInv'
<1> SUFFICES ASSUME IInv, FollowChanged PROVE IInv'
  OBVIOUS
<1> USE DEF IInv, FollowChanged, SenderGone, TypeOK
<1>1. TypeOK' /\ Contents'
  BY DEF Contents
<1>2. Cursors' /\ CopyAt'
  BY DEF Cursors, CopyAt
<1>3. Snapshot'
  BY DEF Snapshot
<1>4. Endings'
  <2>1. CASE unseen
    BY <2>1 DEF Endings, Failed
  <2>2. CASE ~unseen
    <3>1. saw = progress /\ ~progress.done /\ position = progress.written
      BY <2>2 DEF Snapshot
    <3>2. dropped \/ copy = "panicked"
      BY <2>2, <3>1 DEF Endings
    <3> QED
      BY <2>2, <3>1, <3>2 DEF Endings, Failed, Snapshot
  <2> QED
    BY <2>1, <2>2
<1>5. Told'
  BY DEF Told
<1> QED
  BY <1>1, <1>2, <1>3, <1>4, <1>5

\* At a read of the file the byte under the source handle is already there,
\* and what the read returns is within the count that was published.
LEMMA ReadableBound ==
  ASSUME IInv, follow = "read"
  PROVE  /\ 0 \notin Readable
         /\ \A n \in Readable : n \in 1 .. PipeSize /\ position + n <= saw.written
<1> USE DEF IInv, TypeOK
<1>1. /\ at.source = position /\ position < saw.written
      /\ saw.written <= landed /\ landed <= Size
  BY DEF Cursors, Snapshot
<1>2. position \in Offsets /\ file[position] = position
  BY <1>1 DEF Contents
<1>3. {o \in Offsets : o >= at.source /\ file[o] # Hole} # {}
  BY <1>1, <1>2
<1>4. Least(saw.written - position, PipeSize) \in 1 .. PipeSize
  BY <1>1 DEF Least
<1>5. Least(saw.written - position, PipeSize) <= saw.written - position
  BY <1>1 DEF Least
<1>6. \A n \in Readable : n \in 1 .. Least(saw.written - position, PipeSize)
  BY <1>3 DEF Readable
<1> QED
  BY <1>1, <1>4, <1>5, <1>6

LEMMA FollowReadKeeps == IInv /\ FollowRead => IInv'
<1> SUFFICES ASSUME IInv, FollowRead PROVE IInv'
  OBVIOUS
<1> USE DEF IInv, TypeOK
<1>1. PICK n \in Readable :
        /\ bytes' = [o \in Offsets |->
                       IF position <= o /\ o < position + n
                       THEN file[at.source + (o - position)]
                       ELSE bytes[o]]
        /\ at' = [at EXCEPT !.source = @ + n]
        /\ position' = position + n
        /\ follow' = IF n = 0 THEN "wait" ELSE "send"
  BY DEF FollowRead
<1>2. /\ follow = "read"
      /\ UNCHANGED <<saw, sent, file, copyVars, watchVars, readerVars, failure>>
  BY DEF FollowRead
<1>3. n \in 1 .. PipeSize /\ position + n <= saw.written /\ follow' = "send"
  BY <1>1, <1>2, ReadableBound
<1>4. /\ at.sink = landed /\ at.source = position /\ sent = position
      /\ saw.written <= progress.written /\ progress.written <= landed
  BY <1>2 DEF Cursors, Snapshot
<1>5. \A o \in Offsets : o < position' => file[o] = o /\ bytes'[o] = o
  <2> SUFFICES ASSUME NEW o \in Offsets, o < position + n
               PROVE  file[o] = o /\ bytes'[o] = o
    BY <1>1
  <2>1. file[o] = o
    BY <1>3, <1>4 DEF Contents
  <2>2. CASE o < position
    BY <2>1, <2>2, <1>1 DEF Contents
  <2>3. CASE ~(o < position)
    BY <2>1, <2>3, <1>1, <1>3, <1>4
  <2> QED
    BY <2>1, <2>2, <2>3
<1>6. TypeOK'
  <2>1. bytes' \in [Offsets -> Offsets \union {Hole}]
    <3> SUFFICES ASSUME NEW o \in Offsets PROVE bytes'[o] \in Offsets \union {Hole}
      BY <1>1
    <3> QED
      BY <1>1, <1>5
  <2>2. position + n \in 0 .. Size
    BY <1>3, <1>4
  <2>3. at' \in [sink : 0 .. Size, source : 0 .. Size]
    BY <1>1, <1>4, <2>2
  <2> QED
    BY <1>1, <1>2, <1>3, <2>1, <2>2, <2>3
<1>7. Cursors' /\ CopyAt'
  BY <1>1, <1>2, <1>3, <1>4 DEF Cursors, CopyAt
<1>8. Contents'
  BY <1>2, <1>5 DEF Contents
<1>9. Snapshot'
  BY <1>1, <1>2, <1>3, <1>4 DEF Snapshot
<1>10. Endings' /\ Told'
  BY <1>2, <1>3 DEF Endings, Failed, Told
<1> QED
  BY <1>6, <1>7, <1>8, <1>9, <1>10

LEMMA FollowFailsKeeps == IInv /\ FollowFails => IInv'
<1> SUFFICES ASSUME IInv, FollowFails PROVE IInv'
  OBVIOUS
<1> USE DEF IInv, FollowFails, TypeOK
<1>1. TypeOK' /\ Contents' /\ Snapshot'
  BY DEF Contents, Snapshot
<1>2. Cursors' /\ CopyAt'
  BY DEF Cursors, CopyAt
<1>3. Endings'
  BY DEF Endings, Failed, Snapshot
<1>4. Told'
  BY DEF Told
<1> QED
  BY <1>1, <1>2, <1>3, <1>4

LEMMA FollowSendKeeps == IInv /\ FollowSend => IInv'
<1> SUFFICES ASSUME IInv, FollowSend PROVE IInv'
  OBVIOUS
<1> USE DEF IInv, TypeOK
<1>1. CASE dropped
  <2>1. TypeOK' /\ Contents' /\ Snapshot'
    BY <1>1 DEF FollowSend, Contents, Snapshot
  <2>2. Cursors' /\ CopyAt'
    BY <1>1 DEF FollowSend, Cursors, CopyAt
  <2>3. Endings' /\ Told'
    BY <1>1 DEF FollowSend, Endings, Failed, Told
  <2> QED
    BY <2>1, <2>2, <2>3
<1>2. CASE ~dropped
  <2> DEFINE n == Least(position - sent, PipeSize - (sent - got))
  <2>1. /\ follow = "send" /\ sent - got < PipeSize
        /\ sent' = sent + n
        /\ follow' = IF sent' = position THEN "look" ELSE "send"
        /\ UNCHANGED <<saw, bytes, position, copyVars, fileVars, watchVars, readerVars, failure>>
    BY <1>2 DEF FollowSend
  <2>2. n \in Nat \ {0} /\ sent + n <= position /\ sent + n <= got + PipeSize
    BY <2>1 DEF Cursors, Snapshot, Least
  <2> HIDE DEF n
  <2>3. TypeOK'
    BY <2>1, <2>2 DEF Cursors
  <2>4. Contents'
    BY <2>1 DEF Contents
  <2>5. Cursors' /\ CopyAt'
    BY <2>1, <2>2 DEF Cursors, CopyAt
  <2>6. Snapshot'
    BY <2>1, <2>2 DEF Snapshot
  <2>7. Endings' /\ Told'
    BY <2>1 DEF Endings, Failed, Told
  <2> QED
    BY <2>3, <2>4, <2>5, <2>6, <2>7
<1> QED
  BY <1>1, <1>2

LEMMA FollowStopsKeep == IInv /\ (FollowShutdown \/ FollowAborted) => IInv'
<1> SUFFICES ASSUME IInv, FollowShutdown \/ FollowAborted PROVE IInv'
  OBVIOUS
<1> USE DEF IInv, FollowShutdown, FollowAborted, TypeOK
<1>1. TypeOK' /\ Contents' /\ Snapshot'
  BY DEF Contents, Snapshot
<1>2. Cursors' /\ CopyAt'
  BY DEF Cursors, CopyAt
<1>3. Endings'
  BY DEF Endings, Failed
<1>4. Told'
  BY DEF Told
<1> QED
  BY <1>1, <1>2, <1>3, <1>4

\* The reader.  A read that adds nothing and finds the slot empty is an end:
\* the pipe is empty, the follow task gone, and nobody failed.
LEMMA ReadKeeps == IInv /\ ReaderReads => IInv'
<1> SUFFICES ASSUME IInv, NEW room \in Rooms, Read(room) PROVE IInv'
  BY DEF ReaderReads
<1> USE DEF IInv, TypeOK
<1> DEFINE n == Least(room, sent - got)
<1>1. /\ ~dropped /\ PipeReady /\ got' = got + n
      /\ UNCHANGED <<dropped, copyVars, fileVars, watchVars, followVars>>
  BY DEF Read
<1>2. room \in Nat /\ (EmptyReads \/ room # 0)
  BY DEF Rooms
<1>3. n \in Nat /\ got + n <= sent
  BY <1>2 DEF Least, Cursors
<1>4. n = 0 /\ room # 0 => sent = got /\ follow = "done"
  BY <1>1, <1>2 DEF Least, PipeReady, Cursors
<1>5. \/ /\ n = 0 /\ failure # None /\ failure' = None
         /\ error'   = IF error = None THEN failure ELSE error
         /\ errorAt' = IF error = None THEN got ELSE errorAt
         /\ eof' = eof
      \/ /\ n = 0 => failure = None
         /\ eof' = (eof \/ (n = 0 /\ room > 0))
         /\ UNCHANGED <<failure, error, errorAt>>
  BY DEF Read
<1> HIDE DEF n
<1>6. TypeOK'
  <2>1. got' \in 0 .. Size
    BY <1>1, <1>3 DEF Cursors
  <2>2. /\ failure' \in Faults \union {None} /\ error' \in Faults \union {None}
        /\ errorAt' \in 0 .. Size
    BY <1>5
  <2>3. eof' \in BOOLEAN
    BY <1>5
  <2> QED
    BY <1>1, <2>1, <2>2, <2>3
<1>7. Cursors' /\ CopyAt'
  BY <1>1, <1>3 DEF Cursors, CopyAt
<1>8. Contents' /\ Snapshot'
  BY <1>1 DEF Contents, Snapshot
<1>9. Endings'
  BY <1>1, <1>5 DEF Endings, Failed
<1>10. Told'
  <2>1. ASSUME eof', error' = None
        PROVE  /\ follow = "done" /\ failure' = None /\ got' = progress.written
               /\ copy = "panicked" \/ (progress.done /\ got' = Size)
    <3>1. error = None /\ UNCHANGED failure
      BY <1>5, <2>1
    <3>2. CASE eof
      BY <1>1, <1>3, <3>1, <3>2 DEF Told, Cursors
    <3>3. CASE ~eof
      <4>1. n = 0 /\ room > 0 /\ failure = None
        BY ONLY <1>5, <2>1, <3>3
      <4>0. room # 0
        BY <1>2, <4>1
      <4>2. sent = got /\ follow = "done" /\ sent = position
        BY <1>1, <1>4, <4>0, <4>1 DEF Endings
      <4>3. position = progress.written /\ (progress.done \/ copy = "panicked")
        BY <1>1, <3>1, <4>1, <4>2 DEF Endings, Failed
      <4> QED
        BY <1>1, <1>3, <3>1, <4>1, <4>2, <4>3 DEF Endings, Failed
    <3> QED
      BY <3>2, <3>3
  <2>2. ASSUME error' # None, ~EmptyReads
        PROVE  follow = "done" /\ errorAt' = got' /\ got' = sent /\ sent = position
    <3>1. CASE error # None
      BY <1>1, <1>3, <1>5, <2>2, <3>1 DEF Told, Cursors
    <3>2. CASE error = None
      BY <1>1, <1>2, <1>4, <1>5, <2>2, <3>2 DEF Endings
    <3> QED
      BY <3>1, <3>2
  <2> QED
    BY <1>1, <2>1, <2>2 DEF Told
<1> QED
  BY <1>6, <1>7, <1>8, <1>9, <1>10

LEMMA DropKeeps == IInv /\ Drop => IInv'
<1> SUFFICES ASSUME IInv, Drop PROVE IInv'
  OBVIOUS
<1> USE DEF IInv, Drop, TypeOK
<1>1. TypeOK' /\ Contents' /\ Snapshot'
  BY DEF Contents, Snapshot
<1>2. Cursors' /\ CopyAt'
  BY DEF Cursors, CopyAt
<1>3. Endings' /\ Told'
  BY DEF Endings, Failed, Told
<1> QED
  BY <1>1, <1>2, <1>3

LEMMA Inductive == IInv /\ [Next]_vars => IInv'
<1> SUFFICES ASSUME IInv, [Next]_vars PROVE IInv'
  OBVIOUS
<1>1. CASE UNCHANGED vars
  BY <1>1 DEF vars, IInv, TypeOK, Cursors, CopyAt, Contents, Snapshot, Endings, Failed, Told
<1>2. CASE Next
  BY <1>2, CopyReadKeeps, LandKeeps, CopyWriteKeeps, CopyFlushKeeps, CopyEndKeeps,
     CopyErrorsKeep, CopyStopsKeep, FollowLookKeeps, FollowChangedKeeps, FollowReadKeeps,
     FollowFailsKeeps, FollowSendKeeps, FollowStopsKeep, ReadKeeps, DropKeeps
     DEF Next, CopySteps, FollowSteps
<1> QED
  BY <1>1, <1>2

\* IInv holds in every reachable state.
THEOREM Invariance == Spec => []IInv
  BY Initial, Inductive, PTL DEF Spec

\* Every variable keeps to its type.
THEOREM TypeCorrect == Spec => []TypeOK
<1>1. IInv => TypeOK
  BY DEF IInv
<1> QED
  BY <1>1, Invariance, PTL

\* What the reader has been given is the beginning of the content.
THEOREM ContentIntact == Spec => []Intact
<1>1. IInv => Intact
  BY DEF IInv, TypeOK, Cursors, Contents, Intact
<1> QED
  BY <1>1, Invariance, PTL

\* The follow task never meets the end of the file below the published count.
THEOREM FileNeverShort == Spec => []NeverShort
<1>1. IInv => NeverShort
  BY ReadableBound DEF NeverShort
<1> QED
  BY <1>1, Invariance, PTL

\* A clean end means the whole content, whatever failed and wherever.
THEOREM CleanEndIsComplete == Spec => []NoEarlyEnd
<1>1. IInv => NoEarlyEnd
  BY DEF IInv, Told, NoEarlyEnd
<1> QED
  BY <1>1, Invariance, PTL

\* With readers that always bring a buffer, an error comes behind every byte
\* that was handed over, and no byte comes behind it.
THEOREM ErrorInPlace == ~EmptyReads => (Spec => []ErrorAtStop)
<1>1. IInv /\ ~EmptyReads => ErrorAtStop
  BY DEF IInv, Told, ErrorAtStop
<1>2. CASE EmptyReads
  BY <1>2
<1>3. CASE ~EmptyReads
  <2>1. IInv => ErrorAtStop
    BY <1>1, <1>3
  <2>2. Spec => []ErrorAtStop
    BY <2>1, Invariance, PTL
  <2> QED
    BY <2>2
<1> QED
  BY <1>2, <1>3

\* Three buffers of memory, whatever the size of the content.
THEOREM MemoryIsBounded == Spec => []MemoryBound
<1>1. IInv => MemoryBound
  BY DEF IInv, TypeOK, Cursors, MemoryBound
<1> QED
  BY <1>1, Invariance, PTL

\* After a clean end the reader gets no further byte and no error.
THEOREM CleanEndIsFinal == Spec => EndIsFinal
<1> DEFINE Ended == eof /\ error = None /\ copy # "panicked"
<1>1. IInv /\ [Next]_vars => [Ended => UNCHANGED <<got, error>>]_vars
  <2> SUFFICES ASSUME IInv, Next, Ended PROVE UNCHANGED <<got, error>>
    OBVIOUS
  <2>1. got = sent /\ failure = None
    BY DEF IInv, TypeOK, Told, Cursors
  <2>2. CASE ReaderReads
    <3>1. PICK room \in Rooms : Read(room)
      BY <2>2 DEF ReaderReads
    <3>2. Least(room, sent - got) = 0
      BY <2>1 DEF IInv, TypeOK, Rooms, Least
    <3> QED
      BY <2>1, <3>1, <3>2 DEF Read, IInv, TypeOK
  <2>3. CASE ~ReaderReads
    BY <2>3 DEF Next, CopyRead, CopyErrors, CopyFails, CopyPanics, CopySteps, CopyWrite, Land,
       CopyFlush, CopyEnd, CopyAborted, FollowSteps, FollowLook, FollowChanged, FollowRead,
       FollowSend, FollowShutdown, FollowAborted, FollowFails, Drop
  <2> QED
    BY <2>2, <2>3
<1> QED
  BY <1>1, Invariance, PTL DEF Spec, EndIsFinal

-----------------------------------------------------------------------------
\* Refinement.  The state of a ContentStream, read off the state of a spool.
Source  == IF failure # None \/ error # None THEN "failed"
           ELSE IF progress.done THEN "complete"
           ELSE IF copy \in {"done", "panicked"} THEN "lost" ELSE "open"
Outcome == IF error # None THEN "error" ELSE IF eof THEN "end" ELSE "none"

streamState == <<progress.written, got, Source, Outcome, dropped>>

\* A copy that publishes a chunk lets it arrive; one that publishes its end
\* completes the stream unless it failed.
LEMMA CopyStepRefines ==
  IInv /\ (CopyRead \/ CopyErrors \/ CopyPanics \/ CopySteps)
    => Stream!Next \/ UNCHANGED streamState
<1> SUFFICES ASSUME IInv, CopyRead \/ CopyErrors \/ CopyPanics \/ CopySteps
             PROVE  Stream!Next \/ UNCHANGED streamState
  OBVIOUS
<1> USE DEF IInv, TypeOK, streamState, Source, Outcome
<1>1. CASE CopyRead \/ CopyWrite \/ Land
  BY <1>1 DEF CopyRead, CopyWrite, Land, Endings
<1>2. CASE CopyFlush
  <2>1. Stream!Arrive
    BY <1>2 DEF CopyFlush, Publish, Stream!Arrive, CopyAt, Endings
  <2> QED
    BY <2>1 DEF Stream!Next
<1>3. CASE CopyEnd
  <2>1. CASE Failed
    BY <1>3, <2>1 DEF CopyEnd, Publish, Failed
  <2>2. CASE ~Failed
    <3>1. Stream!Complete
      BY <1>3, <2>2 DEF CopyEnd, Publish, Failed, Stream!Complete, Endings, Told
    <3> QED
      BY <3>1 DEF Stream!Next
  <2> QED
    BY <2>1, <2>2
<1>4. CASE CopyErrors
  <2>1. PICK step \in {"read", "write", "flush"}, fault \in Faults \ {None} :
          CopyFails(step, fault)
    BY <1>4 DEF CopyErrors, CopyFails
  <2>2. CASE error # None
    BY <2>1, <2>2 DEF CopyFails
  <2>3. CASE error = None
    <3>1. Stream!Fail
      BY <2>1, <2>3 DEF CopyFails, Stream!Fail, Told, Endings
    <3> QED
      BY <3>1 DEF Stream!Next
  <2> QED
    BY <2>2, <2>3
<1>5. CASE CopyPanics \/ CopyAborted
  <2>1. CASE Failed
    BY <1>5, <2>1 DEF CopyPanics, CopyAborted, Failed
  <2>2. CASE ~Failed
    <3>1. Stream!Lose
      BY <1>5, <2>2 DEF CopyPanics, CopyAborted, Failed, Stream!Lose, Endings
    <3> QED
      BY <3>1 DEF Stream!Next
  <2> QED
    BY <2>1, <2>2
<1> QED
  BY <1>1, <1>2, <1>3, <1>4, <1>5 DEF CopySteps

\* The follow task is invisible, but for an error of its own.
LEMMA FollowStepRefines ==
  IInv /\ (FollowSteps \/ FollowFails) => Stream!Next \/ UNCHANGED streamState
<1> SUFFICES ASSUME IInv, FollowSteps \/ FollowFails
             PROVE  Stream!Next \/ UNCHANGED streamState
  OBVIOUS
<1> USE DEF IInv, TypeOK, streamState, Source, Outcome
<1>1. CASE FollowSteps
  BY <1>1 DEF FollowSteps, FollowLook, FollowChanged, FollowRead, FollowSend, FollowShutdown,
     FollowAborted
<1>2. CASE FollowFails
  <2>1. CASE error # None
    BY <1>2, <2>1 DEF FollowFails
  <2>2. CASE error = None
    <3>1. Stream!Fail
      BY <1>2, <2>2 DEF FollowFails, Stream!Fail, Told
    <3> QED
      BY <3>1 DEF Stream!Next
  <2> QED
    BY <2>1, <2>2
<1> QED
  BY <1>1, <1>2

\* A read gives bytes, tells the error or tells the end.
LEMMA ReadRefines == IInv /\ ReaderReads => Stream!Next \/ UNCHANGED streamState
<1> SUFFICES ASSUME IInv, NEW room \in Rooms, Read(room)
             PROVE  Stream!Next \/ UNCHANGED streamState
  BY DEF ReaderReads
<1> USE DEF IInv, TypeOK, streamState, Source, Outcome
<1> DEFINE n == Least(room, sent - got)
<1>1. /\ ~dropped /\ PipeReady /\ got' = got + n
      /\ UNCHANGED <<dropped, copyVars, fileVars, watchVars, followVars>>
  BY DEF Read
<1>2. n \in Nat /\ got + n <= sent /\ sent <= progress.written
  BY DEF Least, Cursors, Rooms
<1>3. n = 0 /\ room > 0 => sent = got /\ follow = "done"
  BY <1>1 DEF Least, PipeReady, Cursors, Rooms
<1>4. \/ /\ n = 0 /\ failure # None /\ failure' = None
         /\ error' = IF error = None THEN failure ELSE error
         /\ eof' = eof
      \/ /\ n = 0 => failure = None
         /\ eof' = (eof \/ (n = 0 /\ room > 0))
         /\ UNCHANGED <<failure, error>>
  BY DEF Read
<1> HIDE DEF n
<1>5. CASE n # 0
  <2>1. got' \in got + 1 .. progress.written
    BY <1>1, <1>2, <1>5
  <2>2. UNCHANGED <<failure, error, eof>>
    BY <1>4, <1>5
  <2>3. Stream!Give
    BY <1>1, <2>1, <2>2 DEF Stream!Give
  <2> QED
    BY <2>3 DEF Stream!Next
<1>6. CASE n = 0 /\ failure # None
  <2>1. got' = got /\ failure' = None /\ eof' = eof
    BY <1>1, <1>4, <1>6
  <2>2. CASE error # None
    BY <1>1, <1>4, <1>6, <2>1, <2>2
  <2>3. CASE error = None
    <3>1. ~eof
      BY <1>6, <2>3 DEF Told
    <3>2. Stream!TellError
      BY <1>1, <1>4, <1>6, <2>1, <2>3, <3>1 DEF Stream!TellError
    <3> QED
      BY <3>2 DEF Stream!Next
  <2> QED
    BY <2>2, <2>3
<1>7. CASE n = 0 /\ failure = None
  <2>1. got' = got /\ UNCHANGED <<failure, error>> /\ eof' = (eof \/ room > 0)
    BY <1>1, <1>4, <1>7
  <2>2. CASE error # None \/ eof' = eof
    BY <1>1, <2>1, <2>2
  <2>3. CASE error = None /\ eof' # eof
    <3>1. ~eof /\ eof' /\ room > 0
      BY <2>1, <2>3
    <3>2. sent = got /\ follow = "done" /\ sent = position
      BY <1>1, <1>3, <1>7, <3>1 DEF Endings
    <3>3. position = progress.written /\ (progress.done \/ copy = "panicked")
      BY <1>1, <1>7, <2>3, <3>2 DEF Endings, Failed
    <3>4. Stream!TellEnd
      BY <1>1, <1>7, <2>1, <2>3, <3>1, <3>2, <3>3 DEF Stream!TellEnd
    <3> QED
      BY <3>4 DEF Stream!Next
  <2> QED
    BY <2>2, <2>3
<1> QED
  BY <1>5, <1>6, <1>7

\* The spool does nothing a ContentStream may not do.
THEOREM SpoolImplementsStream == Spec => ImplementsStream
<1>1. Init => Stream!Init
  BY DEF Init, Stream!Init
<1>2. IInv /\ [Next]_vars => [Stream!Next]_streamState
  <2> SUFFICES ASSUME IInv, [Next]_vars PROVE Stream!Next \/ UNCHANGED streamState
    OBVIOUS
  <2>1. CASE UNCHANGED vars
    BY <2>1 DEF vars, streamState, Source, Outcome
  <2>2. CASE Drop
    <3>1. Stream!Release
      BY <2>2 DEF Drop, Stream!Release
    <3> QED
      BY <3>1 DEF Stream!Next
  <2> QED
    BY <2>1, <2>2, CopyStepRefines, FollowStepRefines, ReadRefines DEF Next
<1> QED
  BY <1>1, <1>2, Invariance, PTL
     DEF Spec, ImplementsStream, Stream!Spec, Stream!streamVars, streamState, Source, Outcome

-----------------------------------------------------------------------------
(***************************************************************************)
(* No task works for ever, and nobody waits for what does not come: what   *)
(* the liveness properties need beside the fairness of the runtime.        *)
(***************************************************************************)

\* A publication the follow task has yet to see differs from its snapshot.
Watched == (saw.done => progress.done) /\ (unseen => saw # progress)

WatchIInv == IInv /\ Watched

LEMMA WatchedKeeps == WatchIInv /\ [Next]_vars => WatchIInv'
<1> SUFFICES ASSUME WatchIInv, [Next]_vars PROVE WatchIInv'
  OBVIOUS
<1> USE DEF WatchIInv, Watched
<1>1. IInv'
  BY Inductive
<1>2. CASE CopyFlush \/ CopyEnd
  <2>1. ~progress.done /\ ~saw.done /\ saw' = saw
    BY <1>2 DEF CopyFlush, CopyEnd, IInv, Endings
  <2>2. saw' # progress'
    <3>1. CASE CopyFlush
      <4>1. saw.written < taken /\ progress'.written = taken
        BY <3>1 DEF CopyFlush, Publish, IInv, TypeOK, CopyAt, Snapshot
      <4>2. saw.written # taken
        BY <4>1 DEF IInv, TypeOK
      <4> QED
        BY <2>1, <4>1, <4>2
    <3>2. CASE CopyEnd
      <4>1. progress'.done = TRUE
        BY <3>2 DEF CopyEnd, Publish
      <4> QED
        BY <2>1, <4>1
    <3> QED
      BY <1>2, <3>1, <3>2
  <2> QED
    BY <1>1, <2>1, <2>2
<1>3. CASE FollowLook \/ FollowChanged
  BY <1>1, <1>3 DEF FollowLook, FollowChanged
<1>4. CASE UNCHANGED <<saw, progress, unseen>>
  BY <1>1, <1>4
<1>5. CASE Next /\ ~(CopyFlush \/ CopyEnd \/ FollowLook \/ FollowChanged)
  <2>1. UNCHANGED <<saw, progress, unseen>>
    BY <1>5 DEF Next, CopyRead, CopyErrors, CopyFails, CopyPanics, CopySteps, CopyWrite, Land,
       CopyAborted, FollowSteps, FollowRead, FollowSend, FollowShutdown, FollowAborted,
       FollowFails, ReaderReads, Read, Drop
  <2> QED
    BY <1>4, <2>1
<1>6. CASE UNCHANGED vars
  BY <1>4, <1>6 DEF vars
<1> QED
  BY <1>2, <1>3, <1>5, <1>6

LEMMA WatchInvariance == Spec => []WatchIInv
<1>1. Init => WatchIInv
  BY Initial DEF Init, WatchIInv, Watched
<1> QED
  BY <1>1, WatchedKeeps, PTL DEF Spec

\* How far each of them has come.  A chunk takes the copy back to its read,
\* and a publication the follow task back to its look: its bytes outweigh it.
CopyRank ==
  CASE copy = "read" -> 0 [] copy = "write" -> 1 [] copy = "flush" -> 2
    [] copy = "end" -> 5 [] OTHER -> 7
FollowRank ==
  CASE follow = "look" -> IF saw # progress THEN 2 ELSE 0
    [] follow = "wait" -> 1
    [] follow \in {"read", "send"} -> 3
    [] follow = "end" -> 6 [] OTHER -> 8
ReaderRank ==
  (IF failure = None THEN 1 ELSE 0) + (IF eof THEN 1 ELSE 0) + (IF dropped THEN 1 ELSE 0)

CopyMoved   == taken + landed + 3 * progress.written + CopyRank
FollowMoved == 4 * saw.written + FollowRank + position + 4 * sent
ReaderMoved == got + ReaderRank
Moved       == CopyMoved + FollowMoved + ReaderMoved

LEMMA MovedIs ==
  ASSUME IInv
  PROVE  /\ CopyRank \in 0 .. 7 /\ FollowRank \in 0 .. 8 /\ ReaderRank \in 0 .. 3
         /\ taken \in Nat /\ landed \in Nat /\ position \in Nat /\ sent \in Nat /\ got \in Nat
         /\ progress.written \in Nat /\ saw.written \in Nat
         /\ CopyMoved \in Nat /\ FollowMoved \in Nat /\ ReaderMoved \in Nat
         /\ Moved \in 0 .. 15 * Size + 18
<1>1. CopyRank \in 0 .. 7 /\ FollowRank \in 0 .. 8 /\ ReaderRank \in 0 .. 3
  BY DEF CopyRank, FollowRank, ReaderRank
<1>2. /\ taken \in 0 .. Size /\ landed \in 0 .. Size /\ position \in 0 .. Size /\ sent \in 0 .. Size
      /\ got \in 0 .. Size /\ progress.written \in 0 .. Size /\ saw.written \in 0 .. Size
  BY DEF IInv, TypeOK
<1> QED
  BY <1>1, <1>2 DEF CopyMoved, FollowMoved, ReaderMoved, Moved

\* What the copy does brings it further, and costs nobody more than an empty
\* slot.
LEMMA CopyMoves ==
  ASSUME WatchIInv, CopyRead \/ CopyErrors \/ CopyPanics \/ CopySteps
  PROVE  Moved' > Moved
<1>1. /\ IInv /\ Watched' /\ UNCHANGED <<follow, saw, bytes, position, sent, readerVars>>
  BY WatchedKeeps DEF WatchIInv, Next, CopyRead, CopyErrors, CopyFails, CopyPanics, CopySteps,
     CopyWrite, Land, CopyFlush, CopyEnd, CopyAborted
<1>2. UNCHANGED progress \/ unseen'
  BY DEF CopyRead, CopyErrors, CopyFails, CopyPanics, CopySteps, CopyWrite, Land, CopyFlush,
     CopyEnd, CopyAborted, Publish
<1>3. FollowMoved' \in Nat /\ FollowMoved' >= FollowMoved
  <2>1. FollowRank' \in 0 .. 8 /\ FollowRank' >= FollowRank
    BY <1>1, <1>2 DEF FollowRank, Watched
  <2>2. PICK r \in 0 .. 8 : FollowRank' = r
    BY <2>1
  <2> QED
    BY <1>1, <2>1, <2>2, MovedIs DEF FollowMoved
<1>4. /\ ReaderMoved' \in Nat /\ ReaderMoved' + 1 >= ReaderMoved
      /\ UNCHANGED failure => ReaderMoved' = ReaderMoved
  <2>1. /\ ReaderRank' \in 0 .. 3 /\ ReaderRank' + 1 >= ReaderRank
        /\ UNCHANGED failure => ReaderRank' = ReaderRank
    BY <1>1 DEF ReaderRank
  <2>2. PICK r \in 0 .. 3 : ReaderRank' = r
    BY <2>1
  <2> QED
    BY <1>1, <2>1, <2>2, MovedIs DEF ReaderMoved
<1>5. PICK f \in Nat, r \in Nat : FollowMoved' = f /\ ReaderMoved' = r
  BY <1>3, <1>4
<1>6. ASSUME CopyMoved' >= CopyMoved + 2, CopyMoved' \in Nat PROVE Moved' > Moved
  <2>1. PICK c \in Nat : CopyMoved' = c
    BY <1>6
  <2> QED
    BY <1>1, <1>3, <1>4, <1>5, <1>6, <2>1, MovedIs DEF Moved
<1>7. ASSUME CopyMoved' > CopyMoved, CopyMoved' \in Nat, UNCHANGED failure PROVE Moved' > Moved
  <2>1. PICK c \in Nat : CopyMoved' = c
    BY <1>7
  <2> QED
    BY <1>1, <1>3, <1>4, <1>5, <1>7, <2>1, MovedIs DEF Moved
<1>8. CASE CopyRead
  <2>1. /\ CopyRank = 0 /\ UNCHANGED <<landed, progress, failure>>
        /\ \/ CopyRank' = 5 /\ taken' = taken
           \/ CopyRank' = 1 /\ \E n \in 1 .. PipeSize : taken' = taken + n
    BY <1>8 DEF CopyRead, CopyRank
  <2>2. CopyMoved' > CopyMoved /\ CopyMoved' \in Nat
    BY <1>1, <2>1, MovedIs DEF CopyMoved
  <2> QED
    BY <1>7, <2>1, <2>2
<1>9. CASE Land
  <2>1. /\ CopyRank' = CopyRank /\ UNCHANGED <<taken, progress, failure>>
        /\ \E n \in 1 .. PipeSize : landed' = landed + n
    BY <1>9 DEF Land, CopyRank
  <2>2. CopyMoved' > CopyMoved /\ CopyMoved' \in Nat
    BY <1>1, <2>1, MovedIs DEF CopyMoved
  <2> QED
    BY <1>7, <2>1, <2>2
<1>10. CASE CopyFlush
  <2>1. /\ CopyRank = 2 /\ CopyRank' = 0 /\ UNCHANGED <<taken, landed, failure>>
        /\ progress'.written = taken /\ progress.written < taken
    BY <1>1, <1>10 DEF CopyFlush, Publish, CopyRank, IInv, CopyAt
  <2>2. CopyMoved' > CopyMoved /\ CopyMoved' \in Nat
    BY <1>1, <2>1, MovedIs DEF CopyMoved
  <2> QED
    BY <1>7, <2>1, <2>2
<1>11. CASE CopyWrite \/ CopyEnd \/ CopyPanics \/ CopyAborted
  <2>1. /\ CopyRank' > CopyRank /\ CopyRank' \in 0 .. 7
        /\ UNCHANGED <<taken, landed, failure>> /\ progress'.written = progress.written
    BY <1>1, <1>11 DEF CopyWrite, CopyEnd, CopyPanics, CopyAborted, Publish, CopyRank, IInv, TypeOK
  <2>2. PICK c \in 0 .. 7 : CopyRank' = c
    BY <2>1
  <2>3. CopyMoved' > CopyMoved /\ CopyMoved' \in Nat
    BY <1>1, <2>1, <2>2, MovedIs DEF CopyMoved
  <2> QED
    BY <1>7, <2>1, <2>3
<1>12. CASE CopyErrors
  <2>1. /\ CopyRank' = 5 /\ CopyRank \in 0 .. 2 /\ UNCHANGED <<taken, landed, progress>>
    BY <1>12 DEF CopyErrors, CopyFails, CopyRank
  <2>2. CopyMoved' >= CopyMoved + 2 /\ CopyMoved' \in Nat
    BY <1>1, <2>1, MovedIs DEF CopyMoved
  <2> QED
    BY <1>6, <2>2
<1> QED
  BY <1>8, <1>9, <1>10, <1>11, <1>12 DEF CopySteps

\* So does what the follow task does.  A look at an old count is worth less
\* than one at a new count, and there is no third.
LEMMA FollowMoves ==
  ASSUME WatchIInv, FollowSteps \/ FollowFails
  PROVE  Moved' > Moved
<1>1. IInv /\ Watched /\ UNCHANGED <<copyVars, progress, readerVars>>
  BY DEF WatchIInv, FollowSteps, FollowLook, FollowChanged, FollowRead, FollowSend,
     FollowShutdown, FollowAborted, FollowFails
<1>2. CopyMoved' = CopyMoved
  BY <1>1 DEF CopyMoved, CopyRank
<1>3. /\ ReaderMoved' \in Nat /\ ReaderMoved' + 1 >= ReaderMoved
      /\ UNCHANGED failure => ReaderMoved' = ReaderMoved
  <2>1. /\ ReaderRank' \in 0 .. 3 /\ ReaderRank' + 1 >= ReaderRank
        /\ UNCHANGED failure => ReaderRank' = ReaderRank
    BY <1>1 DEF ReaderRank
  <2>2. PICK r \in 0 .. 3 : ReaderRank' = r
    BY <2>1
  <2> QED
    BY <1>1, <2>1, <2>2, MovedIs DEF ReaderMoved
<1>4. PICK r \in Nat : ReaderMoved' = r
  BY <1>3
<1>5. ASSUME FollowMoved' >= FollowMoved + 2, FollowMoved' \in Nat PROVE Moved' > Moved
  <2>1. PICK f \in Nat : FollowMoved' = f
    BY <1>5
  <2> QED
    BY <1>1, <1>2, <1>3, <1>4, <1>5, <2>1, MovedIs DEF Moved
<1>6. ASSUME FollowMoved' > FollowMoved, FollowMoved' \in Nat, UNCHANGED failure PROVE Moved' > Moved
  <2>1. PICK f \in Nat : FollowMoved' = f
    BY <1>6
  <2> QED
    BY <1>1, <1>2, <1>3, <1>4, <1>6, <2>1, MovedIs DEF Moved
<1>7. CASE FollowLook
  <2>1. /\ follow = "look" /\ saw' = progress /\ UNCHANGED <<position, sent, failure>>
        /\ follow' = IF position # progress.written THEN "read"
                     ELSE IF progress.done THEN "end" ELSE "wait"
    BY <1>7 DEF FollowLook
  <2>2. saw.written <= progress.written /\ saw'.written = progress.written
    BY <1>1, <2>1 DEF IInv, Snapshot
  <2>3. PICK f \in 0 .. 8 : FollowRank' = f
    BY <2>1 DEF FollowRank
  <2>4. CASE saw.written = progress.written
    <3>1. FollowRank' > FollowRank
      <4>1. CASE saw.done = progress.done
        <5>1. saw = progress
          BY <1>1, <2>4, <4>1 DEF IInv, TypeOK
        <5> QED
          BY <2>1, <5>1 DEF FollowRank
      <4>2. CASE saw.done # progress.done
        <5>1. progress.done /\ FollowRank <= 2
          BY <1>1, <2>1, <4>2 DEF IInv, TypeOK, Watched, FollowRank
        <5>2. FollowRank' \in {3, 6}
          BY <2>1, <5>1 DEF FollowRank
        <5> QED
          BY <1>1, <5>1, <5>2, MovedIs
      <4> QED
        BY <4>1, <4>2
    <3> QED
      BY <1>1, <1>6, <2>1, <2>2, <2>3, <2>4, <3>1, MovedIs DEF FollowMoved
  <2>5. CASE saw.written # progress.written
    <3>1. FollowRank <= 2
      BY <2>1 DEF FollowRank
    <3>2. FollowMoved' > FollowMoved /\ FollowMoved' \in Nat
      BY <1>1, <2>1, <2>2, <2>3, <2>5, <3>1, MovedIs DEF FollowMoved
    <3> QED
      BY <1>6, <2>1, <3>2
  <2> QED
    BY <2>4, <2>5
<1>8. CASE FollowChanged \/ FollowShutdown \/ FollowAborted \/ (FollowSend /\ dropped)
  <2>1. UNCHANGED <<saw, position, sent, failure>>
    BY <1>8 DEF FollowChanged, FollowShutdown, FollowAborted, FollowSend
  <2>2. FollowRank' > FollowRank /\ FollowRank' \in 0 .. 8
    BY <1>1, <1>8 DEF FollowChanged, FollowShutdown, FollowAborted, FollowSend, FollowRank, Watched,
       IInv, TypeOK
  <2>3. PICK f \in 0 .. 8 : FollowRank' = f
    BY <2>2
  <2>4. FollowMoved' > FollowMoved /\ FollowMoved' \in Nat
    BY <1>1, <2>1, <2>2, <2>3, MovedIs DEF FollowMoved
  <2> QED
    BY <1>6, <2>1, <2>4
<1>9. CASE FollowRead
  <2>1. PICK n \in Readable : position' = position + n /\ follow' = IF n = 0 THEN "wait" ELSE "send"
    BY <1>9 DEF FollowRead
  <2>2. follow = "read" /\ UNCHANGED <<saw, sent, failure>>
    BY <1>9 DEF FollowRead
  <2>3. n \in 1 .. PipeSize /\ follow' = "send"
    BY <1>1, <2>1, <2>2, ReadableBound
  <2>4. FollowRank = 3 /\ FollowRank' = 3
    BY <2>2, <2>3 DEF FollowRank
  <2>5. FollowMoved' > FollowMoved /\ FollowMoved' \in Nat
    BY <1>1, <2>1, <2>2, <2>3, <2>4, MovedIs DEF FollowMoved
  <2> QED
    BY <1>6, <2>2, <2>5
<1>10. CASE FollowSend /\ ~dropped
  <2> DEFINE n == Least(position - sent, PipeSize - (sent - got))
  <2>1. /\ follow = "send" /\ sent - got < PipeSize
        /\ sent' = sent + n /\ follow' \in {"look", "send"}
        /\ UNCHANGED <<saw, position, failure>>
    BY <1>10 DEF FollowSend
  <2>2. n \in Nat \ {0}
    BY <1>1, <2>1, MovedIs DEF IInv, Cursors, Snapshot, Least
  <2> HIDE DEF n
  <2>3. FollowRank = 3 /\ FollowRank' \in 0 .. 8
    BY <2>1 DEF FollowRank
  <2>4. PICK f \in 0 .. 8 : FollowRank' = f
    BY <2>3
  <2>5. FollowMoved' > FollowMoved /\ FollowMoved' \in Nat
    BY <1>1, <2>1, <2>2, <2>3, <2>4, MovedIs DEF FollowMoved
  <2> QED
    BY <1>6, <2>1, <2>5
<1>11. CASE FollowFails
  <2>1. FollowRank = 3 /\ FollowRank' = 6 /\ UNCHANGED <<saw, position, sent>>
    BY <1>11 DEF FollowFails, FollowRank
  <2>2. FollowMoved' >= FollowMoved + 2 /\ FollowMoved' \in Nat
    BY <1>1, <2>1, MovedIs DEF FollowMoved
  <2> QED
    BY <1>5, <2>2
<1> QED
  BY <1>7, <1>8, <1>9, <1>10, <1>11 DEF FollowSteps

\* A read gives bytes, takes the error or tells the end for the first time:
\* any other one changes nothing.
LEMMA ReaderMoves ==
  ASSUME IInv, ReaderReads \/ Drop, ~UNCHANGED vars
  PROVE  Moved' > Moved
<1>1. UNCHANGED <<copyVars, fileVars, watchVars, followVars>>
  BY DEF ReaderReads, Read, Drop
<1>2. CopyMoved' = CopyMoved /\ FollowMoved' = FollowMoved
  BY <1>1 DEF CopyMoved, CopyRank, FollowMoved, FollowRank
<1>3. ASSUME NEW r \in Nat, ReaderMoved' = r, r > ReaderMoved PROVE Moved' > Moved
  BY <1>2, <1>3, MovedIs DEF Moved
<1>4. ReaderRank' \in 0 .. 3
  BY DEF ReaderRank
<1>5. PICK k \in 0 .. 3 : ReaderRank' = k
  BY <1>4
<1>6. CASE Drop
  <2>1. got' = got /\ ReaderRank' > ReaderRank
    BY <1>6, MovedIs DEF Drop, ReaderRank
  <2>2. ReaderMoved' = got + k /\ got + k > ReaderMoved
    BY <1>5, <2>1, MovedIs DEF ReaderMoved
  <2> QED
    BY <1>3, <2>2, MovedIs
<1>7. CASE ReaderReads
  <2>1. PICK room \in Rooms : Read(room)
    BY <1>7 DEF ReaderReads
  <2> DEFINE n == Least(room, sent - got)
  <2>2. /\ got' = got + n /\ dropped' = dropped
        /\ \/ /\ n = 0 /\ failure # None /\ failure' = None /\ eof' = eof
           \/ /\ eof' = (eof \/ (n = 0 /\ room > 0))
              /\ UNCHANGED <<failure, error, errorAt>>
    BY <2>1 DEF Read
  <2>3. n \in Nat
    BY DEF Least, IInv, TypeOK, Cursors, Rooms
  <2> HIDE DEF n
  <2>4. ReaderRank' >= ReaderRank
    <3>1. eof => eof'
      BY <2>2
    <3>2. failure = None => failure' = None
      BY <2>2
    <3> QED
      BY <2>2, <3>1, <3>2 DEF ReaderRank
  <2>5. n > 0 \/ ReaderRank' > ReaderRank
    <3>1. CASE n = 0 /\ failure # None /\ failure' = None
      BY <2>2, <3>1 DEF ReaderRank
    <3>2. CASE n = 0 /\ UNCHANGED <<failure, error, errorAt>>
      <4>1. UNCHANGED <<got, dropped>>
        BY <2>2, <3>2, MovedIs
      <4>2. eof' # eof
        BY <1>1, <3>2, <4>1 DEF vars
      <4>3. ~eof /\ eof'
        <5>1. eof' \in BOOLEAN /\ eof \in BOOLEAN
          BY <1>7, ReadKeeps DEF IInv, TypeOK
        <5>2. eof => eof'
          BY <2>2
        <5> QED
          BY <4>2, <5>1, <5>2
      <4> QED
        BY <3>2, <4>1, <4>3 DEF ReaderRank
    <3> QED
      BY <2>2, <2>3, <3>1, <3>2
  <2>6. ReaderMoved' = got + n + k
    BY <1>5, <2>2 DEF ReaderMoved
  <2>7. got + n + k \in Nat /\ got + n + k > ReaderMoved
    BY <1>5, <2>3, <2>4, <2>5, MovedIs DEF ReaderMoved
  <2> QED
    BY <1>3, <2>6, <2>7
<1> QED
  BY <1>6, <1>7

\* Neither task can spin, and no call of the reader is due for ever: with
\* every step the spool comes closer to its end, and how far that is depends
\* on the content's size only.
THEOREM SpoolsStop == Spec => [][Moved' > Moved]_vars /\ [](Moved \in 0 .. 15 * Size + 18)
<1>1. WatchIInv /\ [Next]_vars => [Moved' > Moved]_vars
  <2> SUFFICES ASSUME WatchIInv, Next, ~UNCHANGED vars PROVE Moved' > Moved
    OBVIOUS
  <2> QED
    BY CopyMoves, FollowMoves, ReaderMoves DEF Next, WatchIInv
<1>2. WatchIInv => Moved \in 0 .. 15 * Size + 18
  BY MovedIs DEF WatchIInv
<1> QED
  BY <1>1, <1>2, WatchInvariance, PTL DEF Spec

\* What the follow task needs for a step.
FollowCanGoOn ==
  \/ follow \in {"look", "read", "end"}
  \/ follow = "wait" /\ (unseen \/ SenderGone)
  \/ follow = "send" /\ (dropped \/ sent - got < PipeSize)
  \/ dropped /\ follow # "done"

\* No wakeup is lost: the follow task waits only for a copy that has yet to
\* publish, with everything published behind it in the pipe, or for a reader
\* that has bytes to read.
THEOREM FollowWaitsForAPeer ==
  Spec => [](follow # "done" /\ ~FollowCanGoOn =>
               IF follow = "wait"
               THEN sent = progress.written /\ ~progress.done /\ ~SenderGone
               ELSE got < sent)
<1>1. ASSUME IInv, follow # "done", ~FollowCanGoOn
      PROVE  IF follow = "wait"
             THEN sent = progress.written /\ ~progress.done /\ ~SenderGone
             ELSE got < sent
  <2>1. CASE follow = "wait"
    BY <1>1, <2>1 DEF IInv, Snapshot, FollowCanGoOn
  <2>2. CASE follow = "send"
    BY <1>1, <2>2 DEF IInv, TypeOK, Cursors, FollowCanGoOn
  <2> QED
    BY <1>1, <2>1, <2>2 DEF IInv, TypeOK, FollowCanGoOn
<1> QED
  BY <1>1, Invariance, PTL

\* A read that has to wait waits for somebody: for the follow task, or for a
\* copy that has not ended.
THEOREM ReaderNeverWaitsForNobody == Spec => [](~PipeReady => FollowCanGoOn \/ ~SenderGone)
<1>1. ASSUME IInv, ~PipeReady, SenderGone PROVE FollowCanGoOn
  BY <1>1 DEF IInv, TypeOK, Cursors, PipeReady, FollowCanGoOn
<1> QED
  BY <1>1, Invariance, PTL

\* What the copy needs for a step, the content aside, and the reader for one
\* that tells it something.
CopyCanGoOn   == copy \in {"write", "flush", "end"} \/ (dropped /\ ~SenderGone)
ReaderCanGoOn == ~dropped /\ PipeReady /\ ~eof /\ error = None

\* When none of the three can go on, the content is what they wait for, or
\* the content was dropped and both tasks have ended, or the copy has ended
\* and the reader knows how.
THEOREM SpoolAtRest ==
  Spec => [](~CopyCanGoOn /\ ~FollowCanGoOn /\ ~ReaderCanGoOn =>
               \/ copy = "read" /\ ~dropped
               \/ dropped /\ Released
               \/ Copied /\ (eof \/ error # None))
<1>1. ASSUME IInv, ~CopyCanGoOn, ~FollowCanGoOn, ~ReaderCanGoOn, ~(copy = "read" /\ ~dropped)
      PROVE  (dropped /\ Released) \/ (Copied /\ (eof \/ error # None))
  <2>1. Copied /\ SenderGone
    BY <1>1 DEF IInv, TypeOK, CopyCanGoOn, Copied, SenderGone
  <2>2. CASE dropped
    BY <1>1, <2>1, <2>2 DEF FollowCanGoOn, Released
  <2>3. CASE ~dropped
    <3>1. PipeReady
      BY <1>1, <2>1 DEF IInv, TypeOK, Cursors, PipeReady, FollowCanGoOn
    <3> QED
      BY <1>1, <2>1, <2>3, <3>1 DEF ReaderCanGoOn
  <2> QED
    BY <2>2, <2>3
<1> QED
  BY <1>1, Invariance, PTL
====
