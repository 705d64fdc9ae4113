--------------------------- MODULE DownloadProofs ---------------------------
(***************************************************************************)
(* Theorems about module Download, for files, chunks and windows of every  *)
(* size: the inductive invariant, the bound on the server's count, that no *)
(* wait for an acknowledgement is in vain, and the refinement of Copy.     *)
(***************************************************************************)
EXTENDS Download, SequenceTheorems, TLAPS

\* Where the bytes of the first i responses under way end in the file.
End(i) == IF i = 0 THEN received ELSE data[i].off + data[i].len

\* The chunks under way join on to what the client has written.
Chained == \A i \in 1 .. Len(data) :
  /\ data[i].op = "chunk" => data[i].off = End(i - 1) /\ End(i) <= offset
  /\ data[i].op = "eof" => End(i - 1) = Size
  /\ i > 1 => data[i - 1].op = "chunk"

\* ... and reach to where the server stands.
Reached ==
  /\ End(Len(data)) = offset
  /\ data # <<>> => data[Len(data)].op = "chunk"

\* Acknowledgements never run ahead of the client's total, and while nothing can be
\* lost the last of them is that total.
AcksCurrent ==
  /\ \A i \in 1 .. Len(acks) : acks[i] <= received
  /\ acked <= received
  /\ up /\ client = "receiving" =>
       received = IF acks = <<>> THEN acked ELSE acks[Len(acks)]

Inv ==
  /\ TypeOK
  /\ received <= offset
  /\ phase = "draining" => offset = Size
  /\ client = "receiving" => Chained
  /\ client = "receiving" /\ up /\ phase # "ended" => Reached
  /\ intact
  /\ AcksCurrent
  /\ outstanding <= offset - acked

USE DownloadAssumption

-----------------------------------------------------------------------------
(* What the two ends of the queue of responses do to the chain             *)

\* A response that is sent goes behind the others, which keep their places.
LEMMA Sent ==
  ASSUME TypeOK, NEW msg \in Responses, Respond(msg)
  PROVE  /\ data' \in Seq(Responses)
         /\ ~up => data' = data
         /\ up => /\ Len(data') = Len(data) + 1
                  /\ \A i \in 1 .. Len(data) : data'[i] = data[i]
                  /\ data'[Len(data) + 1] = msg
  BY AppendProperties DEF Respond, TypeOK

\* A response that is taken leaves the others one place further ahead.
LEMMA Taken ==
  ASSUME TypeOK, data # <<>>, data' = Tail(data)
  PROVE  /\ data' \in Seq(Responses)
         /\ Len(data) \in Nat \ {0}
         /\ Head(data) = data[1] /\ data[1] \in Responses
         /\ Len(data') = Len(data) - 1
         /\ \A i \in 1 .. Len(data') : data'[i] = data[i + 1]
  BY HeadTailProperties DEF TypeOK

LEMMA TypeOfLen == TypeOK => Len(data) \in Nat /\ Len(acks) \in Nat
  BY DEF TypeOK

\* A chunk sent from where the chain ends prolongs it.
LEMMA ChunkSent ==
  ASSUME Inv, ReadChunk
  PROVE  Inv'
<1> USE DEF Inv
<1>1. PICK n \in 1 .. Chunk :
        /\ offset + n <= Size
        /\ Respond([op |-> "chunk", off |-> offset, len |-> n])
        /\ offset' = offset + n
        /\ outstanding' = outstanding + n
  BY DEF ReadChunk
<1> DEFINE msg == [op |-> "chunk", off |-> offset, len |-> n]
<1>2. msg \in Responses
  BY DEF TypeOK, Responses
<1>3. UNCHANGED <<phase, acked, acks, up, received, intact, client>>
  BY DEF ReadChunk, clientVars
<1>4. /\ data' \in Seq(Responses)
      /\ ~up => data' = data
      /\ up => /\ Len(data') = Len(data) + 1
               /\ \A i \in 1 .. Len(data) : data'[i] = data[i]
               /\ data'[Len(data) + 1] = msg
  BY <1>1, <1>2, Sent
<1>5. TypeOK'
  BY <1>1, <1>3, <1>4 DEF TypeOK
<1>6. (client = "receiving" /\ up => Reached)
  BY DEF ReadChunk
<1>7. (client = "receiving" => Chained)'
  <2> SUFFICES ASSUME client = "receiving", NEW i \in 1 .. Len(data')
               PROVE  /\ data'[i].op = "chunk" =>
                           data'[i].off = End(i - 1)' /\ End(i)' <= offset'
                      /\ data'[i].op = "eof" => End(i - 1)' = Size
                      /\ i > 1 => data'[i - 1].op = "chunk"
    BY <1>3 DEF Chained
  <2>1. CASE i \in 1 .. Len(data)
    <3>1. data'[i] = data[i] /\ (i > 1 => data'[i - 1] = data[i - 1])
      BY <2>1, <1>4, TypeOfLen
    <3>2. End(i)' = End(i) /\ End(i - 1)' = End(i - 1)
      BY <2>1, <3>1, <1>3, TypeOfLen DEF End
    <3>3. End(i) \in Int \/ data[i].op # "chunk"
      <4>1. data[i] \in Responses /\ i # 0
        BY <2>1 DEF TypeOK
      <4>2. data[i].op = "chunk" => data[i].off + data[i].len \in Int
        BY <4>1 DEF Responses
      <4> QED BY <4>1, <4>2 DEF End
    <3>4. data[i].op = "chunk" => End(i) <= offset'
      BY <2>1, <3>3, <1>1 DEF Chained, TypeOK
    <3> QED BY <2>1, <3>1, <3>2, <3>4 DEF Chained
  <2>2. CASE i \notin 1 .. Len(data)
    <3>1. up /\ i = Len(data) + 1 /\ data'[i] = msg
      BY <2>2, <1>4, TypeOfLen
    <3>2. End(i - 1)' = End(i - 1)
      BY <3>1, <1>3, <1>4, TypeOfLen DEF End
    <3>3. End(i - 1) = offset
      BY <3>1, <1>6, TypeOfLen DEF Reached
    <3>4. End(i)' = offset'
      BY <3>1, <1>1, TypeOfLen DEF End
    <3>5. i > 1 => data'[i - 1].op = "chunk"
      BY <3>1, <1>4, <1>6, TypeOfLen DEF Reached
    <3>6. offset' <= offset'
      BY <1>5 DEF TypeOK
    <3> QED BY <3>1, <3>2, <3>3, <3>4, <3>5, <3>6
  <2> QED BY <2>1, <2>2
<1>8. (client = "receiving" /\ up /\ phase # "ended" => Reached)'
  <2> SUFFICES ASSUME up PROVE Reached'
    BY <1>3
  <2>1. Len(data') = Len(data) + 1 /\ data'[Len(data')] = msg
    BY <1>4
  <2> QED BY <2>1, <1>1, TypeOfLen DEF Reached, End
<1>9. AcksCurrent'
  BY <1>3 DEF AcksCurrent
<1>10. (received <= offset)' /\ (outstanding <= offset - acked)'
  BY <1>1, <1>3 DEF TypeOK
<1>11. (phase = "draining" => offset = Size)'
  BY <1>3 DEF ReadChunk
<1> QED BY <1>3, <1>5, <1>7, <1>8, <1>9, <1>10, <1>11

\* The thread's last response may follow a chain that is whole.
LEMMA LastSent ==
  ASSUME Inv, NEW msg \in Responses, Respond(msg),
         msg.op = "eof" \/ msg.op = "error", msg.op = "eof" => phase = "draining",
         phase # "ended", phase' = "ended",
         UNCHANGED <<offset, outstanding, acked, acks, up, received, intact, client>>
  PROVE  Inv'
<1> USE DEF Inv
<1>1. /\ data' \in Seq(Responses)
      /\ ~up => data' = data
      /\ up => /\ Len(data') = Len(data) + 1
               /\ \A i \in 1 .. Len(data) : data'[i] = data[i]
               /\ data'[Len(data) + 1] = msg
  BY Sent
<1>2. TypeOK'
  BY <1>1 DEF TypeOK
<1>3. (client = "receiving" => Chained)'
  <2> SUFFICES ASSUME client = "receiving", NEW i \in 1 .. Len(data')
               PROVE  /\ data'[i].op = "chunk" =>
                           data'[i].off = End(i - 1)' /\ End(i)' <= offset
                      /\ data'[i].op = "eof" => End(i - 1)' = Size
                      /\ i > 1 => data'[i - 1].op = "chunk"
    BY DEF Chained
  <2>1. CASE i \in 1 .. Len(data)
    <3>1. data'[i] = data[i] /\ (i > 1 => data'[i - 1] = data[i - 1])
      BY <2>1, <1>1, TypeOfLen
    <3>2. End(i)' = End(i) /\ End(i - 1)' = End(i - 1)
      BY <2>1, <3>1, TypeOfLen DEF End
    <3> QED BY <2>1, <3>1, <3>2 DEF Chained
  <2>2. CASE i \notin 1 .. Len(data)
    <3>1. up /\ i = Len(data) + 1 /\ data'[i] = msg
      BY <2>2, <1>1, TypeOfLen
    <3>2. End(i - 1)' = End(i - 1)
      BY <3>1, <1>1, TypeOfLen DEF End
    <3>3. msg.op = "eof" => End(i - 1) = Size
      BY <3>1, TypeOfLen DEF Reached
    <3>4. i > 1 => data'[i - 1].op = "chunk"
      BY <3>1, <1>1, TypeOfLen DEF Reached
    <3> QED BY <3>1, <3>2, <3>3, <3>4
  <2> QED BY <2>1, <2>2
<1>4. AcksCurrent'
  BY DEF AcksCurrent
<1> QED BY <1>2, <1>3, <1>4

\* An acknowledgement takes no more off the count than has been acknowledged.
LEMMA AckReceived ==
  ASSUME Inv, ReceiveAck
  PROVE  Inv'
<1> USE DEF Inv
<1>1. /\ Head(acks) = acks[1] /\ acks[1] \in 0 .. Size
      /\ Tail(acks) \in Seq(0 .. Size)
      /\ Len(acks) \in Nat \ {0} /\ Len(Tail(acks)) = Len(acks) - 1
      /\ \A i \in 1 .. Len(Tail(acks)) : Tail(acks)[i] = acks[i + 1]
  BY HeadTailProperties DEF ReceiveAck, TypeOK
<1>2. /\ acks' = Tail(acks) /\ acked' = acks[1]
      /\ outstanding' = SaturatingSub(outstanding, acks[1])
      /\ UNCHANGED <<phase, offset, data, up, received, intact, client>>
  BY <1>1 DEF ReceiveAck, clientVars
<1>3. TypeOK'
  BY <1>1, <1>2 DEF TypeOK, SaturatingSub
<1>4. acks[1] <= received
  BY <1>1 DEF AcksCurrent
<1>5. AcksCurrent'
  <2>1. \A i \in 1 .. Len(acks') : acks'[i] <= received'
    BY <1>1, <1>2 DEF AcksCurrent
  <2>2. up /\ client = "receiving" =>
          received = IF acks' = <<>> THEN acks[1] ELSE acks'[Len(acks')]
    <3>1. CASE acks' = <<>>
      <4>1. Len(acks) = 1
        <5>1. Len(acks') = 0
          BY <3>1
        <5> QED BY <5>1, <1>1, <1>2
      <4> QED BY <3>1, <4>1 DEF AcksCurrent, ReceiveAck
    <3>2. CASE acks' # <<>>
      <4>1. Len(acks') \in Nat \ {0}
        BY <3>2, <1>1, <1>2, EmptySeq
      <4>2. acks'[Len(acks')] = acks[Len(acks)]
        BY <4>1, <1>1, <1>2
      <4> QED BY <3>2, <4>2 DEF AcksCurrent, ReceiveAck
    <3> QED BY <3>1, <3>2
  <2> QED BY <1>2, <1>4, <2>1, <2>2 DEF AcksCurrent
<1>6. (outstanding <= offset - acked)'
  BY <1>1, <1>2, <1>4 DEF SaturatingSub, TypeOK
<1>7. (client = "receiving" => Chained)' /\ (client = "receiving" /\ up /\ phase # "ended" => Reached)'
  BY <1>2 DEF Chained, Reached, End
<1> QED BY <1>2, <1>3, <1>5, <1>6, <1>7

\* A chunk is written where it was read, and its acknowledgement is the new total.
LEMMA ChunkWritten ==
  ASSUME Inv, WriteChunk
  PROVE  Inv'
<1> USE DEF Inv
<1>1. /\ client = "receiving" /\ data # <<>> /\ data[1].op = "chunk"
      /\ Head(data) = data[1] /\ data[1] \in Responses
      /\ Len(data) \in Nat \ {0}
      /\ data' \in Seq(Responses)
      /\ Len(data') = Len(data) - 1
      /\ \A i \in 1 .. Len(data') : data'[i] = data[i + 1]
  BY Taken DEF WriteChunk, Takes
<1>2. UNCHANGED <<phase, offset, outstanding, acked, up, client>>
  BY DEF WriteChunk, serverVars
<1>3. data[1].len \in 1 .. Chunk /\ data[1].off \in 0 .. Size
  BY <1>1 DEF Responses
<1>4. data[1].off = received /\ received' = End(1) /\ End(1) <= offset /\ intact'
  <2>1. data[1].off = End(0) /\ End(1) <= offset
    BY <1>1 DEF Chained
  <2>2. data[1].off = received /\ received' = End(1)
    BY <1>1, <1>3, <2>1 DEF WriteChunk, End
  <2>3. intact'
    BY <1>1, <2>2, Zenon DEF WriteChunk
  <2> QED BY <2>1, <2>2, <2>3
<1>5. received' \in 0 .. Size /\ received < received' /\ received' <= offset'
  BY <1>2, <1>3, <1>4 DEF WriteChunk, TypeOK, End
<1>6. /\ acks' \in Seq(0 .. Size)
      /\ ~up => acks' = acks
      /\ up => /\ Len(acks') = Len(acks) + 1 /\ acks' # <<>>
               /\ \A i \in 1 .. Len(acks) : acks'[i] = acks[i]
               /\ acks'[Len(acks) + 1] = received'
  <2>1. CASE up
    <3>1. acks' = Append(acks, received') /\ acks \in Seq(0 .. Size)
      BY <2>1 DEF WriteChunk, TypeOK
    <3> QED BY <2>1, <3>1, <1>5, AppendProperties
  <2>2. CASE ~up
    BY <2>2 DEF WriteChunk, TypeOK
  <2> QED BY <2>1, <2>2
<1>7. TypeOK'
  BY <1>1, <1>2, <1>4, <1>5, <1>6 DEF TypeOK
<1>8. \A i \in 0 .. Len(data') : End(i)' = End(i + 1)
  BY <1>1, <1>4 DEF End
<1>9. Chained'
  <2> SUFFICES ASSUME NEW i \in 1 .. Len(data')
               PROVE  /\ data'[i].op = "chunk" =>
                           data'[i].off = End(i - 1)' /\ End(i)' <= offset
                      /\ data'[i].op = "eof" => End(i - 1)' = Size
                      /\ i > 1 => data'[i - 1].op = "chunk"
    BY <1>2 DEF Chained
  <2>1. data'[i] = data[i + 1] /\ End(i)' = End(i + 1) /\ End(i - 1)' = End(i)
    BY <1>1, <1>8
  <2>2. i > 1 => data'[i - 1] = data[i]
    BY <1>1
  <2>3. i + 1 \in 1 .. Len(data) /\ (i + 1) - 1 = i /\ i + 1 > 1
    BY <1>1
  <2>4. /\ data[i + 1].op = "chunk" => data[i + 1].off = End(i) /\ End(i + 1) <= offset
        /\ data[i + 1].op = "eof" => End(i) = Size
        /\ data[i].op = "chunk"
    BY <1>1, <2>3 DEF Chained
  <2> QED BY <2>1, <2>2, <2>4
<1>10. (up /\ phase # "ended" => Reached)'
  <2> SUFFICES ASSUME up, phase # "ended" PROVE Reached'
    BY <1>2
  <2>1. Len(data') \in 0 .. Len(data') /\ Len(data') + 1 = Len(data)
    BY <1>1
  <2>2. End(Len(data))' = End(Len(data))
    BY <1>1, <1>4, <2>1 DEF End
  <2>3. ASSUME data' # <<>> PROVE data'[Len(data')] = data[Len(data)]
    <3>1. Len(data') \in 1 .. Len(data')
      BY <1>1, <2>3, EmptySeq
    <3> QED BY <1>1, <2>1, <3>1
  <2> QED BY <1>1, <1>2, <2>2, <2>3 DEF Reached
<1>11. AcksCurrent'
  <2>1. \A i \in 1 .. Len(acks') : acks'[i] <= received'
    <3> SUFFICES ASSUME NEW i \in 1 .. Len(acks') PROVE acks'[i] <= received'
      OBVIOUS
    <3>1. CASE i \in 1 .. Len(acks)
      <4>1. acks[i] \in 0 .. Size /\ acks[i] <= received
        BY <3>1, ElementOfSeq DEF AcksCurrent, TypeOK
      <4>2. acks'[i] = acks[i]
        BY <3>1, <1>6
      <4> QED BY <4>1, <4>2, <1>5 DEF TypeOK
    <3>2. CASE i \notin 1 .. Len(acks)
      <4>1. acks'[i] = received'
        BY <3>2, <1>6, TypeOfLen
      <4> QED BY <4>1, <1>5
    <3> QED BY <3>1, <3>2
  <2> QED BY <1>2, <1>5, <1>6, <2>1, TypeOfLen DEF AcksCurrent, TypeOK
<1> QED BY <1>2, <1>4, <1>5, <1>7, <1>9, <1>10, <1>11

\* What a broken connection loses is the end of the chain.
LEMMA TailLost ==
  ASSUME Inv, Disconnect
  PROVE  Inv'
<1> USE DEF Inv
<1>1. PICK k \in 0 .. Len(data) : data' = SubSeq(data, 1, k)
  BY DEF Disconnect
<1>2. \A i \in 1 .. k : i \in 1 .. Len(data) /\ data[i] \in Responses
  BY <1>1, TypeOfLen, ElementOfSeq DEF TypeOK
<1>3. /\ data' \in Seq(Responses) /\ Len(data') = k
      /\ \A i \in 1 .. k : data'[i] = data[i]
  BY <1>1, <1>2, TypeOfLen, SubSeqProperties
<1>4. /\ up' = FALSE /\ acks' = <<>>
      /\ UNCHANGED <<phase, offset, outstanding, acked, received, intact, client>>
  BY DEF Disconnect, serverVars, clientVars
<1>5. TypeOK'
  BY <1>3, <1>4, EmptySeq DEF TypeOK
<1>6. (client = "receiving" => Chained)'
  <2> SUFFICES ASSUME client = "receiving", NEW i \in 1 .. Len(data')
               PROVE  /\ data'[i].op = "chunk" =>
                           data'[i].off = End(i - 1)' /\ End(i)' <= offset
                      /\ data'[i].op = "eof" => End(i - 1)' = Size
                      /\ i > 1 => data'[i - 1].op = "chunk"
    BY <1>4 DEF Chained
  <2>1. i \in 1 .. Len(data) /\ data'[i] = data[i] /\ (i > 1 => data'[i - 1] = data[i - 1])
    BY <1>1, <1>2, <1>3, TypeOfLen
  <2>2. End(i)' = End(i) /\ End(i - 1)' = End(i - 1)
    BY <2>1, <1>4 DEF End
  <2> QED BY <2>1, <2>2 DEF Chained
<1>7. AcksCurrent'
  BY <1>4 DEF AcksCurrent
<1> QED BY <1>4, <1>5, <1>6, <1>7

-----------------------------------------------------------------------------

LEMMA InitInv == Init => Inv
<1> SUFFICES ASSUME Init PROVE Inv
  OBVIOUS
<1>1. TypeOK
  BY EmptySeq DEF Init, TypeOK
<1>2. Len(data) = 0 /\ Len(acks) = 0
  BY DEF Init
<1>3. Chained /\ Reached /\ AcksCurrent
  BY <1>2 DEF Init, Chained, Reached, AcksCurrent, End
<1> QED BY <1>1, <1>3 DEF Init, Inv

LEMMA StepInv == Inv /\ [Next]_vars => Inv'
<1> SUFFICES ASSUME Inv, [Next]_vars PROVE Inv'
  OBVIOUS
<1>1. CASE ReadEnd
  <2>1. TypeOK'
    BY <1>1 DEF ReadEnd, Inv, TypeOK, clientVars
  <2> QED BY <1>1, <2>1 DEF ReadEnd, Inv, clientVars, Chained, Reached, End, AcksCurrent
<1>2. CASE SendEof
  <2>1. [op |-> "eof"] \in Responses
    BY DEF Responses
  <2> QED BY <1>2, <2>1, LastSent DEF SendEof, clientVars
<1>3. CASE ReadFails
  <2>1. [op |-> "error"] \in Responses
    BY DEF Responses
  <2> QED BY <1>3, <2>1, LastSent DEF ReadFails, clientVars
<1>4. CASE WaitFails
  <2> DEFINE msg == [op |-> IF phase = "draining" THEN "eof" ELSE "error"]
  <2>1. msg \in Responses
    BY DEF Responses
  <2> QED BY <1>4, <2>1, LastSent DEF WaitFails, WaitsForAck, clientVars
<1>5. CASE WriteFails \/ TakeEof \/ TakeError
  <2>1. data # <<>> /\ data' = Tail(data) /\ client' \in {"done", "failed"}
    BY <1>5 DEF WriteFails, TakeEof, TakeError, Takes
  <2>2. UNCHANGED <<phase, offset, outstanding, acked, acks, up, received, intact>>
    BY <1>5 DEF WriteFails, TakeEof, TakeError, serverVars
  <2>3. data' \in Seq(Responses)
    BY <2>1, Taken DEF Inv
  <2>4. TypeOK'
    BY <2>1, <2>2, <2>3 DEF Inv, TypeOK
  <2> QED BY <2>1, <2>2, <2>4 DEF Inv, AcksCurrent
<1>6. CASE GiveUp
  <2>1. TypeOK'
    BY <1>6 DEF GiveUp, Inv, TypeOK, serverVars
  <2> QED BY <1>6, <2>1 DEF GiveUp, Inv, AcksCurrent, serverVars
<1>7. CASE UNCHANGED vars
  <2>1. UNCHANGED <<phase, offset, outstanding, acked, data, acks, up, received, intact, client>>
    BY <1>7 DEF vars
  <2>2. TypeOK'
    BY <2>1 DEF Inv, TypeOK
  <2> QED BY <2>1, <2>2 DEF Inv, Chained, Reached, End, AcksCurrent
<1> QED
  BY <1>1, <1>2, <1>3, <1>4, <1>5, <1>6, <1>7, ChunkSent, AckReceived, ChunkWritten, TailLost
  DEF Next, ServerStep, ClientStep

LEMMA InvHolds == Spec => []Inv
  BY InitInv, StepInv, PTL DEF Spec

\* The types hold for every file, chunk and window.
THEOREM TypeCorrect == Spec => []TypeOK
<1>1. Inv => TypeOK
  BY DEF Inv
<1> QED BY <1>1, InvHolds, PTL

\* The server's count of unacknowledged bytes stays below the window plus a chunk.
THEOREM CountIsBounded == Spec => []CountBounded
<1>1. Init => CountBounded
  BY DEF Init, CountBounded
<1>2. Inv /\ CountBounded /\ [Next]_vars => CountBounded'
  <2> SUFFICES ASSUME Inv, CountBounded, [Next]_vars PROVE CountBounded'
    OBVIOUS
  <2>1. CASE ReadChunk
    BY <2>1 DEF ReadChunk, WindowOpen, CountBounded, Inv, TypeOK
  <2>2. CASE ReceiveAck
    <3>1. Head(acks) \in 0 .. Size
      BY <2>2, HeadTailProperties DEF ReceiveAck, Inv, TypeOK
    <3> QED BY <2>2, <3>1 DEF ReceiveAck, SaturatingSub, CountBounded, Inv, TypeOK
  <2>3. CASE outstanding' = outstanding
    BY <2>3 DEF CountBounded
  <2> QED
    BY <2>1, <2>2, <2>3 DEF Next, vars, ServerStep, ClientStep, ReadEnd, SendEof, ReadFails,
       WaitFails, WriteChunk, WriteFails, TakeEof, TakeError, GiveUp, Disconnect, serverVars
<1> QED BY <1>1, <1>2, InvHolds, PTL DEF Spec

\* While the server waits for an acknowledgement and both ends are alive, something
\* is under way: when the queues are empty the client has acknowledged all that was
\* sent, and the count, which is never above what is unacknowledged, is zero.
THEOREM NeverStalls == Spec => []NoStall
<1>1. Inv => NoStall
  <2> SUFFICES ASSUME Inv, WaitsForAck, up, client = "receiving", data = <<>>, acks = <<>>
               PROVE  FALSE
    BY DEF NoStall
  <2>1. outstanding > 0
    BY DEF WaitsForAck, WindowOpen, Inv, TypeOK
  <2>2. Len(data) = 0 /\ phase # "ended"
    BY DEF WaitsForAck
  <2>3. received = offset
    BY <2>2 DEF Inv, Reached, End
  <2>4. acked = received
    BY DEF Inv, AcksCurrent
  <2> QED BY <2>1, <2>3, <2>4 DEF Inv, TypeOK
<1> QED BY <1>1, InvHolds, PTL

\* Every download, with any chunk sizes, errors, timeouts and disconnects, is a
\* faithful copy: the local file is a prefix of the source, complete when "done".
THEOREM DownloadIsCopy == Spec => CopySpec
<1>1. Init => IsCopy!Init
  BY DEF Init, IsCopy!Init
<1>2. Inv /\ Inv' /\ [Next]_vars => [IsCopy!Next]_IsCopy!copyVars
  <2> SUFFICES ASSUME Inv, Inv', [Next]_vars PROVE [IsCopy!Next]_IsCopy!copyVars
    OBVIOUS
  <2> USE DEF IsCopy!Next, IsCopy!copyVars
  <2>1. CASE WriteChunk
    <3>1. Head(data).len \in 1 .. Chunk
      BY <2>1, Taken DEF WriteChunk, Takes, Inv, Responses
    <3>2. received < received' /\ received' <= Size
      <4>1. received' = received + Head(data).len
        BY <2>1 DEF WriteChunk
      <4>2. received \in 0 .. Size /\ received' \in 0 .. Size
        BY DEF Inv, TypeOK
      <4> QED BY <3>1, <4>1, <4>2
    <3> QED BY <2>1, <3>2 DEF WriteChunk, Takes, Inv, IsCopy!Grow
  <2>2. CASE TakeEof
    <3>1. Len(data) \in Nat \ {0} /\ data[1].op = "eof"
      BY <2>2, Taken DEF TakeEof, Takes, Inv
    <3>2. received = Size
      BY <2>2, <3>1 DEF TakeEof, Takes, Inv, Chained, End
    <3> QED BY <2>2, <3>2 DEF TakeEof, Takes, IsCopy!Complete
  <2>3. CASE WriteFails \/ TakeError \/ GiveUp
    BY <2>3 DEF WriteFails, TakeError, GiveUp, Takes, IsCopy!Fail
  <2>4. CASE UNCHANGED clientVars
    BY <2>4 DEF clientVars
  <2> QED
    BY <2>1, <2>2, <2>3, <2>4 DEF Next, vars, ServerStep, ClientStep, ReadChunk, ReadEnd,
       ReceiveAck, SendEof, ReadFails, WaitFails, Disconnect, clientVars
<1> QED BY <1>1, <1>2, InvHolds, PTL DEF Spec, CopySpec, IsCopy!Spec
=============================================================================
