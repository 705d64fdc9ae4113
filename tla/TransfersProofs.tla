--------------------------- MODULE TransfersProofs ---------------------------
(***************************************************************************)
(* The table of transfers, for any number of connections, ids, transfers   *)
(* and chunks: what is registered there, and who can be cut off.           *)
(***************************************************************************)
EXTENDS Transfers, SequenceTheorems, TLAPS

Started == {"upload", "download"}
Responses == {"uploadAck", "done", "meta", "chunk", "eof", "error"}
Threads == [st : {"none", "ended"} \cup Active, kind : {"upload", "download"},
            path : Paths \cup {None}, file : Keys \cup {None}, n : 0 .. DownChunks]

\* What of the client's operation the types rest on: while it goes on it has an id, and
\* while chunks are still to be sent they are not all sent.
JobInv ==
  /\ ~JobOver => job.id \in 1 .. MaxId
  /\ job.st \in {"waitUploadAck", "sending"} => job.n < Chunks

\* An upload has a path.
PathInv ==
  \A k \in Keys : thread[k].st \in Active /\ thread[k].kind = "upload" => thread[k].path \in Paths

Inv0 == TypeOK /\ JobInv /\ PathInv

-----------------------------------------------------------------------------
(* Types                                                                   *)

\* A response goes to the client's queue or nowhere.
LEMMA RespondType ==
  ASSUME TypeOK, NEW k \in Keys, NEW op \in Responses, Respond(k, op)
  PROVE  inbox' \in Seq(Responses)
BY DEF Respond, TypeOK, Responses

LEMMA ThreadType == ASSUME TypeOK PROVE thread \in [Keys -> Threads]
BY DEF TypeOK, Threads

\* A thread that only goes on to another state.
LEMMA MoveType ==
  ASSUME NEW k \in Keys, thread \in [Keys -> Threads], NEW s \in {"ended"} \cup Active,
         thread' = [thread EXCEPT ![k].st = s]
  PROVE  thread' \in [Keys -> Threads]
<1>1. [thread[k] EXCEPT !.st = s] \in Threads
  BY DEF Threads
<1> QED BY <1>1

\* A thread that returns.
LEMMA FinishType ==
  ASSUME TypeOK, NEW k \in Keys, NEW op \in Responses, Finish(k, op)
  PROVE  /\ inbox' \in Seq(Responses) /\ rx' \in [Keys -> Seq(Requests)]
         /\ thread' \in [Keys -> Threads]
<1>1. inbox' \in Seq(Responses)
  BY RespondType DEF Finish
<1>2. rx' \in [Keys -> Seq(Requests)]
  <2>1. <<>> \in Seq(Requests) /\ rx \in [Keys -> Seq(Requests)]
    BY DEF TypeOK
  <2> QED BY <2>1 DEF Finish
<1>3. thread' \in [Keys -> Threads]
  BY ThreadType, MoveType DEF Finish, Active, Working
<1> QED BY <1>1, <1>2, <1>3

\* What a response taken makes of the operation.
LEMMA AfterType ==
  ASSUME NEW st \in Waiting, NEW op \in Responses, NEW to \in After(st, op)
  PROVE  to \in Waiting \cup {"sending"} \cup Ended /\ (to = "sending" => st = "waitUploadAck")
         /\ (to = "waitUploadAck" => st = "waitUploadAck")
<1>1. op # "error" => to \in {"sending", "uploaded", "receiving", "over", st}
  BY DEF After, Waiting
<1>2. to = "sending" => st = "waitUploadAck"
  BY DEF After, Waiting
<1>3. op = "error" => to = "over"
  BY DEF After
<1> QED BY <1>1, <1>2, <1>3 DEF Waiting, Ended

\* The client's worker.
LEMMA ClientType == ASSUME Inv0, ClientStep PROVE TypeOK' /\ JobInv'
<1> USE TransfersAssumption DEF connVars, clientVars, fileVars
<1>1. CASE ListRemote
  <2>1. nextId' \in 1 .. MaxId + 1
    BY <1>1 DEF ListRemote, CanStart, Inv0, TypeOK
  <2>2. /\ job' \in [st : Waiting \cup {"sending"} \cup Ended,
                     id : 0 .. MaxId, path : Paths \cup {None}, n : 0 .. Chunks]
        /\ job'.st \in Ended
    BY <1>1 DEF ListRemote, Inv0, TypeOK, Ended
  <2> QED BY <1>1, <2>1, <2>2 DEF ListRemote, Inv0, TypeOK, JobInv, JobOver
<1>2. ASSUME NEW p \in Paths, StartUpload(p) PROVE TypeOK' /\ JobInv'
  <2>1. nextId \in 1 .. MaxId /\ nextId' \in 1 .. MaxId + 1
    BY <1>2 DEF StartUpload, CanStart, Inv0, TypeOK
  <2>2. [op |-> "upload", id |-> nextId, path |-> p] \in Requests
    BY <2>1 DEF Requests
  <2>3. up' \in Seq(Requests) /\ inbox' \in Seq(Responses)
    BY <1>2, <2>2 DEF StartUpload, Inv0, TypeOK
  <2>4. job' = [st |-> "waitUploadAck", id |-> nextId, path |-> p, n |-> 0]
    BY <1>2 DEF StartUpload
  <2> QED BY <1>2, <2>1, <2>3, <2>4
          DEF StartUpload, Inv0, TypeOK, JobInv, JobOver, Ended, Waiting, Responses
<1>3. CASE StartDownload
  <2>1. nextId \in 1 .. MaxId /\ nextId' \in 1 .. MaxId + 1
    BY <1>3 DEF StartDownload, CanStart, Inv0, TypeOK
  <2>2. [op |-> "download", id |-> nextId] \in Requests
    BY <2>1 DEF Requests
  <2>3. up' \in Seq(Requests) /\ inbox' \in Seq(Responses)
    BY <1>3, <2>2 DEF StartDownload, Inv0, TypeOK
  <2>4. job' = [st |-> "waitMeta", id |-> nextId, path |-> None, n |-> 0]
    BY <1>3 DEF StartDownload
  <2> QED BY <1>3, <2>1, <2>3, <2>4
          DEF StartDownload, Inv0, TypeOK, JobInv, JobOver, Ended, Waiting, Responses
<1>4. CASE TakeResponse
  <2>1. PICK to \in After(job.st, Head(inbox)) :
          /\ job' = [job EXCEPT !.st = to]
          /\ inbox' = IF to \in Ended THEN <<>> ELSE Tail(inbox)
          /\ up' = IF Head(inbox) = "chunk" /\ job.st = "receiving" /\ to = "receiving" /\ alive
                   THEN Append(up, [op |-> "ack", id |-> job.id]) ELSE up
    BY <1>4 DEF TakeResponse
  <2>2. /\ job.st \in Waiting /\ inbox # <<>> /\ inbox \in Seq(Responses)
        /\ Head(inbox) \in Responses /\ inbox' \in Seq(Responses)
    BY <1>4, <2>1 DEF TakeResponse, Inv0, TypeOK, Responses
  <2>3. to \in Waiting \cup {"sending"} \cup Ended /\ (to = "sending" => job.st = "waitUploadAck")
        /\ (to = "waitUploadAck" => job.st = "waitUploadAck")
    BY <2>1, <2>2, AfterType
  <2>4. job.id \in 1 .. MaxId
    BY <2>2 DEF Inv0, JobInv, JobOver, Ended, Waiting
  <2>5. up' \in Seq(Requests)
    <3>1. [op |-> "ack", id |-> job.id] \in Requests
      BY <2>4 DEF Requests
    <3> QED BY <2>1, <3>1 DEF Inv0, TypeOK
  <2>6. /\ job' \in [st : Waiting \cup {"sending"} \cup Ended,
                     id : 0 .. MaxId, path : Paths \cup {None}, n : 0 .. Chunks]
        /\ job'.st = to /\ job'.id = job.id /\ job'.n = job.n
    BY <2>1, <2>3 DEF Inv0, TypeOK
  <2>7. JobInv'
    BY <2>3, <2>4, <2>6 DEF Inv0, JobInv
  <2> QED BY <1>4, <2>2, <2>5, <2>6, <2>7 DEF TakeResponse, Inv0, TypeOK, Responses
<1>5. CASE SendChunk
  <2>1. job.id \in 1 .. MaxId /\ job.n + 1 \in 1 .. Chunks
    BY <1>5 DEF SendChunk, Inv0, JobInv, JobOver, Ended, TypeOK
  <2>2. [op |-> "data", id |-> job.id, n |-> job.n + 1, eof |-> job.n + 1 = Chunks] \in Requests
    BY <2>1 DEF Requests
  <2>3. up' \in Seq(Requests)
    BY <1>5, <2>2 DEF SendChunk, Inv0, TypeOK
  <2>4. job' = [job EXCEPT !.n = job.n + 1,
                           !.st = IF job.n + 1 = Chunks THEN "waitDone" ELSE job.st]
    BY <1>5 DEF SendChunk
  <2>5. /\ job' \in [st : Waiting \cup {"sending"} \cup Ended,
                     id : 0 .. MaxId, path : Paths \cup {None}, n : 0 .. Chunks]
        /\ JobInv'
    <3>1. CASE job.n + 1 = Chunks
      <4>1. job' = [job EXCEPT !.n = job.n + 1, !.st = "waitDone"]
        BY <2>4, <3>1
      <4>2. job' = [st |-> "waitDone", id |-> job.id, path |-> job.path, n |-> job.n + 1]
        BY <4>1 DEF Inv0, TypeOK
      <4>3. job.path \in Paths \cup {None} /\ job.n + 1 \in 0 .. Chunks /\ job.id \in 0 .. MaxId
        BY <2>1 DEF Inv0, TypeOK
      <4> QED BY <4>2, <4>3, <2>1 DEF JobInv, JobOver, Ended, Waiting
    <3>2. CASE job.n + 1 # Chunks
      <4>1. job' = [job EXCEPT !.n = job.n + 1] /\ job.st = "sending"
        BY <1>5, <2>4, <3>2 DEF SendChunk, Inv0, TypeOK
      <4>2. job.n + 1 < Chunks
        BY <2>1, <3>2
      <4>3. job' = [st |-> "sending", id |-> job.id, path |-> job.path, n |-> job.n + 1]
        BY <4>1 DEF Inv0, TypeOK
      <4>4. job.path \in Paths \cup {None} /\ job.n + 1 \in 0 .. Chunks /\ job.id \in 0 .. MaxId
        BY <2>1 DEF Inv0, TypeOK
      <4> QED BY <4>2, <4>3, <4>4, <2>1 DEF JobInv, JobOver, Ended, Waiting
    <3> QED BY <3>1, <3>2
  <2> QED BY <1>5, <2>3, <2>5 DEF SendChunk, Inv0, TypeOK
<1>6. CASE GiveUp
  <2>1. /\ job' \in [st : Waiting \cup {"sending"} \cup Ended,
                     id : 0 .. MaxId, path : Paths \cup {None}, n : 0 .. Chunks]
        /\ job'.st \in Ended
    BY <1>6 DEF GiveUp, Inv0, TypeOK, Ended
  <2>2. inbox' = <<>> /\ inbox' \in Seq(Responses)
    BY <1>6 DEF GiveUp
  <2> QED BY <1>6, <2>1, <2>2 DEF GiveUp, Inv0, TypeOK, JobInv, JobOver, Responses
<1> QED BY <1>1, <1>2, <1>3, <1>4, <1>5, <1>6 DEF ClientStep

\* Requests keep their types when the first one is taken.
LEMMA RequestsTail ==
  ASSUME NEW s \in Seq(Requests), s # <<>>
  PROVE  Head(s) \in Requests /\ Tail(s) \in Seq(Requests)
BY HeadTailProperties

LEMMA NoThreadType == NoThread \in Threads
<1>1. 0 \in 0 .. DownChunks
  BY TransfersAssumption
<1> QED BY <1>1 DEF NoThread, Threads

\* The record of a thread that was just made.
LEMMA SpawnedType ==
  ASSUME NEW kind \in Started, NEW path \in Paths \cup {None}
  PROVE  [NoThread EXCEPT !.st = "spawned", !.kind = kind, !.path = path] \in Threads
<1>1. NoThread \in Threads
  BY NoThreadType
<1>2. "spawned" \in {"none", "ended"} \cup Active
  BY DEF Active
<1> HIDE DEF NoThread
<1> QED BY <1>1, <1>2 DEF Threads, Started

\* The read loop.
LEMMA ReadType == ASSUME Inv0, ReadLoop PROVE TypeOK' /\ JobInv'
<1> USE DEF connVars, clientVars, fileVars
<1>1. up # <<>> /\ Head(up) \in Requests /\ up' \in Seq(Requests)
  BY RequestsTail DEF ReadLoop, ReadStart, ReadControl, Inv0, TypeOK
<1>2. CASE ReadStart
  <2> DEFINE req == Head(up)
             k == <<conn, req.id>>
             path == IF req.op = "upload" THEN req.path ELSE None
  <2>1. k \in Keys /\ path \in Paths \cup {None} /\ req.op \in Started
    BY <1>1, <1>2 DEF ReadStart, Requests, Started, Keys, Inv0, TypeOK
  <2>2. CASE AllowFile
    <3>1. Spawn(k, req.op, path) /\ UNCHANGED inbox
      BY <1>2, <2>2 DEF ReadStart
    <3>2. [NoThread EXCEPT !.st = "spawned", !.kind = req.op, !.path = path] \in Threads
      BY <2>1, SpawnedType
    <3>3. thread' \in [Keys -> Threads]
      BY <3>1, <3>2, <2>1, ThreadType DEF Spawn, Inv0
    <3>4. tangled' \subseteq Keys
      BY <3>1, <2>1 DEF Spawn, Beside, Inv0, TypeOK
    <3> QED BY <1>1, <1>2, <3>1, <3>3, <3>4 DEF ReadStart, Inv0, TypeOK, JobInv, JobOver, Threads
  <2>3. CASE ~AllowFile
    <3>1. Respond(k, "error") /\ UNCHANGED <<thread, tangled>>
      BY <1>2, <2>3 DEF ReadStart
    <3>2. inbox' \in Seq(Responses)
      BY <3>1, <2>1, RespondType DEF Inv0, Responses
    <3> QED BY <1>1, <1>2, <3>1, <3>2
            DEF ReadStart, Inv0, TypeOK, JobInv, JobOver, Responses
  <2> QED BY <2>2, <2>3
<1>3. CASE ReadControl
  <2> DEFINE k == table[Head(up).id]
  <2>1. Head(up).id \in 1 .. MaxId /\ k \in Keys \cup {None}
    BY <1>1 DEF Requests, Inv0, TypeOK
  <2>2. rx' \in [Keys -> Seq(Requests)]
    <3>1. CASE k = None \/ thread[k].st = "closing"
      BY <1>3, <3>1 DEF ReadControl, Inv0, TypeOK
    <3>2. CASE k # None /\ thread[k].st # "closing"
      <4>1. rx' = [rx EXCEPT ![k] = Append(rx[k], Head(up))]
        BY <1>3, <3>2 DEF ReadControl
      <4>2. k \in Keys /\ rx \in [Keys -> Seq(Requests)]
        BY <2>1, <3>2 DEF Inv0, TypeOK
      <4>3. Append(rx[k], Head(up)) \in Seq(Requests)
        BY <4>2, <1>1
      <4> QED BY <4>1, <4>2, <4>3
    <3> QED BY <3>1, <3>2
  <2> QED BY <1>1, <1>3, <2>2 DEF ReadControl, Inv0, TypeOK, JobInv, JobOver
<1> QED BY <1>2, <1>3 DEF ReadLoop

\* The threads.
LEMMA ThreadStepType ==
  ASSUME Inv0, NEW k \in Keys, ThreadStep(k)
  PROVE  TypeOK' /\ JobInv'
<1> USE DEF connVars, clientVars, fileVars
<1> DEFINE Kept == UNCHANGED <<conn, alive, nextId, job, up, tangled>>
           Rest == /\ inbox' \in Seq(Responses) /\ table' \in [1 .. MaxId -> Keys \cup {None}]
                   /\ thread' \in [Keys -> Threads] /\ rx' \in [Keys -> Seq(Requests)]
                   /\ dir' \in [Paths -> Keys \cup {None}]
                   /\ data' \in [Keys -> SUBSET (Keys \X (1 .. Chunks))]
<1>0. /\ thread \in [Keys -> Threads] /\ rx \in [Keys -> Seq(Requests)]
      /\ inbox \in Seq(Responses) /\ table \in [1 .. MaxId -> Keys \cup {None}]
      /\ dir \in [Paths -> Keys \cup {None}]
      /\ data \in [Keys -> SUBSET (Keys \X (1 .. Chunks))]
      /\ k[2] \in 1 .. MaxId /\ TypeOK
  BY ThreadType DEF Inv0, TypeOK, Responses, Keys
<1>1. SUFFICES Kept /\ Rest
  BY DEF Inv0, TypeOK, JobInv, JobOver, Responses, Threads
<1>2. CASE Insert(k)
  BY <1>0, <1>2, MoveType DEF Insert, Active, Working
<1>3. CASE OpenFails(k)
  BY <1>0, <1>3, FinishType DEF OpenFails, Responses
<1>4. CASE CreateFile(k)
  <2> DEFINE p == thread[k].path
             f == IF dir[p] = None THEN k ELSE dir[p]
  <2>1. [thread[k] EXCEPT !.st = "running", !.file = f] \in Threads
    <3>1. f \in Keys
      BY <1>0, <1>4, TransfersAssumption DEF CreateFile, Inv0, PathInv, Active, Working
    <3>2. "running" \in {"none", "ended"} \cup Active
      BY DEF Active, Working
    <3>3. thread[k] \in Threads
      BY <1>0
    <3> HIDE DEF f
    <3> QED BY <3>1, <3>2, <3>3 DEF Threads
  <2>2. thread' \in [Keys -> Threads]
    BY <1>0, <1>4, <2>1 DEF CreateFile
  <2>3. dir' \in [Paths -> Keys \cup {None}]
    BY <1>0, <1>4 DEF CreateFile
  <2>4. data' \in [Keys -> SUBSET (Keys \X (1 .. Chunks))]
    BY <1>0, <1>4 DEF CreateFile
  <2>5. inbox' \in Seq(Responses)
    BY <1>0, <1>4, RespondType DEF CreateFile, Responses
  <2> QED BY <1>0, <1>4, <2>2, <2>3, <2>4, <2>5 DEF CreateFile
<1>5. CASE WriteChunk(k)
  <2> DEFINE msg == Head(rx[k])
  <2>1. msg \in Requests /\ msg.op = "data" /\ Tail(rx[k]) \in Seq(Requests)
    BY <1>0, <1>5, RequestsTail DEF WriteChunk, Receives
  <2>2. msg.n \in 1 .. Chunks
    BY <2>1 DEF Requests
  <2>3. data' \in [Keys -> SUBSET (Keys \X (1 .. Chunks))]
    <3> HIDE DEF msg
    <3>1. data' = [data EXCEPT ![thread[k].file] = @ \cup {<<k, msg.n>>}]
      BY <1>5 DEF WriteChunk, msg
    <3>2. {<<k, msg.n>>} \subseteq Keys \X (1 .. Chunks)
      BY <2>2
    <3> DEFINE new == {<<k, msg.n>>}  f == thread[k].file
    <3>3. data' = [data EXCEPT ![f] = data[f] \cup new] /\ new \subseteq Keys \X (1 .. Chunks)
      BY <3>1, <3>2
    <3> HIDE DEF new, f
    <3> QED BY <1>0, <3>3
  <2>4. CASE msg.eof
    <3>1. Finish(k, "done")
      BY <1>5, <2>4 DEF WriteChunk
    <3> QED BY <1>0, <1>5, <2>3, <3>1, FinishType DEF WriteChunk, Responses
  <2>5. CASE ~msg.eof
    <3>1. rx' = [rx EXCEPT ![k] = Tail(@)] /\ UNCHANGED <<inbox, thread>>
      BY <1>5, <2>5 DEF WriteChunk
    <3> QED BY <1>0, <1>5, <2>1, <2>3, <3>1 DEF WriteChunk
  <2> QED BY <2>4, <2>5
<1>6. CASE WriteFails(k)
  BY <1>0, <1>6, FinishType DEF WriteFails, Responses
<1>7. CASE UploadCancelled(k)
  <2>1. dir' \in [Paths -> Keys \cup {None}]
    BY <1>0, <1>7 DEF UploadCancelled
  <2> QED BY <1>0, <1>7, <2>1, FinishType DEF UploadCancelled, Responses
<1>8. CASE UploadTimeout(k)
  BY <1>0, <1>8, FinishType DEF UploadTimeout, Responses
<1>9. CASE OpenDownload(k)
  BY <1>0, <1>9, MoveType, RespondType DEF OpenDownload, Responses, Active, Working
<1>10. CASE DownloadChunk(k)
  <2>1. thread[k].n + 1 \in 0 .. DownChunks
    BY <1>0, <1>10, TransfersAssumption DEF DownloadChunk, Threads
  <2>2. [thread[k] EXCEPT !.n = thread[k].n + 1] \in Threads
    <3>1. thread[k] \in Threads
      BY <1>0
    <3> DEFINE n == thread[k].n + 1
    <3> HIDE DEF n
    <3>2. n \in 0 .. DownChunks
      BY <2>1 DEF n
    <3>3. [thread[k] EXCEPT !.n = n] \in Threads
      BY <3>1, <3>2 DEF Threads
    <3> QED BY <3>3 DEF n
  <2>3. thread' \in [Keys -> Threads]
    BY <1>0, <1>10, <2>2 DEF DownloadChunk
  <2> QED BY <1>0, <1>10, <2>3, RespondType DEF DownloadChunk, Responses
<1>11. CASE DownloadAck(k)
  <2>1. Tail(rx[k]) \in Seq(Requests)
    BY <1>0, <1>11, RequestsTail DEF DownloadAck, Receives
  <2> QED BY <1>0, <1>11, <2>1 DEF DownloadAck
<1>12. CASE DownloadEnds(k)
  BY <1>0, <1>12, FinishType DEF DownloadEnds, Responses
<1>13. CASE GuardDrop(k)
  <2>1. [NoThread EXCEPT !.st = "ended"] \in Threads
    BY NoThreadType DEF Threads
  <2> QED BY <1>0, <1>13, <2>1 DEF GuardDrop
<1> QED BY <1>2, <1>3, <1>4, <1>5, <1>6, <1>7, <1>8, <1>9, <1>10, <1>11, <1>12, <1>13
        DEF ThreadStep

\* What a thread's step does to the threads: it moves on itself, and keeps its kind and
\* path while it is active.
LEMMA OwnThread ==
  ASSUME Inv0, NEW k \in Keys, ThreadStep(k)
  PROVE  /\ \A j \in Keys \ {k} : thread'[j] = thread[j]
         /\ thread[k].st \in Active
         /\ thread'[k].st \in Active => /\ thread'[k].kind = thread[k].kind
                                        /\ thread'[k].path = thread[k].path
         /\ thread'[k].st \in Working \cup {"ended"}
BY ThreadType DEF Inv0, Threads, ThreadStep, Insert, OpenFails, CreateFile, WriteChunk, WriteFails,
   UploadCancelled, UploadTimeout, OpenDownload, DownloadChunk, DownloadAck, DownloadEnds,
   GuardDrop, Finish, Receives, Active, Working, NoThread

\* Steps that leave the table and the threads alone.
LEMMA Elsewhere ==
  ASSUME ClientStep \/ ReadControl \/ Disconnect \/ Connect \/ UNCHANGED vars
  PROVE  UNCHANGED <<table, thread, tangled>>
BY DEF ClientStep, ListRemote, StartUpload, StartDownload, TakeResponse, SendChunk,
   GiveUp, ReadControl, Disconnect, Connect, vars, fileVars

\* What the read loop makes of a start request: a new thread, or a refusal.
LEMMA StartStep ==
  ASSUME Inv0, ReadStart
  PROVE  /\ UNCHANGED <<table, conn, nextId>>
         /\ up # <<>> /\ Head(up).op \in Started /\ up' = Tail(up)
         /\ <<conn, Head(up).id>> \in Keys
         /\ \/ UNCHANGED <<thread, tangled>>
            \/ \E kind \in Started, path \in Paths \cup {None} :
                 /\ kind = "upload" => path \in Paths
                 /\ Spawn(<<conn, Head(up).id>>, kind, path)
<1> DEFINE req == Head(up)
           k == <<conn, req.id>>
           path == IF req.op = "upload" THEN req.path ELSE None
<1>1. up # <<>> /\ req \in Requests /\ req.op \in Started
  BY RequestsTail DEF ReadStart, Started, Inv0, TypeOK
<1>2. /\ path \in Paths \cup {None} /\ (req.op = "upload" => path \in Paths)
      /\ k \in Keys
  BY <1>1 DEF Requests, Started, Keys, Inv0, TypeOK
<1>3. Spawn(k, req.op, path) \/ UNCHANGED <<thread, tangled>>
  BY DEF ReadStart
<1> QED BY <1>1, <1>2, <1>3 DEF ReadStart, connVars, clientVars

\* A new thread takes its own place only.
LEMMA SpawnStep ==
  ASSUME Inv0, NEW k \in Keys, NEW kind \in Started, NEW path \in Paths \cup {None},
         Spawn(k, kind, path)
  PROVE  /\ \A j \in Keys \ {k} : thread'[j] = thread[j]
         /\ thread'[k].st = "spawned" /\ thread'[k].kind = kind /\ thread'[k].path = path
         /\ \A j \in Keys \ {k} : thread[j].st \in Active /\ j[2] = k[2] => {j, k} \subseteq tangled'
         /\ tangled \subseteq tangled'
<1>1. \A j \in Keys \ {k} : thread'[j] = thread[j]
  BY ThreadType DEF Spawn, Inv0
<1>2. thread'[k].st = "spawned" /\ thread'[k].kind = kind /\ thread'[k].path = path
  BY ThreadType DEF Spawn, Inv0, NoThread
<1>3. ASSUME NEW j \in Keys \ {k}, thread[j].st \in Active, j[2] = k[2]
      PROVE  {j, k} \subseteq tangled'
  <2>1. j \in Beside(k, kind, path)
    BY <1>3 DEF Beside
  <2> QED BY <2>1 DEF Spawn
<1>4. tangled \subseteq tangled'
  BY DEF Spawn
<1> QED BY <1>1, <1>2, <1>3, <1>4

LEMMA PathStep == ASSUME Inv0, [Next]_vars PROVE PathInv'
<1>1. CASE ClientStep \/ ReadControl \/ Disconnect \/ Connect \/ UNCHANGED vars
  BY <1>1, Elsewhere DEF Inv0, PathInv
<1>2. CASE ReadStart
  <2>1. CASE UNCHANGED <<thread, tangled>>
    BY <2>1 DEF Inv0, PathInv
  <2>2. ASSUME NEW k \in Keys, NEW kind \in Started, NEW path \in Paths \cup {None},
               kind = "upload" => path \in Paths, Spawn(k, kind, path)
        PROVE  PathInv'
    BY <2>2, SpawnStep DEF Inv0, PathInv
  <2> QED BY <1>2, <2>1, <2>2, StartStep
<1>3. ASSUME NEW k \in Keys, ThreadStep(k) PROVE PathInv'
  BY <1>3, OwnThread DEF Inv0, PathInv
<1> QED BY <1>1, <1>2, <1>3 DEF Next, ReadLoop

\* The types hold in every reachable state.
LEMMA InitInv0 == Init => Inv0
<1> SUFFICES ASSUME Init PROVE Inv0
  OBVIOUS
<1>1. thread \in [Keys -> Threads]
  BY NoThreadType DEF Init
<1>2. 1 \in 1 .. MaxConn /\ 1 \in 1 .. MaxId + 1 /\ 0 \in 0 .. MaxId /\ 0 \in 0 .. Chunks
  BY TransfersAssumption
<1>3. inbox \in Seq(Responses) /\ up \in Seq(Requests) /\ rx \in [Keys -> Seq(Requests)]
  BY DEF Init
<1>4. PathInv
  BY DEF Init, PathInv, NoThread, Active, Working
<1> QED BY <1>1, <1>2, <1>3, <1>4 DEF Init, Inv0, TypeOK, JobInv, JobOver, Ended, Threads, Responses

LEMMA NextInv0 == Inv0 /\ [Next]_vars => Inv0'
<1> SUFFICES ASSUME Inv0, [Next]_vars PROVE TypeOK' /\ JobInv'
  BY PathStep DEF Inv0
<1> USE DEF connVars, clientVars, fileVars
<1>1. CASE Disconnect
  BY <1>1 DEF Disconnect, Inv0, TypeOK, JobInv, JobOver
<1>2. CASE Connect
  <2>1. conn' \in 1 .. MaxConn /\ 1 \in 1 .. MaxId + 1 /\ 0 \in 0 .. MaxId /\ 0 \in 0 .. Chunks
    BY <1>2, TransfersAssumption DEF Connect, Inv0, TypeOK
  <2>2. inbox' \in Seq(Responses) /\ up' \in Seq(Requests)
    BY <1>2 DEF Connect
  <2> QED BY <1>2, <2>1, <2>2 DEF Connect, Inv0, TypeOK, JobInv, JobOver, Ended, Responses
<1>3. CASE UNCHANGED vars
  BY <1>3 DEF vars, Inv0, TypeOK, JobInv, JobOver
<1> HIDE DEF connVars, clientVars, fileVars
<1> QED BY <1>1, <1>2, <1>3, ClientType, ReadType, ThreadStepType DEF Next

\* The types of the client, the connection, the table and the threads.
THEOREM TypeCorrect == Spec => []TypeOK
<1>1. Inv0 => TypeOK
  BY DEF Inv0
<1> QED BY InitInv0, NextInv0, <1>1, PTL DEF Spec

-----------------------------------------------------------------------------
(* Who is in the table                                                     *)

IsStart(req) == req.op \in Started

\* Ids are handed out once on a connection, and the requests arrive in their order, each
\* once: where a request on its way will start a thread, none was started before.
Unstarted(k) == thread[k].st = "none"

StartsNew ==
  \A i \in 1 .. Len(up) : IsStart(up[i]) => up[i].id < nextId /\ Unstarted(<<conn, up[i].id>>)

StartsOnce ==
  \A i, j \in 1 .. Len(up) : i # j /\ IsStart(up[i]) /\ IsStart(up[j]) => up[i].id # up[j].id

LaterNew ==
  /\ \A id \in 1 .. MaxId : nextId <= id => Unstarted(<<conn, id>>)
  /\ \A k \in Keys : conn < k[1] => Unstarted(k)

Fresh == StartsNew /\ StartsOnce /\ LaterNew

\* Two active threads with the same id are both known to have run beside another.
Twins ==
  \A j, k \in Keys :
    j # k /\ j[2] = k[2] /\ thread[j].st \in Active /\ thread[k].st \in Active => j \in tangled


\* What the client's worker does to the requests and the ids.
LEMMA ClientSends ==
  ASSUME Inv0, ClientStep
  PROVE  /\ UNCHANGED <<conn, table, thread, tangled>>
         /\ \/ up' = up /\ (nextId' = nextId \/ nextId' = nextId + 1)
            \/ \E req \in Requests : ~IsStart(req) /\ up' = Append(up, req) /\ nextId' = nextId
            \/ \E req \in Requests : /\ IsStart(req) /\ req.id = nextId
                                     /\ up' = Append(up, req) /\ nextId' = nextId + 1
<1> USE DEF connVars, clientVars, fileVars
<1>0. UNCHANGED <<conn, table, thread, tangled>>
  BY DEF ClientStep, ListRemote, StartUpload, StartDownload, TakeResponse, SendChunk, GiveUp
<1>1. CASE ListRemote \/ GiveUp
  BY <1>0, <1>1 DEF ListRemote, GiveUp
<1>2. CASE \E p \in Paths : StartUpload(p)
  <2>0. PICK p \in Paths : StartUpload(p)
    BY <1>2
  <2> DEFINE req == [op |-> "upload", id |-> nextId, path |-> p]
  <2>1. req \in Requests /\ IsStart(req) /\ req.id = nextId
    BY <2>0 DEF StartUpload, CanStart, Inv0, TypeOK, Requests, IsStart, Started
  <2> QED BY <1>0, <2>0, <2>1 DEF StartUpload
<1>3. CASE StartDownload
  <2> DEFINE req == [op |-> "download", id |-> nextId]
  <2>1. req \in Requests /\ IsStart(req) /\ req.id = nextId
    BY <1>3 DEF StartDownload, CanStart, Inv0, TypeOK, Requests, IsStart, Started
  <2> QED BY <1>0, <1>3, <2>1 DEF StartDownload
<1>4. CASE TakeResponse
  <2> DEFINE req == [op |-> "ack", id |-> job.id]
  <2>1. (up' = up \/ up' = Append(up, req)) /\ nextId' = nextId
    BY <1>4 DEF TakeResponse
  <2>2. job.st \in Waiting
    BY <1>4 DEF TakeResponse
  <2>3. req \in Requests /\ ~IsStart(req)
    BY <2>2 DEF Inv0, JobInv, JobOver, Ended, Waiting, Requests, IsStart, Started
  <2> QED BY <1>0, <2>1, <2>3
<1>5. CASE SendChunk
  <2> DEFINE req == [op |-> "data", id |-> job.id, n |-> job.n + 1, eof |-> job.n + 1 = Chunks]
  <2>1. job.id \in 1 .. MaxId /\ job.n + 1 \in 1 .. Chunks
    BY <1>5, TransfersAssumption DEF SendChunk, Inv0, JobInv, JobOver, Ended, TypeOK
  <2>2. req \in Requests /\ ~IsStart(req)
    BY <2>1 DEF Requests, IsStart, Started
  <2> QED BY <1>0, <1>5, <2>2 DEF SendChunk
<1> QED BY <1>1, <1>2, <1>3, <1>4, <1>5 DEF ClientStep

\* The end of the queue: the requests before a new one stay where they were.
LEMMA Appended ==
  ASSUME NEW s \in Seq(Requests), NEW req \in Requests
  PROVE  /\ Len(Append(s, req)) = Len(s) + 1 /\ Len(s) \in Nat
         /\ \A i \in 1 .. Len(s) + 1 : Append(s, req)[i] = IF i = Len(s) + 1 THEN req ELSE s[i]
OBVIOUS

\* The head of the queue: the others move up.
LEMMA MovedUp ==
  ASSUME NEW s \in Seq(Requests), s # <<>>
  PROVE  /\ Len(s) \in Nat \ {0} /\ Len(Tail(s)) = Len(s) - 1 /\ Head(s) = s[1]
         /\ \A i \in 1 .. Len(s) - 1 : Tail(s)[i] = s[i + 1]
OBVIOUS

LEMMA FreshClient == ASSUME Inv0, Fresh, ClientStep PROVE Fresh'
<1>0. /\ UNCHANGED <<conn, thread>> /\ up \in Seq(Requests)
      /\ nextId \in 1 .. MaxId + 1 /\ MaxId \in Nat
      /\ \A i \in 1 .. Len(up) : up[i] \in Requests /\ up[i].id \in Nat
  <2>1. \A req \in Requests : req.id \in Nat
    BY DEF Requests
  <2> QED BY <2>1, ClientSends, TransfersAssumption DEF Inv0, TypeOK
<1>1. CASE up' = up /\ (nextId' = nextId \/ nextId' = nextId + 1)
  <2>1. StartsOnce'
    BY <1>1 DEF Fresh, StartsOnce
  <2>2. StartsNew'
    BY <1>0, <1>1 DEF Fresh, StartsNew, Unstarted
  <2>3. LaterNew'
    BY <1>0, <1>1 DEF Fresh, LaterNew, Unstarted
  <2> QED BY <2>1, <2>2, <2>3 DEF Fresh
<1>2. ASSUME NEW req \in Requests, ~IsStart(req), up' = Append(up, req), nextId' = nextId
      PROVE  Fresh'
  <2>1. StartsNew'
    BY <1>0, <1>2, Appended DEF Fresh, StartsNew, Unstarted
  <2>2. StartsOnce'
    BY <1>0, <1>2, Appended DEF Fresh, StartsOnce
  <2> QED BY <1>0, <1>2, <2>1, <2>2 DEF Fresh, LaterNew, Unstarted
<1>3. ASSUME NEW req \in Requests, IsStart(req), req.id = nextId,
             up' = Append(up, req), nextId' = nextId + 1
      PROVE  Fresh'
  <2>1. nextId \in 1 .. MaxId
    BY <1>3 DEF Requests
  <2>2. Unstarted(<<conn, nextId>>)
    BY <2>1 DEF Fresh, LaterNew
  <2>3. StartsNew'
    <3> SUFFICES ASSUME NEW i \in 1 .. Len(up'), IsStart(up'[i])
                 PROVE  up'[i].id < nextId' /\ thread[<<conn, up'[i].id>>].st = "none"
      BY <1>0 DEF StartsNew, Unstarted
    <3>1. CASE i = Len(up) + 1
      BY <1>0, <1>3, <2>1, <2>2, <3>1, Appended DEF Unstarted
    <3>2. CASE i \in 1 .. Len(up)
      <4>1. up'[i] = up[i]
        BY <1>0, <1>3, <3>2, Appended
      <4>2. up[i].id < nextId /\ thread[<<conn, up[i].id>>].st = "none"
        BY <3>2, <4>1 DEF Fresh, StartsNew, Unstarted
      <4> QED BY <1>0, <1>3, <3>2, <4>1, <4>2
    <3>3. Len(up') = Len(up) + 1 /\ Len(up) \in Nat
      BY <1>0, <1>3, Appended
    <3> QED BY <3>1, <3>2, <3>3
  <2>4. StartsOnce'
    <3>1. ASSUME NEW i \in 1 .. Len(up), IsStart(up[i]) PROVE up[i].id # nextId
      <4>1. up[i].id < nextId
        BY <3>1 DEF Fresh, StartsNew
      <4> QED BY <1>0, <4>1
    <3> QED BY <1>0, <1>3, <3>1, Appended DEF Fresh, StartsOnce
  <2>5. LaterNew'
    BY <1>0, <1>3, <2>1 DEF Fresh, LaterNew, Unstarted
  <2> QED BY <2>3, <2>4, <2>5 DEF Fresh
<1> QED BY <1>1, <1>2, <1>3, ClientSends

\* The request that is read leaves the queue.
LEMMA FreshRead == ASSUME Inv0, Fresh, ReadLoop PROVE Fresh'
<1>0. /\ up # <<>> /\ up \in Seq(Requests) /\ up' = Tail(up) /\ UNCHANGED <<conn, nextId>>
      /\ conn \in Nat /\ MaxId \in Nat /\ nextId \in 1 .. MaxId + 1
  <2>1. up # <<>> /\ up' = Tail(up) /\ UNCHANGED <<conn, nextId>>
    BY DEF ReadLoop, ReadStart, ReadControl, connVars, clientVars
  <2>2. up \in Seq(Requests) /\ conn \in Nat /\ MaxId \in Nat /\ nextId \in 1 .. MaxId + 1
    BY TransfersAssumption DEF Inv0, TypeOK
  <2> QED BY <2>1, <2>2
<1>1. /\ Len(up') = Len(up) - 1 /\ Len(up) \in Nat \ {0} /\ Head(up) = up[1]
      /\ \A i \in 1 .. Len(up') : i + 1 \in 1 .. Len(up) /\ up'[i] = up[i + 1]
      /\ \A i \in 1 .. Len(up) : up[i] \in Requests
  BY <1>0, MovedUp
<1>2. StartsOnce'
  <2> SUFFICES ASSUME NEW i \in 1 .. Len(up'), NEW j \in 1 .. Len(up'), i # j,
                      IsStart(up'[i]), IsStart(up'[j])
               PROVE  up'[i].id # up'[j].id
    BY DEF StartsOnce
  <2>1. /\ i + 1 \in 1 .. Len(up) /\ up'[i] = up[i + 1]
        /\ j + 1 \in 1 .. Len(up) /\ up'[j] = up[j + 1]
    BY <1>1
  <2>2. i + 1 # j + 1
    OBVIOUS
  <2> QED BY <2>1, <2>2 DEF Fresh, StartsOnce
<1>3. CASE UNCHANGED thread
  BY <1>0, <1>1, <1>2, <1>3 DEF Fresh, StartsNew, LaterNew, Unstarted
<1>4. ASSUME NEW kind \in Started, NEW path \in Paths \cup {None}, ReadStart,
             Spawn(<<conn, Head(up).id>>, kind, path)
      PROVE  Fresh'
  <2> DEFINE k == <<conn, up[1].id>>
  <2>1. /\ k \in Keys /\ IsStart(up[1]) /\ up[1].id < nextId
        /\ \A j \in Keys \ {k} : thread'[j] = thread[j]
    <3>1. k \in Keys /\ IsStart(up[1])
      BY <1>0, <1>1, <1>4, StartStep DEF IsStart
    <3>2. up[1].id < nextId
      BY <1>1, <3>1 DEF Fresh, StartsNew
    <3>3. Spawn(k, kind, path)
      BY <1>1, <1>4
    <3> QED BY <3>1, <3>2, <3>3, SpawnStep
  <2>2. StartsNew'
    <3> SUFFICES ASSUME NEW i \in 1 .. Len(up'), IsStart(up'[i])
                 PROVE  up'[i].id < nextId /\ thread'[<<conn, up'[i].id>>].st = "none"
      BY <1>0 DEF StartsNew, Unstarted
    <3>1. up[i + 1].id < nextId /\ Unstarted(<<conn, up[i + 1].id>>) /\ up[i + 1].id # up[1].id
      BY <1>1, <2>1 DEF Fresh, StartsNew, StartsOnce
    <3>2. <<conn, up[i + 1].id>> \in Keys \ {k}
      BY <1>1, <2>1, <3>1 DEF Keys, Requests
    <3> QED BY <1>1, <2>1, <3>1, <3>2 DEF Unstarted
  <2>3. LaterNew'
    <3>1. \A id \in 1 .. MaxId : nextId <= id => <<conn, id>> \in Keys \ {k}
      BY <1>0, <2>1 DEF Keys
    <3>2. \A j \in Keys : conn < j[1] => j \in Keys \ {k}
      BY <1>0
    <3> QED BY <1>0, <2>1, <3>1, <3>2 DEF Fresh, LaterNew, Unstarted
  <2> QED BY <1>2, <2>2, <2>3 DEF Fresh
<1> QED BY <1>3, <1>4, StartStep, Elsewhere DEF ReadLoop

\* A thread that is active was started, and stays so.
LEMMA FreshThread == ASSUME Inv0, Fresh, NEW k \in Keys, ThreadStep(k) PROVE Fresh'
<1>1. UNCHANGED <<conn, nextId, up>>
  BY DEF ThreadStep, Insert, OpenFails, CreateFile, WriteChunk, WriteFails, UploadCancelled,
     UploadTimeout, OpenDownload, DownloadChunk, DownloadAck, DownloadEnds, GuardDrop,
     connVars, clientVars
<1>2. \A j \in Keys : Unstarted(j) => thread'[j].st = "none"
  <2>1. ~Unstarted(k)
    BY OwnThread DEF Unstarted, Active, Working
  <2> QED BY <2>1, OwnThread DEF Unstarted
<1>3. \A i \in 1 .. Len(up) : <<conn, up[i].id>> \in Keys
  <2>1. \A req \in Requests : req.id \in 1 .. MaxId
    BY DEF Requests
  <2> QED BY <2>1 DEF Inv0, TypeOK, Keys
<1>4. \A id \in 1 .. MaxId : <<conn, id>> \in Keys
  BY DEF Inv0, TypeOK, Keys
<1> QED BY <1>1, <1>2, <1>3, <1>4 DEF Fresh, StartsNew, StartsOnce, LaterNew, Unstarted

LEMMA FreshStep == ASSUME Inv0, Fresh, [Next]_vars PROVE Fresh'
<1>1. CASE Disconnect \/ UNCHANGED vars
  <2>1. UNCHANGED <<conn, nextId, up, thread>>
    BY <1>1 DEF Disconnect, vars, clientVars
  <2> QED BY <2>1 DEF Fresh, StartsNew, StartsOnce, LaterNew, Unstarted
<1>2. CASE Connect
  <2>1. /\ conn' = conn + 1 /\ nextId' = 1 /\ up' = <<>> /\ UNCHANGED thread
        /\ conn \in 1 .. MaxConn - 1 /\ MaxConn \in Nat /\ MaxId \in Nat
    BY <1>2, TransfersAssumption DEF Connect, Inv0, TypeOK
  <2>2. \A id \in 1 .. MaxId : <<conn + 1, id>> \in Keys /\ <<conn + 1, id>>[1] = conn + 1
    BY <2>1 DEF Keys
  <2>3. LaterNew'
    <3>1. \A id \in 1 .. MaxId : thread[<<conn + 1, id>>].st = "none"
      BY <2>1, <2>2 DEF Fresh, LaterNew, Unstarted
    <3>2. \A k \in Keys : conn + 1 < k[1] => thread[k].st = "none"
      BY <2>1 DEF Fresh, LaterNew, Unstarted, Keys
    <3> QED BY <2>1, <3>1, <3>2 DEF LaterNew, Unstarted
  <2> QED BY <2>1, <2>3 DEF Fresh, StartsNew, StartsOnce
<1> QED BY <1>1, <1>2, FreshClient, FreshRead, FreshThread DEF Next

\* The kinds of step a thread takes, as far as the table is concerned.
LEMMA ThreadMoves ==
  ASSUME Inv0, NEW k \in Keys, ThreadStep(k)
  PROVE  /\ UNCHANGED tangled
         /\ \/ table' = [table EXCEPT ![k[2]] = k] /\ thread'[k].st \in Working
            \/ /\ table' = [table EXCEPT ![k[2]] = None]
               /\ thread[k].st = "closing" /\ thread'[k].st = "ended"
            \/ table' = table /\ thread[k].st \in Working /\ thread'[k].st \in Working
<1>1. UNCHANGED tangled
  BY DEF ThreadStep, Insert, OpenFails, CreateFile, WriteChunk, WriteFails, UploadCancelled,
     UploadTimeout, OpenDownload, DownloadChunk, DownloadAck, DownloadEnds, GuardDrop
<1>2. CASE Insert(k)
  BY <1>2, ThreadType DEF Insert, Threads, Working, Inv0
<1>3. CASE GuardDrop(k)
  BY <1>3, ThreadType DEF GuardDrop, NoThread, Inv0
<1>4. CASE ~Insert(k) /\ ~GuardDrop(k)
  <2>1. table' = table /\ thread[k].st \in {"inserted", "running"}
    BY <1>4 DEF ThreadStep, OpenFails, CreateFile, WriteChunk, WriteFails, UploadCancelled,
       UploadTimeout, OpenDownload, DownloadChunk, DownloadAck, DownloadEnds, Receives
  <2>2. thread'[k].st # "ended"
    BY <1>4, <2>1, ThreadType
       DEF ThreadStep, OpenFails, CreateFile, WriteChunk, WriteFails, UploadCancelled,
       UploadTimeout, OpenDownload, DownloadChunk, DownloadAck, DownloadEnds, Receives, Finish,
       Threads, Inv0
  <2> QED BY <1>1, <2>1, <2>2, OwnThread DEF Working
<1> QED BY <1>1, <1>2, <1>3, <1>4

\* The three facts hold together: an entry is overwritten or removed by a thread with the
\* same id only, and two such threads were active at once.
Table == Twins /\ EntriesLive /\ CutOffOnlyByReuse

LEMMA TableThread == ASSUME Inv0, Table, NEW k \in Keys, ThreadStep(k) PROVE Table'
<1>0. /\ k[2] \in 1 .. MaxId /\ table \in [1 .. MaxId -> Keys \cup {None}]
      /\ None \notin Keys /\ Working \subseteq Active /\ "ended" \notin Active
      /\ \A j \in Keys : j[2] \in 1 .. MaxId
  BY TransfersAssumption DEF Inv0, TypeOK, Keys, Working, Active
<1>1. Twins'
  BY <1>0, OwnThread, ThreadMoves DEF Table, Twins
<1>2. EntriesLive'
  <2> SUFFICES ASSUME NEW i \in 1 .. MaxId, table'[i] # None
               PROVE  table'[i][2] = i /\ thread'[table'[i]].st \in Working
    BY DEF EntriesLive, Registered
  <2>1. CASE table'[i] = k
    <3>1. i = k[2]
      <4>1. CASE table[i] = k
        BY <1>0, <4>1 DEF Table, EntriesLive
      <4>2. CASE table[i] # k
        BY <1>0, <2>1, <4>2, ThreadMoves
      <4> QED BY <4>1, <4>2
    <3>2. thread'[k].st \in Working
      BY <1>0, <2>1, <3>1, ThreadMoves
    <3> QED BY <2>1, <3>1, <3>2
  <2>2. CASE table'[i] # k
    <3>1. table'[i] = table[i]
      BY <1>0, <2>2, ThreadMoves
    <3>2. table[i] \in Keys \ {k} /\ table[i][2] = i /\ thread[table[i]].st \in Working
      BY <1>0, <2>2, <3>1 DEF Table, EntriesLive, Registered
    <3> QED BY <3>1, <3>2, OwnThread
  <2> QED BY <2>1, <2>2
<1>3. CutOffOnlyByReuse'
  <2> SUFFICES ASSUME NEW j \in Keys, thread'[j].st \in Working, j \notin tangled
               PROVE  table'[j[2]] = j
    BY ThreadMoves DEF CutOffOnlyByReuse, Registered, CutOff
  <2>1. CASE j = k
    BY <1>0, <2>1, ThreadMoves DEF Table, CutOffOnlyByReuse, Registered, CutOff, Working
  <2>2. CASE j # k
    <3>1. thread[j].st \in Working
      BY <2>2, OwnThread
    <3>2. j[2] # k[2]
      BY <1>0, <2>2, <3>1, OwnThread DEF Table, Twins
    <3>3. table[j[2]] = j
      BY <3>1 DEF Table, CutOffOnlyByReuse, Registered, CutOff
    <3> QED BY <1>0, <3>2, <3>3, ThreadMoves
  <2> QED BY <2>1, <2>2
<1> QED BY <1>1, <1>2, <1>3 DEF Table

\* A thread is started where there was none: no entry is its own.
LEMMA TableRead == ASSUME Inv0, Fresh, Table, ReadStart PROVE Table'
<1>1. CASE UNCHANGED <<thread, tangled>>
  BY <1>1, StartStep DEF Table, Twins, EntriesLive, CutOffOnlyByReuse, Registered, CutOff
<1>2. ASSUME NEW kind \in Started, NEW path \in Paths \cup {None},
             Spawn(<<conn, Head(up).id>>, kind, path)
      PROVE  Table'
  <2> DEFINE k == <<conn, Head(up).id>>
  <2>1. k \in Keys /\ table' = table
    BY StartStep
  <2>2. thread[k].st = "none"
    <3>1. 1 \in 1 .. Len(up) /\ Head(up) = up[1] /\ IsStart(up[1])
      BY StartStep, MovedUp DEF IsStart, Inv0, TypeOK
    <3> QED BY <3>1 DEF Fresh, StartsNew, Unstarted
  <2> HIDE DEF k
  <2>3. /\ \A j \in Keys \ {k} : thread'[j] = thread[j]
        /\ thread'[k].st = "spawned"
        /\ \A j \in Keys \ {k} : thread[j].st \in Active /\ j[2] = k[2] => {j, k} \subseteq tangled'
        /\ tangled \subseteq tangled'
    BY <1>2, <2>1, SpawnStep DEF k
  <2>4. "none" \notin Working /\ "spawned" \notin Working
    BY DEF Working
  <2>5. Twins'
    BY <2>1, <2>3 DEF Table, Twins
  <2>6. EntriesLive'
    <3>1. \A i \in 1 .. MaxId : table[i] # None => table[i] \in Keys \ {k}
      <4>1. \A i \in 1 .. MaxId : table[i] \in Keys \cup {None}
        BY DEF Inv0, TypeOK
      <4>2. \A i \in 1 .. MaxId : table[i] # None => thread[table[i]].st \in Working
        BY DEF Table, EntriesLive, Registered
      <4> QED BY <2>2, <2>4, <4>1, <4>2
    <3> QED BY <2>1, <2>3, <3>1 DEF Table, EntriesLive, Registered
  <2>7. CutOffOnlyByReuse'
    BY <2>1, <2>3, <2>4 DEF Table, CutOffOnlyByReuse, Registered, CutOff
  <2> QED BY <2>5, <2>6, <2>7 DEF Table
<1> QED BY <1>1, <1>2, StartStep

LEMMA TableInitially == Init => Inv0 /\ Fresh /\ Table
<1> SUFFICES ASSUME Init PROVE Fresh /\ Table
  BY InitInv0
<1>1. \A k \in Keys : thread[k].st = "none"
  BY DEF Init, NoThread
<1>2. Fresh
  <2>1. \A id \in 1 .. MaxId : <<1, id>> \in Keys
    BY TransfersAssumption DEF Keys
  <2> QED BY <1>1, <2>1 DEF Init, Fresh, StartsNew, StartsOnce, LaterNew, Unstarted
<1>3. "none" \notin Active /\ "none" \notin Working
  BY DEF Active, Working
<1> QED BY <1>1, <1>2, <1>3 DEF Init, Table, Twins, EntriesLive, CutOffOnlyByReuse, Registered

LEMMA TableKept == Inv0 /\ Fresh /\ Table /\ [Next]_vars => Inv0' /\ Fresh' /\ Table'
<1> SUFFICES ASSUME Inv0, Fresh, Table, [Next]_vars PROVE Table'
  BY NextInv0, FreshStep
<1>1. CASE ClientStep \/ ReadControl \/ Disconnect \/ Connect \/ UNCHANGED vars
  BY <1>1, Elsewhere DEF Table, Twins, EntriesLive, CutOffOnlyByReuse, Registered, CutOff
<1> QED BY <1>1, TableThread, TableRead DEF Next, ReadLoop

\* Whatever connections, requests, timeouts and failures came before, every entry of the
\* server's table of transfers is the sender of a thread that still holds its guard.
THEOREM NoStaleEntry == Spec => []EntriesLive
<1>1. Inv0 /\ Fresh /\ Table => EntriesLive
  BY DEF Table
<1> QED BY TableInitially, TableKept, <1>1, PTL DEF Spec

\* A transfer loses its place in the table only if it ran beside another with its id, or
\* as an upload beside another to its path.
THEOREM OnlyReuseCutsOff == Spec => []CutOffOnlyByReuse
<1>1. Inv0 /\ Fresh /\ Table => CutOffOnlyByReuse
  BY DEF Table
<1> QED BY TableInitially, TableKept, <1>1, PTL DEF Spec

-----------------------------------------------------------------------------
(* What is reported stored is stored                                       *)

\* The transfer of the client's operation, which is an upload, and how far its thread is.
Mine == <<conn, job.id>>
Uploading == job.st \in {"waitUploadAck", "sending", "waitDone", "uploaded"}
Unopened == {"none", "spawned", "inserted"}
Replied(op) == \E i \in 1 .. Len(inbox) : inbox[i] = op

\* Every request under way has an id that was handed out, and so has an operation that goes on.
Older ==
  /\ \A i \in 1 .. Len(up) : up[i].id < nextId
  /\ ~JobOver => job.id < nextId

\* Start requests arrive in the order of their ids.
Ascending ==
  \A i, j \in 1 .. Len(up) : i < j /\ IsStart(up[i]) /\ IsStart(up[j]) => up[i].id < up[j].id

\* The upload is the client's last operation: once its thread was started, no other starts.
\* Of its own requests, the start names its path, and the chunks are the last that were sent.
Request(i) ==
  up[i].id = job.id =>
    IF IsStart(up[i]) THEN up[i].op = "upload" /\ up[i].path = job.path
    ELSE /\ up[i].op = "data"
         /\ up[i].n = job.n - (Len(up) - i)
         /\ up[i].eof <=> up[i].n = Chunks

LastJob ==
  Uploading =>
    /\ job.id = nextId - 1 /\ job.id \in 1 .. MaxId /\ job.path \in Paths
    /\ job.st = "waitUploadAck" => job.n = 0
    /\ thread[Mine].st # "none" => \A i \in 1 .. Len(up) : ~IsStart(up[i])
    /\ thread[Mine].st \in Active => thread[Mine].kind = "upload" /\ thread[Mine].path = job.path
    /\ thread[Mine].st \in Unopened => /\ job.st = "waitUploadAck"
                                       /\ ~Replied("uploadAck") /\ ~Replied("done")
    /\ \A i \in 1 .. Len(up) : Request(i)

\* A file is made by a thread that has come to that, is at one path at most, and a thread that
\* has it open came for that path.
Files ==
  /\ \A p \in Paths : dir[p] # None => thread[dir[p]].st \notin Unopened
  /\ \A j \in Keys : thread[j].file # None => thread[thread[j].file].st \notin Unopened
  /\ \A p, q \in Paths : dir[p] # None /\ dir[p] = dir[q] => p = q
  /\ \A j \in Keys, p \in Paths : thread[j].file # None /\ dir[p] = thread[j].file /\ thread[j].st \in Active
       => thread[j].kind = "upload" /\ thread[j].path = p

\* An upload that ran beside no other to its path does not do so now.
Alone ==
  Uploading /\ Mine \notin tangled /\ thread[Mine].st # "none" =>
    \A j \in Keys \ {Mine} :
      thread[j].st \in Active /\ thread[j].kind = "upload" => thread[j].path # job.path

\* Of the chunks sent, the first w are written, the next are with the thread, the rest are
\* the last requests under way.
Flowing(w) ==
  LET routed == w + Len(rx[Mine])  first == Len(up) - (job.n - routed) IN
  /\ routed <= job.n /\ first >= 0
  /\ \A i \in 1 .. Len(up) : up[i].id = job.id /\ ~IsStart(up[i]) <=> i > first
  /\ \A i \in 1 .. Len(rx[Mine]) : LET msg == rx[Mine][i] IN
       msg.op = "data" /\ msg.n = w + i /\ (msg.eof <=> w + i = Chunks)
  /\ thread[Mine].st = "running" =>
       /\ thread[Mine].file # None /\ dir[job.path] = thread[Mine].file
       /\ data[thread[Mine].file] = {Mine} \X (1 .. w)

Flow ==
  Uploading /\ Mine \notin tangled /\ thread[Mine].st \in Unopened \cup {"running"} =>
    \E w \in 0 .. Chunks : Flowing(w)

\* Once "done" is under way, the file is complete, and the thread does nothing more to it.
Done ==
  Uploading /\ Mine \notin tangled /\ (job.st = "uploaded" \/ Replied("done")) =>
    thread[Mine].st \in {"closing", "ended"} /\ Stored(Mine, job.path)

\* The client hears from an upload's thread what a thread of that kind answers, permission
\* to send once, and before it has sent anything.
Answers ==
  Uploading =>
    /\ \A i \in 1 .. Len(inbox) : inbox[i] \in {"uploadAck", "done", "error"}
    /\ Replied("uploadAck") => job.st = "waitUploadAck"
    /\ \A i, j \in 1 .. Len(inbox) : inbox[i] = "uploadAck" /\ inbox[j] = "uploadAck" => i = j

\* Nothing is routed to a thread that was never started.
Unheard == \A k \in Keys : Unstarted(k) => rx[k] = <<>>

UploadInv == Older /\ Unheard /\ Ascending /\ LastJob /\ Answers /\ Files /\ Alone /\ Flow /\ Done

\* What the types say of the requests under way.
LEMMA UpFacts ==
  ASSUME Inv0
  PROVE  /\ up \in Seq(Requests) /\ Len(up) \in Nat
         /\ \A i \in 1 .. Len(up) : up[i] \in Requests /\ up[i].id \in 1 .. MaxId
         /\ nextId \in Nat /\ job.id \in Nat /\ job.n \in Nat /\ MaxId \in Nat /\ Chunks \in Nat \ {0}
<1>1. \A req \in Requests : req.id \in 1 .. MaxId
  BY DEF Requests
<1> QED BY <1>1, TransfersAssumption DEF Inv0, TypeOK

\* What the client sends is numbered by the operation that goes on, or is a start with the
\* next id.
LEMMA ClientIds ==
  ASSUME Inv0, ClientStep
  PROVE  /\ \/ up' = up
            \/ /\ up' = Append(up, [op |-> "upload", id |-> nextId, path |-> job'.path])
               /\ nextId' = nextId + 1 /\ job'.id = nextId
            \/ up' = Append(up, [op |-> "download", id |-> nextId]) /\ nextId' = nextId + 1 /\ job'.id = nextId
            \/ ~JobOver /\ up' = Append(up, [op |-> "ack", id |-> job.id]) /\ nextId' = nextId
            \/ ~JobOver /\ up' = Append(up, [op |-> "data", id |-> job.id, n |-> job.n + 1,
                                             eof |-> job.n + 1 = Chunks]) /\ nextId' = nextId
         /\ nextId' \in {nextId, nextId + 1}
         /\ ~JobOver' => \/ ~JobOver /\ job'.id = job.id
                         \/ job'.id = nextId /\ nextId' = nextId + 1
<1> USE DEF JobOver, Ended
<1>0. job \in [st : Waiting \cup {"sending"} \cup Ended,
               id : 0 .. MaxId, path : Paths \cup {None}, n : 0 .. Chunks]
  BY DEF Inv0, TypeOK
<1>1. CASE ListRemote
  BY <1>0, <1>1 DEF ListRemote
<1>2. CASE \E p \in Paths : StartUpload(p)
  BY <1>2 DEF StartUpload
<1>3. CASE StartDownload
  BY <1>3 DEF StartDownload
<1>4. CASE TakeResponse
  <2>1. PICK to \in After(job.st, Head(inbox)) : job' = [job EXCEPT !.st = to]
    BY <1>4 DEF TakeResponse
  <2>2. ~JobOver /\ job'.id = job.id /\ nextId' = nextId
    BY <1>0, <1>4, <2>1 DEF TakeResponse, Waiting
  <2>3. up' = up \/ up' = Append(up, [op |-> "ack", id |-> job.id])
    BY <1>4 DEF TakeResponse
  <2> QED BY <2>2, <2>3
<1>5. CASE SendChunk
  BY <1>0, <1>5 DEF SendChunk
<1>6. CASE GiveUp
  BY <1>0, <1>6 DEF GiveUp
<1> QED BY <1>1, <1>2, <1>3, <1>4, <1>5, <1>6 DEF ClientStep

LEMMA OrderClient == ASSUME Inv0, Inv0', Fresh, Older, Ascending, ClientStep PROVE Older' /\ Ascending'
<1>0. /\ up \in Seq(Requests) /\ Len(up) \in Nat /\ nextId \in Nat /\ nextId' \in {nextId, nextId + 1}
      /\ \A i \in 1 .. Len(up) : up[i].id \in Nat /\ up[i].id < nextId
  BY UpFacts, ClientIds DEF Older
<1>1. ~JobOver' => job'.id < nextId'
  BY <1>0, UpFacts, ClientIds DEF Older
<1>2. CASE up' = up
  BY <1>0, <1>1, <1>2 DEF Older, Ascending
<1>3. ASSUME NEW req, up' = Append(up, req), req.id \in Nat, req.id < nextId',
             IsStart(req) => req.id = nextId
      PROVE  Older' /\ Ascending'
  <2>1. Len(up') = Len(up) + 1
    BY <1>0, <1>3
  <2>2. \A i \in 1 .. Len(up') : up'[i] = IF i = Len(up) + 1 THEN req ELSE up[i]
    BY <1>0, <1>3
  <2>3. Ascending'
    <3> SUFFICES ASSUME NEW i \in 1 .. Len(up'), NEW j \in 1 .. Len(up'), i < j,
                        IsStart(up'[i]), IsStart(up'[j])
                 PROVE  up'[i].id < up'[j].id
      BY DEF Ascending
    <3>1. i \in 1 .. Len(up) /\ up'[i] = up[i]
      BY <1>0, <2>1, <2>2
    <3>2. CASE j = Len(up) + 1
      BY <1>0, <1>3, <2>1, <2>2, <3>1, <3>2
    <3>3. CASE j \in 1 .. Len(up)
      BY <1>0, <2>1, <2>2, <3>1, <3>3 DEF Ascending
    <3> QED BY <1>0, <2>1, <3>2, <3>3
  <2> QED BY <1>0, <1>1, <1>3, <2>1, <2>2, <2>3 DEF Older
<1>4. nextId < nextId + 1
  BY <1>0
<1> QED BY <1>0, <1>2, <1>3, <1>4, UpFacts, ClientIds DEF Older, IsStart, Started

\* The other steps take requests from the front, or none, or all of them.
LEMMA OrderElsewhere ==
  ASSUME Inv0, Older, Ascending,
         ReadLoop \/ Disconnect \/ Connect \/ UNCHANGED vars \/ \E k \in Keys : ThreadStep(k)
  PROVE  Older' /\ Ascending'
<1> USE DEF clientVars, connVars, JobOver, Ended
<1>1. CASE up' = up /\ UNCHANGED <<nextId, job>>
  BY <1>1 DEF Older, Ascending
<1>2. CASE up' = Tail(up) /\ up # <<>> /\ UNCHANGED <<nextId, job>>
  <2>1. /\ Len(up) \in Nat /\ Len(up') = Len(up) - 1
        /\ \A i \in 1 .. Len(up') : i + 1 \in 1 .. Len(up) /\ up'[i] = up[i + 1]
    BY <1>2, UpFacts, MovedUp
  <2>2. Ascending'
    <3> SUFFICES ASSUME NEW i \in 1 .. Len(up'), NEW j \in 1 .. Len(up'), i < j,
                        IsStart(up'[i]), IsStart(up'[j])
                 PROVE  up'[i].id < up'[j].id
      BY DEF Ascending
    <3>1. i + 1 < j + 1
      OBVIOUS
    <3> QED BY <2>1, <3>1 DEF Ascending
  <2> QED BY <1>2, <2>1, <2>2 DEF Older
<1>3. CASE Connect
  BY <1>3 DEF Connect, Older, Ascending
<1>4. CASE ReadLoop
  BY <1>2, <1>4 DEF ReadLoop, ReadStart, ReadControl
<1>5. CASE Disconnect \/ UNCHANGED vars
  BY <1>1, <1>5 DEF Disconnect, vars
<1>6. ASSUME NEW k \in Keys, ThreadStep(k) PROVE Older' /\ Ascending'
  BY <1>1, <1>6 DEF ThreadStep, Insert, OpenFails, CreateFile, WriteChunk, WriteFails, UploadCancelled,
     UploadTimeout, OpenDownload, DownloadChunk, DownloadAck, DownloadEnds, GuardDrop
<1> QED BY <1>3, <1>4, <1>5, <1>6

\* What a thread's step leaves alone.
LEMMA ThreadFrame ==
  ASSUME Inv0, NEW k \in Keys, ThreadStep(k)
  PROVE  /\ UNCHANGED <<conn, alive, nextId, job, up, tangled>>
         /\ \A j \in Keys \ {k} : rx'[j] = rx[j] /\ thread'[j] = thread[j]
         /\ k # Mine => inbox' = inbox
<1> USE DEF connVars, clientVars
<1>1. UNCHANGED <<conn, alive, nextId, job, up, tangled>>
  BY DEF ThreadStep, Insert, OpenFails, CreateFile, WriteChunk, WriteFails, UploadCancelled,
     UploadTimeout, OpenDownload, DownloadChunk, DownloadAck, DownloadEnds, GuardDrop
<1>2. \A j \in Keys \ {k} : rx'[j] = rx[j]
  BY DEF Inv0, TypeOK, ThreadStep, Insert, OpenFails, CreateFile, WriteChunk, WriteFails, UploadCancelled,
     UploadTimeout, OpenDownload, DownloadChunk, DownloadAck, DownloadEnds, GuardDrop, Finish
<1>3. ASSUME k # Mine PROVE inbox' = inbox
  <2>1. \A op : Respond(k, op) => inbox' = inbox
    BY <1>3 DEF Respond, Mine
  <2> QED BY <2>1 DEF ThreadStep, Insert, OpenFails, CreateFile, WriteChunk, WriteFails, UploadCancelled,
     UploadTimeout, OpenDownload, DownloadChunk, DownloadAck, DownloadEnds, GuardDrop, Finish
<1> QED BY <1>1, <1>2, <1>3, OwnThread

\* What it does to the files: it makes or truncates the file at its path, writes to the file
\* it has open, takes away what is at its path, or leaves the files alone.
LEMMA FileMoves ==
  ASSUME Inv0, NEW k \in Keys, ThreadStep(k)
  PROVE  \/ CreateFile(k)
         \/ WriteChunk(k) /\ UNCHANGED dir /\ thread'[k].file \in {thread[k].file, None}
         \/ UploadCancelled(k) /\ UNCHANGED data /\ thread'[k].file \in {thread[k].file, None}
         \/ UNCHANGED <<dir, data>> /\ thread'[k].file \in {thread[k].file, None}
<1> USE ThreadType DEF Inv0, fileVars, Threads, NoThread
<1>1. CASE Insert(k) \/ OpenFails(k) \/ OpenDownload(k) \/ DownloadChunk(k) \/ DownloadAck(k)
  BY <1>1 DEF Insert, OpenFails, OpenDownload, DownloadChunk, DownloadAck, Finish
<1>2. CASE DownloadEnds(k) \/ GuardDrop(k) \/ WriteFails(k) \/ UploadTimeout(k)
  BY <1>2 DEF DownloadEnds, GuardDrop, WriteFails, UploadTimeout, Finish
<1>3. CASE WriteChunk(k)
  BY <1>3 DEF WriteChunk, Finish
<1>4. CASE UploadCancelled(k)
  BY <1>4 DEF UploadCancelled, Finish
<1> QED BY <1>1, <1>2, <1>3, <1>4 DEF ThreadStep

\* Once a thread has come to its file it does not come there again.
LEMMA NotReopened ==
  ASSUME Inv0, NEW k \in Keys, ThreadStep(k), NEW j \in Keys, thread[j].st \notin Unopened
  PROVE  thread'[j].st \notin Unopened
<1>1. CASE j # k
  BY <1>1, OwnThread
<1>2. CASE j = k
  <2>1. ~Insert(k) /\ ~OpenFails(k) /\ ~CreateFile(k) /\ ~OpenDownload(k)
    BY <1>2 DEF Insert, OpenFails, CreateFile, OpenDownload, Unopened
  <2> QED BY <1>2, <2>1, ThreadType DEF Inv0, Threads, NoThread, Unopened, ThreadStep, WriteChunk, WriteFails,
     UploadCancelled, UploadTimeout, DownloadChunk, DownloadAck, DownloadEnds, GuardDrop, Finish
<1> QED BY <1>1, <1>2

LEMMA FilesThread == ASSUME Inv0, Files, NEW k \in Keys, ThreadStep(k) PROVE Files'
<1>0. /\ thread \in [Keys -> Threads] /\ dir \in [Paths -> Keys \cup {None}] /\ None \notin Keys
      /\ \A j \in Keys : thread[j].file \in Keys \cup {None}
      /\ \A j \in Keys \ {k} : thread'[j] = thread[j]
      /\ thread[k].st \in Active
      /\ thread'[k].st \in Active => thread'[k].kind = thread[k].kind /\ thread'[k].path = thread[k].path
      /\ \A j \in Keys : thread[j].st \notin Unopened => thread'[j].st \notin Unopened
  BY ThreadType, OwnThread, NotReopened, TransfersAssumption DEF Inv0, TypeOK, Threads
<1>1. CASE CreateFile(k)
  <2> DEFINE p == thread[k].path
             f == IF dir[p] = None THEN k ELSE dir[p]
  <2>1. /\ p \in Paths /\ thread[k].kind = "upload" /\ thread[k].st = "inserted"
        /\ dir' = [dir EXCEPT ![p] = f] /\ thread'[k].file = f /\ thread'[k].st = "running"
    BY <1>0, <1>1 DEF CreateFile, Inv0, PathInv, Active, Working, Threads
  <2>2. f \in Keys /\ dir'[p] = f /\ \A q \in Paths \ {p} : dir'[q] = dir[q]
    BY <1>0, <2>1
  <2>3. /\ \A q \in Paths : dir[q] # k
        /\ \A j \in Keys : thread[j].file # k
    BY <1>0, <2>1 DEF Files, Unopened
  <2>4. thread'[f].st \notin Unopened
    BY <1>0, <2>1 DEF Files, Unopened
  <2>5. \A q \in Paths \ {p} : dir[q] # f
    BY <2>1, <2>3 DEF Files
  <2>6. \A j \in Keys \ {k} : thread[j].file = f /\ thread[j].st \in Active
                                => thread[j].kind = "upload" /\ thread[j].path = p
    BY <1>0, <2>1, <2>2, <2>3 DEF Files
  <2> HIDE DEF f, p
  <2>7. ASSUME NEW q \in Paths, dir'[q] # None PROVE thread'[dir'[q]].st \notin Unopened
    BY <1>0, <2>2, <2>4, <2>7 DEF Files
  <2>8. ASSUME NEW j \in Keys, thread'[j].file # None PROVE thread'[thread'[j].file].st \notin Unopened
    BY <1>0, <2>1, <2>4, <2>8 DEF Files
  <2>9. ASSUME NEW q \in Paths, NEW r \in Paths, dir'[q] # None, dir'[q] = dir'[r] PROVE q = r
    BY <2>2, <2>5, <2>9 DEF Files
  <2>10. ASSUME NEW j \in Keys, NEW q \in Paths, thread'[j].file # None, dir'[q] = thread'[j].file,
                thread'[j].st \in Active
         PROVE  thread'[j].kind = "upload" /\ thread'[j].path = q
    <3>1. CASE j = k
      BY <1>0, <2>1, <2>2, <2>5, <2>10, <3>1 DEF p
    <3>2. CASE j # k
      BY <1>0, <2>2, <2>6, <2>10, <3>2 DEF Files
    <3> QED BY <3>1, <3>2
  <2> QED BY <2>7, <2>8, <2>9, <2>10 DEF Files
<1>2. CASE /\ thread'[k].file \in {thread[k].file, None}
           /\ \A q \in Paths : dir'[q] \in {dir[q], None}
  <2>1. ASSUME NEW q \in Paths, dir'[q] # None PROVE thread'[dir'[q]].st \notin Unopened
    BY <1>0, <1>2, <2>1 DEF Files
  <2>2. ASSUME NEW j \in Keys, thread'[j].file # None PROVE thread'[thread'[j].file].st \notin Unopened
    BY <1>0, <1>2, <2>2 DEF Files
  <2>3. ASSUME NEW q \in Paths, NEW r \in Paths, dir'[q] # None, dir'[q] = dir'[r] PROVE q = r
    BY <1>2, <2>3 DEF Files
  <2>4. ASSUME NEW j \in Keys, NEW q \in Paths, thread'[j].file # None, dir'[q] = thread'[j].file,
               thread'[j].st \in Active
        PROVE  thread'[j].kind = "upload" /\ thread'[j].path = q
    <3>1. thread[j].file = thread'[j].file /\ dir[q] = dir'[q]
      BY <1>0, <1>2, <2>4
    <3>2. thread[j].st \in Active => thread[j].kind = "upload" /\ thread[j].path = q
      BY <2>4, <3>1 DEF Files
    <3> QED BY <1>0, <2>4, <3>2
  <2> QED BY <2>1, <2>2, <2>3, <2>4 DEF Files
<1>3. UploadCancelled(k) => \A q \in Paths : dir'[q] \in {dir[q], None}
  BY <1>0 DEF UploadCancelled
<1> QED BY <1>1, <1>2, <1>3, FileMoves

\* The thread that the next request starts was never started.
LEMMA HeadUnstarted ==
  ASSUME Inv0, Fresh, ReadStart
  PROVE  <<conn, Head(up).id>> \in Keys /\ thread[<<conn, Head(up).id>>].st = "none"
<1>1. 1 \in 1 .. Len(up) /\ Head(up) = up[1] /\ IsStart(up[1])
  BY StartStep, MovedUp DEF IsStart, Inv0, TypeOK
<1> QED BY <1>1, StartStep DEF Fresh, StartsNew, Unstarted

\* A thread that is started has no file yet.
LEMMA FilesRead == ASSUME Inv0, Fresh, Files, ReadLoop PROVE Files'
<1>1. UNCHANGED dir
  BY DEF ReadLoop, ReadStart, ReadControl, fileVars
<1>2. CASE UNCHANGED thread
  BY <1>1, <1>2 DEF Files
<1>3. ASSUME ReadStart, NEW kind \in Started, NEW path \in Paths \cup {None},
             Spawn(<<conn, Head(up).id>>, kind, path)
      PROVE  Files'
  <2> DEFINE k == <<conn, Head(up).id>>
  <2>1. k \in Keys /\ thread[k].st = "none"
    BY <1>3, HeadUnstarted
  <2> HIDE DEF k
  <2>2. /\ thread'[k].st = "spawned" /\ thread'[k].file = None
        /\ \A j \in Keys \ {k} : thread'[j] = thread[j]
    BY <1>3, <2>1, ThreadType DEF Spawn, NoThread, Inv0, k
  <2>3. /\ \A p \in Paths : dir[p] \in Keys \cup {None}
        /\ \A j \in Keys : thread[j].file \in Keys \cup {None}
    BY ThreadType DEF Inv0, TypeOK, Threads
  <2>4. /\ \A p \in Paths : dir[p] # None => dir[p] \in Keys \ {k}
        /\ \A j \in Keys : thread[j].file # None => thread[j].file \in Keys \ {k}
    BY <2>1, <2>3 DEF Files, Unopened
  <2> QED BY <1>1, <2>2, <2>4 DEF Files
<1> QED BY <1>2, <1>3, StartStep, Elsewhere DEF ReadLoop

LEMMA UnheardStep == ASSUME Inv0, EntriesLive, Unheard, [Next]_vars PROVE Unheard'
<1>1. CASE ClientStep \/ Disconnect \/ Connect \/ UNCHANGED vars
  BY <1>1 DEF ClientStep, ListRemote, StartUpload, StartDownload, TakeResponse, SendChunk,
     GiveUp, Disconnect, Connect, vars, Unheard, Unstarted
<1>2. CASE ReadStart
  <2>1. rx' = rx
    BY <1>2 DEF ReadStart
  <2>2. \A j \in Keys : thread'[j].st = "none" => thread[j].st = "none"
    BY <1>2, StartStep, SpawnStep
  <2> QED BY <2>1, <2>2 DEF Unheard, Unstarted
<1>3. CASE ReadControl
  <2> DEFINE k == table[Head(up).id]
  <2>1. k # None => thread[k].st \in Working
    <3>1. Head(up).id \in 1 .. MaxId
      BY <1>3, UpFacts, MovedUp DEF ReadControl
    <3> QED BY <3>1 DEF EntriesLive, Registered
  <2> HIDE DEF k
  <2>2. \A j \in Keys : Unstarted(j) => rx'[j] = rx[j]
    BY <1>3, <2>1 DEF ReadControl, k, Unstarted, Working, Inv0, TypeOK
  <2> QED BY <1>3, <2>2 DEF ReadControl, Unheard, Unstarted
<1>4. ASSUME NEW k \in Keys, ThreadStep(k) PROVE Unheard'
  BY <1>4, ThreadFrame, OwnThread DEF Unheard, Unstarted, Working
<1> QED BY <1>1, <1>2, <1>3, <1>4 DEF Next, ReadLoop

\* What the client's step takes from the queue of responses it does not add to.
LEMMA RepliesTaken ==
  ASSUME Inv0, inbox # <<>>, inbox' = Tail(inbox), NEW op
  PROVE  (\E i \in 1 .. Len(inbox') : inbox'[i] = op) => Replied(op)
<1>1. inbox \in Seq(Responses)
  BY DEF Inv0, TypeOK, Responses
<1>2. Len(inbox) \in Nat /\ \A i \in 1 .. Len(inbox') : i + 1 \in 1 .. Len(inbox) /\ inbox'[i] = inbox[i + 1]
  BY <1>1
<1> QED BY <1>2 DEF Replied

LEMMA FirstReply ==
  ASSUME Inv0, inbox # <<>>
  PROVE  Replied(Head(inbox))
<1>1. inbox \in Seq(Responses)
  BY DEF Inv0, TypeOK, Responses
<1>2. 1 \in 1 .. Len(inbox) /\ Head(inbox) = inbox[1]
  BY <1>1
<1> QED BY <1>2 DEF Replied

\* A new upload: its thread was never started, and nothing under way has its id.
LEMMA BeginsUpload ==
  ASSUME Inv0, Fresh, UploadInv, NEW p \in Paths, StartUpload(p)
  PROVE  LastJob' /\ Alone' /\ Flow' /\ Done'
<1> DEFINE k == <<conn, nextId>>
           req == [op |-> "upload", id |-> nextId, path |-> p]
<1>1. /\ nextId \in 1 .. MaxId /\ nextId' = nextId + 1 /\ inbox' = <<>>
      /\ job' = [st |-> "waitUploadAck", id |-> nextId, path |-> p, n |-> 0]
      /\ UNCHANGED <<conn, thread, rx, tangled, dir, data>>
      /\ up' = Append(up, req)
  BY DEF StartUpload, CanStart, Inv0, TypeOK, connVars, fileVars
<1>2. Mine' = k /\ thread[k].st = "none" /\ k \in Keys
  BY <1>1 DEF Fresh, LaterNew, Unstarted, Mine, Inv0, TypeOK, Keys
<1>3. rx[k] = <<>>
  BY <1>2 DEF UploadInv, Unheard, Unstarted
<1>4. req \in Requests /\ IsStart(req) /\ req.id = nextId /\ req.op = "upload" /\ req.path = p
  BY <1>1 DEF Requests, IsStart, Started
<1>5. /\ Len(up') = Len(up) + 1 /\ Len(up) \in Nat
      /\ \A i \in 1 .. Len(up') : up'[i] = IF i = Len(up) + 1 THEN req ELSE up[i]
  BY <1>1, <1>4, UpFacts, Appended
<1>6. \A i \in 1 .. Len(up) : up[i].id # nextId
  BY UpFacts DEF UploadInv, Older
<1> HIDE DEF k, req
<1>8. ~Replied("uploadAck")' /\ ~Replied("done")'
  BY <1>1 DEF Replied
<1>9. \A i \in 1 .. Len(up') : Request(i)'
  BY <1>1, <1>4, <1>5, <1>6 DEF Request
<1>10. LastJob'
  BY <1>1, <1>2, <1>8, <1>9, UpFacts DEF LastJob, Uploading, Active, Working
<1>11. Flowing(0)'
  <2>1. \A i \in 1 .. Len(up') : ~(up'[i].id = job'.id /\ ~IsStart(up'[i]))
    BY <1>1, <1>4, <1>5, <1>6
  <2>2. rx'[Mine'] = <<>> /\ Len(<<>>) = 0 /\ job'.n = 0 /\ Len(up') \in Nat
    BY <1>1, <1>2, <1>3, <1>5
  <2> QED BY <1>1, <1>2, <2>1, <2>2 DEF Flowing
<1> QED BY <1>1, <1>2, <1>8, <1>10, <1>11, UpFacts DEF Alone, Flow, Done, Uploading

\* The next chunk: one more sent and one more under way.
LEMMA SendsChunk ==
  ASSUME Inv0, UploadInv, SendChunk
  PROVE  LastJob' /\ Alone' /\ Flow' /\ Done'
<1> DEFINE req == [op |-> "data", id |-> job.id, n |-> job.n + 1, eof |-> job.n + 1 = Chunks]
<1>1. /\ job.st = "sending" /\ job'.id = job.id /\ job'.path = job.path /\ job'.n = job.n + 1
      /\ job'.st \in {"sending", "waitDone"} /\ Uploading /\ Uploading' /\ up' = Append(up, req)
      /\ UNCHANGED <<conn, nextId, inbox, thread, rx, tangled, dir, data>>
  BY DEF SendChunk, Inv0, TypeOK, connVars, fileVars, Uploading
<1>2. Mine' = Mine /\ thread[Mine].st \notin Unopened
  BY <1>1 DEF Mine, UploadInv, LastJob
<1>3. req \in Requests /\ ~IsStart(req) /\ req.op = "data" /\ req.id = job.id /\ req.n = job.n + 1
      /\ (req.eof <=> job.n + 1 = Chunks)
  <2>1. job.id \in 1 .. MaxId /\ job.n + 1 \in 1 .. Chunks
    BY <1>1, TransfersAssumption DEF Inv0, JobInv, JobOver, Ended, TypeOK
  <2> QED BY <2>1 DEF Requests, IsStart, Started
<1>4. /\ Len(up') = Len(up) + 1 /\ Len(up) \in Nat
      /\ \A i \in 1 .. Len(up') : up'[i] = IF i = Len(up) + 1 THEN req ELSE up[i]
  BY <1>1, <1>3, UpFacts, Appended
<1>5. \A i \in 1 .. Len(up) : Request(i)
  BY <1>1 DEF UploadInv, LastJob
<1> HIDE DEF req
<1>6. \A i \in 1 .. Len(up') : Request(i)'
  <2> SUFFICES ASSUME NEW i \in 1 .. Len(up') PROVE Request(i)'
    OBVIOUS
  <2>1. CASE i = Len(up) + 1
    BY <1>1, <1>3, <1>4, <2>1, UpFacts DEF Request
  <2>2. CASE i \in 1 .. Len(up)
    <3>1. up'[i] = up[i] /\ job'.n - (Len(up') - i) = job.n - (Len(up) - i)
      BY <1>1, <1>4, <2>2, UpFacts
    <3>2. Request(i)
      BY <1>5, <2>2
    <3> QED BY <1>1, <3>1, <3>2 DEF Request
  <2> QED BY <1>4, <2>1, <2>2
<1>7. LastJob'
  <2>1. \A i \in 1 .. Len(up) : thread[Mine].st # "none" => ~IsStart(up[i])
    BY <1>1 DEF UploadInv, LastJob
  <2> QED BY <1>1, <1>2, <1>3, <1>4, <1>6, <2>1 DEF UploadInv, LastJob
<1>8. Flow'
  <2> SUFFICES ASSUME Mine \notin tangled, thread[Mine].st = "running"
               PROVE  \E w \in 0 .. Chunks : Flowing(w)'
    BY <1>1, <1>2 DEF Flow
  <2>1. PICK w \in 0 .. Chunks : Flowing(w)
    BY <1>1 DEF UploadInv, Flow
  <2>2. Len(rx[Mine]) \in Nat
    BY <1>1 DEF Inv0, TypeOK, JobInv, JobOver, Ended, Mine, Keys
  <2> DEFINE routed == w + Len(rx[Mine])
             first == Len(up) - (job.n - routed)
  <2>3. /\ rx' = rx /\ first = Len(up') - (job'.n - routed) /\ routed <= job.n /\ first >= 0
        /\ first <= Len(up) /\ first \in Int /\ routed <= job'.n
    <3>1. routed <= job.n /\ first >= 0
      BY <2>1 DEF Flowing
    <3>2. routed \in Nat /\ job.n \in Nat /\ Len(up) \in Nat
      BY <2>2, UpFacts
    <3>3. Len(up') = Len(up) + 1 /\ job'.n = job.n + 1 /\ rx' = rx
      BY <1>1, <1>4
    <3> HIDE DEF routed
    <3> QED BY <3>1, <3>2, <3>3
  <2>4. \A i \in 1 .. Len(up') : up'[i].id = job.id /\ ~IsStart(up'[i]) <=> i > first
    <3>1. \A i \in 1 .. Len(up) : up[i].id = job.id /\ ~IsStart(up[i]) <=> i > first
      BY <2>1 DEF Flowing
    <3> HIDE DEF first
    <3> QED BY <1>3, <1>4, <2>3, <3>1
  <2>5. Flowing(w)'
    BY <1>1, <1>2, <2>1, <2>3, <2>4 DEF Flowing
  <2> QED BY <2>5
<1>9. Done'
  BY <1>1, <1>2 DEF UploadInv, Done, Replied, Stored
<1>10. Alone'
  BY <1>1, <1>2 DEF UploadInv, Alone
<1> QED BY <1>7, <1>8, <1>9, <1>10

\* A response taken: permission to send, or the word that the upload is done.
LEMMA TakesReply ==
  ASSUME Inv0, UploadInv, TakeResponse, Uploading'
  PROVE  LastJob' /\ Alone' /\ Flow' /\ Done'
<1>1. /\ \/ job.st = "waitUploadAck" /\ job'.st = "sending" /\ Head(inbox) = "uploadAck"
         \/ job.st = "waitDone" /\ job'.st = "uploaded" /\ Head(inbox) = "done"
         \/ job.st = "waitUploadAck" /\ job'.st = "waitUploadAck"
      /\ inbox # <<>> /\ inbox' \in {<<>>, Tail(inbox)}
      /\ job'.id = job.id /\ job'.path = job.path /\ job'.n = job.n
      /\ UNCHANGED <<conn, nextId, up, thread, rx, tangled, dir, data>>
  <2>1. PICK to \in After(job.st, Head(inbox)) :
          /\ job' = [job EXCEPT !.st = to]
          /\ inbox' = IF to \in Ended THEN <<>> ELSE Tail(inbox)
    BY DEF TakeResponse
  <2>2. inbox # <<>> /\ job.st \in Waiting /\ job'.st = to
        /\ job'.id = job.id /\ job'.path = job.path /\ job'.n = job.n
    BY <2>1 DEF TakeResponse, Inv0, TypeOK
  <2>3. job.st = "waitDone" => Head(inbox) \in {"done", "error"}
    BY <2>2, FirstReply DEF UploadInv, Answers, Uploading, Replied
  <2>4. to \in {"waitUploadAck", "sending", "waitDone", "uploaded"}
    BY <2>2 DEF Uploading
  <2>5. Head(inbox) # "error" /\ job.st \in {"waitUploadAck", "waitDone"}
    BY <2>1, <2>2, <2>4 DEF After, Waiting
  <2>6. job.st = "waitUploadAck" => to \in {"sending", "waitUploadAck"}
                                    /\ (to = "sending" => Head(inbox) = "uploadAck")
    BY <2>1, <2>5 DEF After
  <2>7. job.st = "waitDone" => to = "uploaded"
    BY <2>1, <2>5 DEF After
  <2>8. UNCHANGED <<conn, nextId, up, thread, rx, tangled, dir, data>>
    BY <2>2, <2>5 DEF TakeResponse, connVars, fileVars
  <2> QED BY <2>1, <2>2, <2>3, <2>5, <2>6, <2>7, <2>8
<1>2. /\ Uploading /\ Mine' = Mine
      /\ job'.st # "waitUploadAck" => thread[Mine].st \notin Unopened
      /\ \A op : Replied(op)' => Replied(op)
      /\ (job'.st = "uploaded" => Replied("done"))
  <2>1. Uploading /\ Replied(Head(inbox))
    BY <1>1, FirstReply DEF Uploading
  <2>2. \A op : Replied(op)' => Replied(op)
    <3>1. CASE inbox' = <<>>
      BY <3>1 DEF Replied
    <3>2. CASE inbox' = Tail(inbox)
      BY <1>1, <3>2, RepliesTaken DEF Replied
    <3> QED BY <1>1, <3>1, <3>2
  <2>3. job'.st # "waitUploadAck" => thread[Mine].st \notin Unopened
    BY <1>1, <2>1 DEF UploadInv, LastJob
  <2> QED BY <1>1, <2>1, <2>2, <2>3 DEF Mine
<1>3. LastJob'
  <2>1. \A i \in 1 .. Len(up) : Request(i) => Request(i)'
    BY <1>1 DEF Request
  <2> QED BY <1>1, <1>2, <2>1 DEF UploadInv, LastJob
<1>4. Flow'
  <2>1. \A w \in 0 .. Chunks : Flowing(w) => Flowing(w)'
    BY <1>1, <1>2 DEF Flowing
  <2> QED BY <1>1, <1>2, <2>1 DEF UploadInv, Flow
<1>5. Done'
  BY <1>1, <1>2 DEF UploadInv, Done, Stored
<1>6. Alone'
  BY <1>1, <1>2 DEF UploadInv, Alone
<1> QED BY <1>3, <1>4, <1>5, <1>6

LEMMA UploadClient ==
  ASSUME Inv0, Inv0', Fresh, UploadInv, ClientStep
  PROVE  Older' /\ Ascending' /\ LastJob' /\ Files' /\ Alone' /\ Flow' /\ Done'
<1>1. Older' /\ Ascending'
  BY OrderClient DEF UploadInv
<1>2. Files'
  <2>1. UNCHANGED <<dir, thread>>
    BY DEF ClientStep, ListRemote, StartUpload, StartDownload, TakeResponse, SendChunk,
       GiveUp, fileVars
  <2> QED BY <2>1 DEF UploadInv, Files
<1>3. CASE ~Uploading'
  BY <1>1, <1>2, <1>3 DEF LastJob, Alone, Flow, Done
<1>4. CASE Uploading'
  <2>1. ~ListRemote /\ ~StartDownload /\ ~GiveUp
    <3>1. ~ListRemote
      BY <1>4 DEF ListRemote, Uploading, Inv0, TypeOK
    <3>2. ~StartDownload
      BY <1>4 DEF StartDownload, Uploading, Inv0, TypeOK
    <3>3. ~GiveUp
      BY <1>4 DEF GiveUp, Uploading, Inv0, TypeOK
    <3> QED BY <3>1, <3>2, <3>3
  <2> QED BY <1>1, <1>2, <1>4, <2>1, BeginsUpload, SendsChunk, TakesReply DEF ClientStep
<1> QED BY <1>3, <1>4

\* Requests keep their meaning when the first is taken, since each is counted from the end.
LEMMA RequestsMoveUp ==
  ASSUME Inv0, up # <<>>, up' = Tail(up), UNCHANGED job, \A i \in 1 .. Len(up) : Request(i)
  PROVE  \A i \in 1 .. Len(up') : Request(i)'
<1>1. /\ Len(up) \in Nat /\ Len(up') = Len(up) - 1
      /\ \A i \in 1 .. Len(up') : i + 1 \in 1 .. Len(up) /\ up'[i] = up[i + 1]
  BY UpFacts, MovedUp
<1> SUFFICES ASSUME NEW i \in 1 .. Len(up') PROVE Request(i)'
  OBVIOUS
<1>2. Len(up') - i = Len(up) - (i + 1) /\ up'[i] = up[i + 1] /\ Request(i + 1)
  BY <1>1
<1> QED BY <1>2 DEF Request

\* A request that is no chunk of the upload is taken.
LEMMA FlowMovesUp ==
  ASSUME Inv0, up # <<>>, up' = Tail(up), UNCHANGED <<job, conn, dir, data>>,
         Mine \in Keys, NEW w \in 0 .. Chunks, Flowing(w), rx'[Mine] = rx[Mine],
         up[1].id # job.id \/ IsStart(up[1]),
         thread'[Mine].st = "running" => thread'[Mine] = thread[Mine]
  PROVE  Flowing(w)'
<1> DEFINE routed == w + Len(rx[Mine])
           first == Len(up) - (job.n - routed)
<1>1. /\ Len(up) \in Nat \ {0} /\ Len(up') = Len(up) - 1
      /\ \A i \in 1 .. Len(up') : i + 1 \in 1 .. Len(up) /\ up'[i] = up[i + 1]
  BY UpFacts, MovedUp
<1>2. routed \in Nat /\ job.n \in Nat /\ routed <= job.n /\ first >= 0 /\ Mine' = Mine
  <2>1. rx[Mine] \in Seq(Requests)
    BY DEF Inv0, TypeOK
  <2>2. Len(rx[Mine]) \in Nat
    BY <2>1
  <2>3. routed <= job.n /\ first >= 0
    BY DEF Flowing
  <2> QED BY <2>2, <2>3, UpFacts DEF Mine
<1>3. \A i \in 1 .. Len(up) : up[i].id = job.id /\ ~IsStart(up[i]) <=> i > first
  BY DEF Flowing
<1>4. first \in Int /\ first >= 1 /\ first - 1 = Len(up') - (job.n - routed)
  <2> HIDE DEF routed
  <2>1. first \in Int
    BY <1>1, <1>2
  <2>2. ~(1 > first)
    BY <1>1, <1>3
  <2> QED BY <1>1, <1>2, <2>1, <2>2
<1>5. \A i \in 1 .. Len(up') : up'[i].id = job.id /\ ~IsStart(up'[i]) <=> i > first - 1
  <2> HIDE DEF first
  <2> TAKE i \in 1 .. Len(up')
  <2>1. up'[i].id = job.id /\ ~IsStart(up'[i]) <=> i + 1 > first
    BY <1>1, <1>3
  <2> QED BY <1>1, <1>4, <2>1
<1>6. \A i \in 1 .. Len(rx'[Mine]) : LET msg == rx'[Mine][i] IN
        msg.op = "data" /\ msg.n = w + i /\ (msg.eof <=> w + i = Chunks)
  BY DEF Flowing
<1>7. thread'[Mine].st = "running" =>
        /\ thread'[Mine].file # None /\ dir'[job'.path] = thread'[Mine].file
        /\ data'[thread'[Mine].file] = {Mine} \X (1 .. w)
  BY DEF Flowing
<1>8. routed = w + Len(rx'[Mine']) /\ first - 1 = Len(up') - (job'.n - routed)
      /\ routed <= job'.n /\ first - 1 >= 0
  <2>1. routed = w + Len(rx'[Mine'])
    BY <1>2
  <2> HIDE DEF first, routed
  <2>2. job'.n = job.n
    OBVIOUS
  <2>3. first - 1 >= 0
    BY <1>4
  <2> QED BY <1>2, <1>4, <2>1, <2>2, <2>3
<1> HIDE DEF first, routed
<1> QED BY <1>2, <1>5, <1>6, <1>7, <1>8 DEF Flowing

\* A start request read: of the upload, or of an operation before it that was given up.
LEMMA UploadStart ==
  ASSUME Inv0, Fresh, UploadInv, ReadStart, Uploading
  PROVE  LastJob' /\ Alone' /\ Flow' /\ Done'
<1> DEFINE k == <<conn, Head(up).id>>
<1>1. /\ up # <<>> /\ up' = Tail(up) /\ Head(up) = up[1] /\ IsStart(up[1])
      /\ UNCHANGED <<conn, alive, nextId, job, table, rx, dir, data>>
  BY MovedUp, UpFacts DEF ReadStart, IsStart, Started, connVars, clientVars, fileVars
<1>2. /\ Len(up) \in Nat \ {0} /\ Len(up') = Len(up) - 1 /\ Mine' = Mine /\ Mine \in Keys
      /\ Uploading'
      /\ \A i \in 1 .. Len(up') : i + 1 \in 1 .. Len(up) /\ up'[i] = up[i + 1]
  <2>1. Mine' = Mine /\ Uploading'
    BY <1>1 DEF Mine, Uploading
  <2>2. Mine \in Keys
    BY DEF Mine, UploadInv, LastJob, Inv0, TypeOK, Keys
  <2> QED BY <1>1, <2>1, <2>2, UpFacts, MovedUp
<1>3. thread[Mine].st = "none" /\ job.st = "waitUploadAck"
      /\ ~Replied("uploadAck") /\ ~Replied("done")
  BY <1>1, <1>2 DEF UploadInv, LastJob, Unopened
<1>4. ~Replied("uploadAck")' /\ ~Replied("done")'
  <2>1. inbox' = inbox \/ inbox' = Append(inbox, "error")
    BY DEF ReadStart, Respond
  <2>2. inbox \in Seq(Responses)
    BY DEF Inv0, TypeOK, Responses
  <2>3. CASE inbox' = inbox
    BY <1>3, <2>3 DEF Replied
  <2>4. CASE inbox' = Append(inbox, "error")
    <3>1. Len(inbox') = Len(inbox) + 1 /\ \A i \in 1 .. Len(inbox') :
            inbox'[i] = IF i = Len(inbox) + 1 THEN "error" ELSE inbox[i]
      BY <2>2, <2>4
    <3>2. Len(inbox) \in Nat
      BY <2>2
    <3> QED BY <1>3, <3>1, <3>2 DEF Replied
  <2> QED BY <2>1, <2>3, <2>4
<1>5. \A i \in 1 .. Len(up') : Request(i)'
  BY <1>1, RequestsMoveUp DEF UploadInv, LastJob
<1>6. PICK w \in 0 .. Chunks : Mine \notin tangled => Flowing(w)
  <2>1. 0 \in 0 .. Chunks
    BY UpFacts
  <2> QED BY <1>3, <2>1 DEF UploadInv, Flow, Unopened
<1>7. CASE thread'[Mine] = thread[Mine] /\ tangled \subseteq tangled'
  <2>1. LastJob'
    BY <1>1, <1>2, <1>3, <1>4, <1>5, <1>7 DEF UploadInv, LastJob, Active, Working
  <2>2. Mine \notin tangled => Flowing(w)'
    BY <1>1, <1>2, <1>3, <1>6, <1>7, FlowMovesUp
  <2>3. Flow'
    BY <1>2, <1>7, <2>2 DEF Flow
  <2> QED BY <1>1, <1>2, <1>3, <1>4, <1>7, <2>1, <2>3 DEF Alone, Done
<1>8. CASE Head(up).id = job.id /\ AllowFile
  <2>1. k = Mine /\ Head(up).op = "upload" /\ Head(up).path = job.path
    BY <1>1, <1>2, <1>8 DEF UploadInv, LastJob, Request, Mine
  <2>2. Spawn(Mine, "upload", job.path)
    BY <1>8, <2>1 DEF ReadStart
  <2>3. /\ thread'[Mine].st = "spawned" /\ thread'[Mine].kind = "upload" /\ thread'[Mine].path = job.path
        /\ \A j \in Keys \ {Mine} : thread'[j] = thread[j]
        /\ tangled \subseteq tangled'
    BY <1>2, <2>2, SpawnStep DEF Started, UploadInv, LastJob
  <2>4. \A i \in 1 .. Len(up') : ~IsStart(up'[i])
    <3> SUFFICES ASSUME NEW i \in 1 .. Len(up'), IsStart(up'[i]) PROVE FALSE
      OBVIOUS
    <3>1. i + 1 \in 1 .. Len(up) /\ IsStart(up[i + 1]) /\ 1 < i + 1 /\ 1 \in 1 .. Len(up)
      BY <1>2
    <3>2. up[1].id < up[i + 1].id
      BY <1>1, <3>1 DEF UploadInv, Ascending
    <3>3. up[i + 1].id < nextId /\ job.id = nextId - 1 /\ up[1].id = job.id
      BY <1>1, <1>8, <3>1 DEF UploadInv, Older, LastJob
    <3> QED BY <3>1, <3>2, <3>3, UpFacts
  <2>5. LastJob'
    BY <1>1, <1>2, <1>3, <1>4, <1>5, <2>3, <2>4 DEF UploadInv, LastJob
  <2>6. Mine \notin tangled => Flowing(w)'
    BY <1>1, <1>2, <1>3, <1>6, <2>3, FlowMovesUp
  <2>7. Flow'
    BY <1>2, <2>3, <2>6 DEF Flow
  <2>8. Alone'
    <3> SUFFICES ASSUME Mine \notin tangled', NEW j \in Keys \ {Mine}, thread[j].st \in Active,
                        thread[j].kind = "upload", thread[j].path = job.path
                 PROVE  FALSE
      BY <1>1, <1>2, <2>3 DEF Alone
    <3>1. j \in Beside(Mine, "upload", job.path)
      BY DEF Beside
    <3> QED BY <2>2, <3>1 DEF Spawn
  <2> QED BY <1>1, <1>2, <1>3, <1>4, <2>5, <2>7, <2>8 DEF Done
<1>9. CASE Head(up).id # job.id /\ AllowFile
  <2>1. Mine # k /\ k \in Keys
    BY <1>9, HeadUnstarted DEF Mine
  <2>2. \E kind \in Started, path \in Paths \cup {None} : Spawn(k, kind, path) \/ UNCHANGED <<thread, tangled>>
    BY StartStep DEF Started
  <2> QED BY <1>2, <1>7, <2>1, <2>2, SpawnStep
<1>10. CASE ~AllowFile
  BY <1>7, <1>10 DEF ReadStart
<1> QED BY <1>8, <1>9, <1>10

\* A chunk or an acknowledgement read: a chunk of the upload goes to its thread, as it has
\* its place in the table; others go elsewhere.
LEMMA UploadControl ==
  ASSUME Inv0, EntriesLive, CutOffOnlyByReuse, UploadInv, ReadControl, Uploading
  PROVE  LastJob' /\ Alone' /\ Flow' /\ Done'
<1> DEFINE k == table[Head(up).id]
<1>1. /\ up # <<>> /\ up' = Tail(up) /\ Head(up) = up[1] /\ ~IsStart(up[1])
      /\ UNCHANGED <<conn, alive, nextId, job, inbox, table, thread, dir, data, tangled>>
  BY MovedUp, UpFacts DEF ReadControl, IsStart, Started, connVars, clientVars, fileVars
<1>2. /\ Len(up) \in Nat \ {0} /\ Len(up') = Len(up) - 1
      /\ \A i \in 1 .. Len(up') : i + 1 \in 1 .. Len(up) /\ up'[i] = up[i + 1]
      /\ 1 \in 1 .. Len(up) /\ up[1] \in Requests /\ up[1].id \in 1 .. MaxId
  BY <1>1, UpFacts, MovedUp
<1>3. Mine' = Mine /\ Mine \in Keys /\ Uploading' /\ rx \in [Keys -> Seq(Requests)]
  <2>1. Mine' = Mine /\ Uploading'
    BY <1>1 DEF Mine, Uploading
  <2>2. Mine \in Keys /\ rx \in [Keys -> Seq(Requests)]
    BY DEF Mine, UploadInv, LastJob, Inv0, TypeOK, Keys
  <2> QED BY <2>1, <2>2
<1>4. LastJob'
  <2>1. \A i \in 1 .. Len(up') : Request(i)'
    BY <1>1, RequestsMoveUp DEF UploadInv, LastJob
  <2> QED BY <1>1, <1>2, <1>3, <2>1 DEF UploadInv, LastJob, Replied
<1>5. Alone' /\ Done'
  BY <1>1, <1>3 DEF UploadInv, Alone, Done, Replied, Stored
<1>6. Flow'
  <2> SUFFICES ASSUME Mine \notin tangled, thread[Mine].st \in Unopened \cup {"running"}
               PROVE  \E w \in 0 .. Chunks : Flowing(w)'
    BY <1>1, <1>3 DEF Flow
  <2>1. PICK w \in 0 .. Chunks : Flowing(w)
    BY DEF UploadInv, Flow
  <2>2. CASE up[1].id # job.id
    <3>1. k # Mine
      <4>1. k = table[up[1].id] /\ Mine # None /\ Mine[2] = job.id
        BY <1>1, <1>3, TransfersAssumption DEF Mine
      <4> HIDE DEF k
      <4> QED BY <1>2, <2>2, <4>1 DEF EntriesLive
    <3>2. rx'[Mine] = rx[Mine]
      BY <1>3, <3>1 DEF ReadControl
    <3> QED BY <1>1, <1>3, <2>1, <2>2, <3>2, FlowMovesUp
  <2>3. CASE up[1].id = job.id
    <3> DEFINE routed == w + Len(rx[Mine])
               first == Len(up) - (job.n - routed)
    <3>1. /\ routed <= job.n /\ first >= 0 /\ ~(first >= 1)
          /\ \A i \in 1 .. Len(up) : up[i].id = job.id /\ ~IsStart(up[i]) <=> i > first
      <4>1. routed <= job.n /\ first >= 0
        BY <2>1 DEF Flowing
      <4>2. \A i \in 1 .. Len(up) : up[i].id = job.id /\ ~IsStart(up[i]) <=> i > first
        BY <2>1 DEF Flowing
      <4>3. 1 > first
        BY <1>1, <1>2, <2>3, <4>2
      <4> HIDE DEF first, routed
      <4>4. first \in Int => ~(first >= 1)
        BY <4>3
      <4>5. first \in Int
        BY <1>2, <1>3, UpFacts DEF first, routed
      <4> QED BY <4>1, <4>2, <4>4, <4>5
    <3>2. routed \in Nat /\ job.n \in Nat /\ Len(rx[Mine]) \in Nat
      BY <1>3, UpFacts
    <3>3. first = 0 /\ job.n = Len(up) + routed
      <4>1. first >= 0 /\ ~(first >= 1) /\ Len(up) \in Nat
        BY <1>2, <3>1
      <4> HIDE DEF routed
      <4>2. first = 0
        BY <3>2, <4>1
      <4> QED BY <3>2, <4>1, <4>2
    <3>4. thread[Mine].st = "running"
      <4>1. job.n # 0
        <5> HIDE DEF routed
        <5> QED BY <1>2, <3>2, <3>3
      <4> QED BY <4>1 DEF UploadInv, LastJob
    <3>5. k = Mine
      BY <1>1, <1>3, <2>3, <3>4 DEF CutOffOnlyByReuse, Registered, Working, CutOff, Mine
    <3>6. k # None
      BY <1>3, <3>5, TransfersAssumption
    <3>7. rx' = [rx EXCEPT ![Mine] = Append(rx[Mine], up[1])]
      BY <1>1, <3>4, <3>5, <3>6 DEF ReadControl
    <3>8. rx'[Mine] = Append(rx[Mine], up[1])
      BY <1>3, <3>7
    <3>9. /\ Len(rx'[Mine]) = Len(rx[Mine]) + 1
          /\ \A i \in 1 .. Len(rx'[Mine]) :
               rx'[Mine][i] = IF i = Len(rx[Mine]) + 1 THEN up[1] ELSE rx[Mine][i]
      BY <1>2, <1>3, <3>8, Appended
    <3>10. up[1].op = "data" /\ up[1].n = routed + 1 /\ (up[1].eof <=> routed + 1 = Chunks)
      <4>1. /\ up[1].op = "data" /\ up[1].n = job.n - (Len(up) - 1)
            /\ (up[1].eof <=> up[1].n = Chunks)
        BY <1>1, <1>2, <2>3 DEF UploadInv, LastJob, Request
      <4>2. job.n - (Len(up) - 1) = routed + 1
        <5> HIDE DEF routed
        <5> QED BY <1>2, <3>2, <3>3
      <4> QED BY <4>1, <4>2
    <3>11. \A i \in 1 .. Len(rx'[Mine]) : LET msg == rx'[Mine][i] IN
             msg.op = "data" /\ msg.n = w + i /\ (msg.eof <=> w + i = Chunks)
      <4> TAKE i \in 1 .. Len(rx'[Mine])
      <4>1. CASE i = Len(rx[Mine]) + 1
        <5>1. w + i = routed + 1
          BY <3>2, <4>1
        <5> QED BY <3>9, <3>10, <4>1, <5>1
      <4>2. CASE i # Len(rx[Mine]) + 1
        <5>1. i \in 1 .. Len(rx[Mine]) /\ rx'[Mine][i] = rx[Mine][i]
          BY <3>2, <3>9, <4>2
        <5> QED BY <2>1, <5>1 DEF Flowing
      <4> QED BY <4>1, <4>2
    <3>12. \A i \in 1 .. Len(up') : up'[i].id = job.id /\ ~IsStart(up'[i]) <=> i > 0
      <4> HIDE DEF first, routed
      <4> TAKE i \in 1 .. Len(up')
      <4>1. i + 1 \in 1 .. Len(up) /\ up'[i] = up[i + 1] /\ i + 1 > first /\ i > 0
        BY <1>2, <3>3
      <4> QED BY <3>1, <4>1
    <3>13. /\ Len(up') - (job.n - (w + Len(rx'[Mine]))) = 0 /\ w + Len(rx'[Mine]) <= job.n
      <4>1. w + Len(rx'[Mine]) = routed + 1
        BY <3>2, <3>9
      <4>2. Len(up) \in Nat /\ Len(up) >= 1 /\ Len(up') = Len(up) - 1
        BY <1>2
      <4> HIDE DEF routed
      <4>3. job.n - (routed + 1) = Len(up')
        BY <3>2, <3>3, <4>2
      <4>4. routed + 1 <= job.n
        BY <3>2, <3>3, <4>2
      <4> QED BY <4>1, <4>2, <4>3, <4>4
    <3>14. thread[Mine].file # None /\ dir[job.path] = thread[Mine].file
           /\ data[thread[Mine].file] = {Mine} \X (1 .. w)
      BY <2>1, <3>4 DEF Flowing
    <3>15. job' = job /\ thread' = thread /\ dir' = dir /\ data' = data
      BY <1>1
    <3>16. Flowing(w)'
      BY <1>3, <3>11, <3>12, <3>13, <3>14, <3>15 DEF Flowing
    <3> QED BY <3>16
  <2> QED BY <2>2, <2>3
<1> QED BY <1>4, <1>5, <1>6

\* What the others do leaves the upload's file alone, since none of them came for its path.
LEMMA FileKept ==
  ASSUME Inv0, Files, Alone, Uploading, job.path \in Paths, Mine \in Keys, Mine \notin tangled,
         thread[Mine].st # "none", NEW k \in Keys \ {Mine}, ThreadStep(k)
  PROVE  /\ dir'[job.path] = dir[job.path]
         /\ dir[job.path] # None => data'[dir[job.path]] = data[dir[job.path]]
<1> DEFINE p == thread[k].path
<1>1. thread[k].st \in Active /\ (thread[k].kind = "upload" => p # job.path /\ p \in Paths)
  BY OwnThread DEF Alone, Inv0, PathInv
<1>2. dir \in [Paths -> Keys \cup {None}] /\ data \in [Keys -> SUBSET (Keys \X (1 .. Chunks))]
      /\ None \notin Keys
  BY TransfersAssumption DEF Inv0, TypeOK
<1>3. CASE CreateFile(k)
  <2> DEFINE f == IF dir[p] = None THEN k ELSE dir[p]
  <2>1. /\ dir' = [dir EXCEPT ![p] = f] /\ data' = [data EXCEPT ![f] = {}] /\ thread[k].kind = "upload"
        /\ thread[k].st = "inserted"
    BY <1>3 DEF CreateFile
  <2>2. dir[job.path] # None => dir[job.path] # f
    BY <1>1, <2>1 DEF Files, Unopened
  <2> HIDE DEF f
  <2> QED BY <1>1, <1>2, <2>1, <2>2
<1>4. CASE WriteChunk(k) /\ UNCHANGED dir
  <2>1. thread[k].kind = "upload" /\ \E new : data' = [data EXCEPT ![thread[k].file] = new]
    BY <1>4 DEF WriteChunk
  <2>2. dir[job.path] # None => dir[job.path] # thread[k].file
    BY <1>1, <2>1 DEF Files
  <2> QED BY <1>2, <1>4, <2>1, <2>2
<1>5. CASE UploadCancelled(k) /\ UNCHANGED data
  BY <1>1, <1>2, <1>5 DEF UploadCancelled
<1> QED BY <1>3, <1>4, <1>5, FileMoves

\* A step of another thread.
LEMMA UploadOthers ==
  ASSUME Inv0, UploadInv, Uploading, NEW k \in Keys \ {Mine}, ThreadStep(k)
  PROVE  LastJob' /\ Alone' /\ Flow' /\ Done'
<1>1. /\ UNCHANGED <<conn, alive, nextId, job, up, tangled, inbox>>
      /\ rx'[Mine] = rx[Mine] /\ thread'[Mine] = thread[Mine]
      /\ Mine \in Keys /\ job.path \in Paths /\ Mine' = Mine /\ Uploading'
  <2>1. Mine \in Keys /\ job.path \in Paths
    BY DEF Mine, UploadInv, LastJob, Inv0, TypeOK, Keys
  <2>2. UNCHANGED <<conn, alive, nextId, job, up, tangled, inbox>>
    BY ThreadFrame
  <2> QED BY <2>1, <2>2, ThreadFrame DEF Mine, Uploading
<1>2. LastJob'
  BY <1>1 DEF UploadInv, LastJob, Request, Replied
<1>3. Alone'
  <2>1. \A j \in Keys : thread'[j].st \in Active => /\ thread[j].st \in Active
                                                    /\ thread'[j].kind = thread[j].kind
                                                    /\ thread'[j].path = thread[j].path
    BY OwnThread
  <2> QED BY <1>1, <2>1 DEF UploadInv, Alone
<1>4. Mine \notin tangled /\ thread[Mine].st # "none" =>
        /\ dir'[job.path] = dir[job.path]
        /\ dir[job.path] # None => data'[dir[job.path]] = data[dir[job.path]]
  BY <1>1, FileKept DEF UploadInv
<1>5. Flow'
  <2> SUFFICES ASSUME Mine \notin tangled, thread[Mine].st \in Unopened \cup {"running"}
               PROVE  \E w \in 0 .. Chunks : Flowing(w)'
    BY <1>1 DEF Flow
  <2>1. PICK w \in 0 .. Chunks : Flowing(w)
    BY DEF UploadInv, Flow
  <2>2. thread[Mine].st = "running" => thread[Mine].st # "none"
    OBVIOUS
  <2>3. Flowing(w)'
    BY <1>1, <1>4, <2>1, <2>2 DEF Flowing
  <2> QED BY <2>3
<1>6. Done'
  <2>1. thread[Mine].st \in {"closing", "ended"} => thread[Mine].st # "none"
    OBVIOUS
  <2> QED BY <1>1, <1>4, <2>1 DEF UploadInv, Done, Replied, Stored
<1> QED BY <1>2, <1>3, <1>5, <1>6

\* A response adds itself to those on their way, and no other.
LEMMA RespondAdds ==
  ASSUME Inv0, NEW k, NEW op \in Responses, Respond(k, op), NEW other, other # op
  PROVE  (\E i \in 1 .. Len(inbox') : inbox'[i] = other) => Replied(other)
<1>1. inbox \in Seq(Responses)
  BY DEF Inv0, TypeOK, Responses
<1>2. CASE inbox' = inbox
  BY <1>2 DEF Replied
<1>3. CASE inbox' = Append(inbox, op)
  <2>1. /\ Len(inbox) \in Nat /\ Len(inbox') = Len(inbox) + 1
        /\ \A i \in 1 .. Len(inbox') : inbox'[i] = IF i = Len(inbox) + 1 THEN op ELSE inbox[i]
    BY <1>1, <1>3
  <2> QED BY <2>1 DEF Replied
<1> QED BY <1>2, <1>3 DEF Respond

\* The chunk that is written is the next one; the last one completes the file.
LEMMA WritesChunk ==
  ASSUME Inv0, UploadInv, Uploading, Mine \in Keys, Mine \notin tangled, WriteChunk(Mine)
  PROVE  \E w \in 0 .. Chunks :
           /\ Flowing(w) /\ rx[Mine] # <<>> /\ w + 1 \in 0 .. Chunks
           /\ (Head(rx[Mine]).eof <=> w + 1 = Chunks)
           /\ dir' = dir /\ dir[job.path] = thread[Mine].file /\ thread[Mine].file \in Keys
           /\ data'[thread[Mine].file] = {Mine} \X (1 .. w + 1)
<1>1. thread[Mine].st = "running" /\ rx[Mine] # <<>> /\ dir' = dir
  BY DEF WriteChunk, Receives
<1>2. PICK w \in 0 .. Chunks : Flowing(w)
  BY <1>1 DEF UploadInv, Flow
<1>3. rx[Mine] \in Seq(Requests) /\ data \in [Keys -> SUBSET (Keys \X (1 .. Chunks))]
      /\ thread[Mine].file \in Keys \cup {None}
  BY ThreadType DEF Inv0, TypeOK, Threads
<1>4. 1 \in 1 .. Len(rx[Mine]) /\ Head(rx[Mine]) = rx[Mine][1] /\ rx[Mine][1] \in Requests
  BY <1>1, <1>3, MovedUp
<1>5. Head(rx[Mine]).op = "data" /\ Head(rx[Mine]).n = w + 1 /\ (Head(rx[Mine]).eof <=> w + 1 = Chunks)
  BY <1>2, <1>4 DEF Flowing
<1>6. w + 1 \in 1 .. Chunks
  BY <1>4, <1>5 DEF Requests
<1>7. /\ dir[job.path] = thread[Mine].file /\ thread[Mine].file \in Keys
      /\ data[thread[Mine].file] = {Mine} \X (1 .. w)
  BY <1>1, <1>2, <1>3 DEF Flowing
<1>8. data'[thread[Mine].file] = data[thread[Mine].file] \cup {<<Mine, w + 1>>}
  <2>1. data' = [data EXCEPT ![thread[Mine].file] = @ \cup {<<Mine, Head(rx[Mine]).n>>}]
    BY DEF WriteChunk
  <2> QED BY <1>3, <1>5, <1>7, <2>1
<1>9. ({Mine} \X (1 .. w)) \cup {<<Mine, w + 1>>} = {Mine} \X (1 .. w + 1)
  <2>1. w \in Nat /\ 1 .. w + 1 = (1 .. w) \cup {w + 1}
    OBVIOUS
  <2> HIDE DEF Mine
  <2> QED BY <2>1
<1> QED BY <1>1, <1>2, <1>5, <1>6, <1>7, <1>8, <1>9

\* A step of the upload's own thread.
LEMMA UploadOwn ==
  ASSUME Inv0, UploadInv, Uploading, Mine \in Keys, ThreadStep(Mine)
  PROVE  LastJob' /\ Alone' /\ Flow' /\ Done'
<1>1. /\ UNCHANGED <<conn, alive, nextId, job, up, tangled>> /\ Mine' = Mine /\ Uploading'
      /\ \A j \in Keys \ {Mine} : thread'[j] = thread[j]
      /\ job.path \in Paths
  <2>1. UNCHANGED <<conn, alive, nextId, job, up, tangled>> /\ job.path \in Paths
    BY ThreadFrame DEF UploadInv, LastJob
  <2> QED BY <2>1, ThreadFrame DEF Mine, Uploading
<1>2. /\ thread[Mine].st \in Active /\ thread[Mine].kind = "upload" /\ thread[Mine].path = job.path
      /\ thread'[Mine].st \in Active => thread'[Mine].kind = "upload" /\ thread'[Mine].path = job.path
      /\ thread[Mine].st # "none" /\ thread'[Mine].st # "none"
  BY OwnThread DEF UploadInv, LastJob, Active, Working
<1>3. Alone'
  BY <1>1, <1>2 DEF UploadInv, Alone
<1>4. thread[Mine].st \notin {"closing", "ended"} /\ Mine \notin tangled =>
        job.st # "uploaded" /\ ~Replied("done")
  BY DEF UploadInv, Done
<1>5. (thread'[Mine].st \in Unopened => ~Replied("uploadAck")' /\ ~Replied("done")'
                                        /\ thread[Mine].st \in Unopened) => LastJob'
  <2>1. \A i \in 1 .. Len(up') : Request(i)'
    BY <1>1 DEF UploadInv, LastJob, Request
  <2> QED BY <1>1, <1>2, <2>1 DEF UploadInv, LastJob
<1>6. CASE Insert(Mine)
  <2>1. /\ thread[Mine].st \in Unopened /\ thread'[Mine].st = "inserted"
        /\ UNCHANGED <<inbox, rx, dir, data>>
    BY <1>6, ThreadType DEF Insert, Unopened, Inv0, fileVars
  <2>2. ~Replied("uploadAck")' /\ ~Replied("done")'
    BY <2>1 DEF UploadInv, LastJob, Replied
  <2>3. \A w \in 0 .. Chunks : Flowing(w) => Flowing(w)'
    BY <1>1, <2>1 DEF Flowing
  <2>4. Flow'
    BY <1>1, <2>1, <2>3 DEF UploadInv, Flow
  <2>5. Done'
    BY <1>1, <1>4, <2>1, <2>2 DEF Done, Unopened
  <2> QED BY <1>3, <1>5, <2>1, <2>2, <2>4, <2>5
<1>7. CASE OpenFails(Mine) \/ WriteFails(Mine) \/ UploadCancelled(Mine) \/ UploadTimeout(Mine)
  <2>1. /\ thread[Mine].st \notin {"closing", "ended"} /\ Finish(Mine, "error")
    BY <1>7 DEF OpenFails, WriteFails, UploadCancelled, UploadTimeout, Receives
  <2>2. thread'[Mine].st = "closing"
    BY <2>1, ThreadType DEF Finish, Inv0, Threads
  <2>3. Replied("done")' => Replied("done")
    BY <2>1, RespondAdds DEF Finish, Responses, Replied
  <2>4. Flow' /\ Done'
    BY <1>1, <1>4, <2>1, <2>2, <2>3 DEF Flow, Done, Unopened
  <2> QED BY <1>3, <1>5, <2>2, <2>4 DEF Unopened
<1>8. CASE CreateFile(Mine)
  <2> DEFINE p == thread[Mine].path
             f == IF dir[p] = None THEN Mine ELSE dir[p]
  <2>1. /\ thread[Mine].st = "inserted" /\ thread'[Mine].st = "running" /\ thread'[Mine].file = f
        /\ dir' = [dir EXCEPT ![p] = f] /\ data' = [data EXCEPT ![f] = {}] /\ rx' = rx
        /\ Respond(Mine, "uploadAck")
    BY <1>8, ThreadType DEF CreateFile, Inv0, Threads
  <2>2. f \in Keys /\ dir'[job.path] = f /\ data'[f] = {} /\ f # None
    <3>1. dir \in [Paths -> Keys \cup {None}] /\ None \notin Keys /\ DOMAIN data = Keys
      BY TransfersAssumption DEF Inv0, TypeOK
    <3>2. f \in Keys
      BY <1>1, <1>2, <3>1
    <3> HIDE DEF f
    <3> QED BY <1>1, <1>2, <2>1, <3>1, <3>2
  <2> HIDE DEF f
  <2>3. Replied("done")' => Replied("done")
    BY <2>1, RespondAdds DEF Responses, Replied
  <2>4. Done'
    BY <1>1, <1>4, <2>1, <2>3 DEF Done
  <2>5. Flow'
    <3> SUFFICES ASSUME Mine \notin tangled PROVE \E w \in 0 .. Chunks : Flowing(w)'
      BY <1>1 DEF Flow
    <3>1. PICK w \in 0 .. Chunks : Flowing(w)
      BY <2>1 DEF UploadInv, Flow, Unopened
    <3>2. job.n = 0
      BY <2>1 DEF UploadInv, LastJob, Unopened
    <3>3. w = 0
      <4>1. w + Len(rx[Mine]) <= 0
        BY <3>1, <3>2 DEF Flowing
      <4>2. Len(rx[Mine]) \in Nat
        BY DEF Inv0, TypeOK
      <4> QED BY <4>1, <4>2
    <3>4. data'[f] = {Mine} \X (1 .. w)
      BY <2>2, <3>3
    <3>5. Flowing(w)'
      BY <1>1, <2>1, <2>2, <3>1, <3>4 DEF Flowing
    <3> QED BY <3>5
  <2> QED BY <1>3, <1>5, <2>1, <2>4, <2>5 DEF Unopened
<1>9. CASE WriteChunk(Mine)
  <2>1. thread[Mine].st = "running" /\ rx[Mine] # <<>> /\ rx[Mine] \in Seq(Requests)
    BY <1>9 DEF WriteChunk, Receives, Inv0, TypeOK
  <2>2. Mine \notin tangled => \E w \in 0 .. Chunks :
           /\ Flowing(w) /\ w + 1 \in 0 .. Chunks
           /\ (Head(rx[Mine]).eof <=> w + 1 = Chunks)
           /\ dir' = dir /\ dir[job.path] = thread[Mine].file /\ thread[Mine].file \in Keys
           /\ data'[thread[Mine].file] = {Mine} \X (1 .. w + 1)
    BY <1>9, WritesChunk
  <2>3. CASE Head(rx[Mine]).eof
    <3>1. Finish(Mine, "done")
      BY <1>9, <2>3 DEF WriteChunk
    <3>2. thread'[Mine].st = "closing"
      BY <3>1, ThreadType DEF Finish, Inv0, Threads
    <3>3. Done'
      <4> SUFFICES ASSUME Mine \notin tangled PROVE Stored(Mine, job.path)'
        BY <1>1, <3>2 DEF Done
      <4>1. None \notin Keys
        BY TransfersAssumption
      <4>2. /\ dir' = dir /\ dir[job.path] = thread[Mine].file /\ thread[Mine].file \in Keys
            /\ data'[thread[Mine].file] = {Mine} \X (1 .. Chunks)
        BY <2>2, <2>3
      <4> QED BY <1>1, <4>1, <4>2 DEF Stored
    <3>4. Flow'
      BY <1>1, <3>2 DEF Flow, Unopened
    <3> QED BY <1>3, <1>5, <3>2, <3>3, <3>4 DEF Unopened
  <2>4. CASE ~Head(rx[Mine]).eof
    <3>1. rx'[Mine] = Tail(rx[Mine]) /\ UNCHANGED <<inbox, thread>>
      BY <1>9, <2>4 DEF WriteChunk, Inv0, TypeOK
    <3>2. /\ Len(rx[Mine]) \in Nat \ {0} /\ Len(rx'[Mine]) = Len(rx[Mine]) - 1
          /\ \A i \in 1 .. Len(rx'[Mine]) : i + 1 \in 1 .. Len(rx[Mine]) /\ rx'[Mine][i] = rx[Mine][i + 1]
      BY <2>1, <3>1, MovedUp
    <3>3. Done'
      BY <1>1, <1>4, <2>1, <3>1 DEF Done, Replied
    <3>4. Flow'
      <4> SUFFICES ASSUME Mine \notin tangled PROVE \E w \in 0 .. Chunks : Flowing(w)'
        BY <1>1 DEF Flow
      <4>1. PICK w \in 0 .. Chunks :
               /\ Flowing(w) /\ w + 1 \in 0 .. Chunks
               /\ dir' = dir /\ dir[job.path] = thread[Mine].file /\ thread[Mine].file \in Keys
               /\ data'[thread[Mine].file] = {Mine} \X (1 .. w + 1)
        BY <2>2
      <4> DEFINE v == w + 1
      <4>2. v + Len(rx'[Mine]) = w + Len(rx[Mine]) /\ v \in 0 .. Chunks
        <5>1. w \in Int /\ Len(rx[Mine]) \in Nat /\ Len(rx'[Mine]) = Len(rx[Mine]) - 1
          BY <3>2
        <5>2. v \in 0 .. Chunks
          BY <4>1
        <5>3. \A a, b, c \in Int : b = c - 1 => (a + 1) + b = a + c
          OBVIOUS
        <5>4. Len(rx[Mine]) \in Int /\ Len(rx'[Mine]) \in Int
          BY <5>1
        <5> QED BY <5>1, <5>2, <5>3, <5>4, Zenon
      <4>3. \A i \in 1 .. Len(rx'[Mine]) : LET msg == rx'[Mine][i] IN
              msg.op = "data" /\ msg.n = v + i /\ (msg.eof <=> v + i = Chunks)
        <5> TAKE i \in 1 .. Len(rx'[Mine])
        <5>1. /\ rx'[Mine][i] = rx[Mine][i + 1] /\ i + 1 \in 1 .. Len(rx[Mine])
              /\ w + (i + 1) = v + i
          BY <3>2
        <5>2. \A h \in 1 .. Len(rx[Mine]) : LET msg == rx[Mine][h] IN
                msg.op = "data" /\ msg.n = w + h /\ (msg.eof <=> w + h = Chunks)
          BY <4>1 DEF Flowing
        <5> HIDE DEF v
        <5> QED BY <5>1, <5>2
      <4>4. data'[thread'[Mine].file] = {Mine} \X (1 .. v) /\ dir'[job.path] = thread'[Mine].file
            /\ thread'[Mine].file # None
        BY <1>1, <3>1, <4>1, TransfersAssumption
      <4> HIDE DEF v
      <4>5. Flowing(v)'
        BY <1>1, <4>1, <4>2, <4>3, <4>4 DEF Flowing
      <4> QED BY <4>2, <4>5
    <3> QED BY <1>1, <1>3, <1>5, <2>1, <3>1, <3>3, <3>4 DEF Unopened
  <2> QED BY <2>3, <2>4
<1>10. CASE GuardDrop(Mine)
  <2>1. /\ thread[Mine].st = "closing" /\ thread'[Mine].st = "ended"
        /\ UNCHANGED <<inbox, rx, dir, data>>
    BY <1>10, ThreadType DEF GuardDrop, Inv0, NoThread, fileVars
  <2>2. Flow' /\ Done'
    BY <1>1, <2>1 DEF UploadInv, Flow, Done, Unopened, Replied, Stored
  <2> QED BY <1>3, <1>5, <2>1, <2>2 DEF Unopened
<1>11. ~OpenDownload(Mine) /\ ~DownloadChunk(Mine) /\ ~DownloadAck(Mine) /\ ~DownloadEnds(Mine)
  BY <1>2 DEF OpenDownload, DownloadChunk, DownloadAck, DownloadEnds
<1> QED BY <1>6, <1>7, <1>8, <1>9, <1>10, <1>11 DEF ThreadStep

\* A response more, of the kind an upload's thread gives.
LEMMA AnswersAdd ==
  ASSUME Inv0, Answers, Uploading, UNCHANGED job, NEW op \in Responses,
         inbox' = inbox \/ inbox' = Append(inbox, op),
         \/ op \in {"done", "error"}
         \/ op = "uploadAck" /\ ~Replied("uploadAck") /\ job.st = "waitUploadAck"
  PROVE  Answers'
<1>1. inbox \in Seq(Responses)
  BY DEF Inv0, TypeOK, Responses
<1>2. CASE inbox' = inbox
  BY <1>2 DEF Answers, Uploading, Replied
<1>3. CASE inbox' = Append(inbox, op)
  <2>1. /\ Len(inbox) \in Nat /\ Len(inbox') = Len(inbox) + 1
        /\ \A i \in 1 .. Len(inbox') : inbox'[i] = IF i = Len(inbox) + 1 THEN op ELSE inbox[i]
    BY <1>1, <1>3
  <2> QED BY <2>1 DEF Answers, Uploading, Replied
<1> QED BY <1>2, <1>3

LEMMA AnswersStep ==
  ASSUME Inv0, UploadInv, [Next]_vars, Uploading'
  PROVE  Answers'
<1> USE DEF clientVars, connVars
<1>0. inbox \in Seq(Responses)
  BY DEF Inv0, TypeOK, Responses
<1>1. CASE inbox' = <<>>
  BY <1>1 DEF Answers, Replied
<1>2. CASE TakeResponse
  <2>1. PICK to \in After(job.st, Head(inbox)) : job' = [job EXCEPT !.st = to]
    BY <1>2 DEF TakeResponse
  <2>2. inbox # <<>> /\ inbox' \in {<<>>, Tail(inbox)} /\ job.st \in Waiting /\ job'.st = to
    BY <1>2, <2>1 DEF TakeResponse, Inv0, TypeOK
  <2>3. CASE inbox' = Tail(inbox)
    <3>1. /\ Len(inbox) \in Nat /\ Len(inbox') = Len(inbox) - 1 /\ Head(inbox) = inbox[1]
          /\ \A i \in 1 .. Len(inbox') : i + 1 \in 1 .. Len(inbox) /\ inbox'[i] = inbox[i + 1]
          /\ 1 \in 1 .. Len(inbox)
      BY <1>0, <2>2, <2>3
    <3>2. /\ job.st = "waitUploadAck" /\ to = "sending" => Head(inbox) = "uploadAck"
          /\ job.st = "waitUploadAck" \/ (job.st = "waitDone" /\ to = "uploaded")
          /\ job.st = "waitUploadAck" => to \in {"waitUploadAck", "sending"}
      <4>1. to \in {"waitUploadAck", "sending", "waitDone", "uploaded"}
        BY <2>2 DEF Uploading
      <4>2. CASE job.st = "waitUploadAck"
        BY <2>1, <4>1, <4>2 DEF After
      <4>3. CASE job.st = "waitDone"
        BY <2>1, <4>1, <4>3 DEF After
      <4>4. CASE job.st \in {"waitMeta", "receiving"}
        BY <2>1, <4>1, <4>4 DEF After
      <4> QED BY <2>2, <4>2, <4>3, <4>4 DEF Waiting
    <3>3. Answers /\ Uploading
      BY <3>2 DEF UploadInv, Uploading
    <3>4. \A i \in 1 .. Len(inbox') : inbox'[i] \in {"uploadAck", "done", "error"}
      BY <3>1, <3>3 DEF Answers
    <3>5. \A i, j \in 1 .. Len(inbox') : inbox'[i] = "uploadAck" /\ inbox'[j] = "uploadAck" => i = j
      <4> SUFFICES ASSUME NEW i \in 1 .. Len(inbox'), NEW j \in 1 .. Len(inbox'),
                          inbox'[i] = "uploadAck", inbox'[j] = "uploadAck"
                   PROVE  i = j
        OBVIOUS
      <4>1. i + 1 = j + 1
        BY <3>1, <3>3 DEF Answers
      <4> QED BY <4>1
    <3>6. ASSUME NEW i \in 1 .. Len(inbox'), inbox'[i] = "uploadAck" PROVE job'.st = "waitUploadAck"
      <4>1. Replied("uploadAck") /\ i + 1 \in 1 .. Len(inbox) /\ inbox[i + 1] = "uploadAck" /\ i + 1 # 1
        BY <3>1, <3>6 DEF Replied
      <4>2. job.st = "waitUploadAck"
        BY <3>3, <4>1 DEF Answers
      <4>3. Head(inbox) # "uploadAck"
        BY <3>1, <3>3, <4>1 DEF Answers
      <4> QED BY <2>2, <3>2, <4>2, <4>3
    <3> QED BY <3>4, <3>5, <3>6 DEF Answers, Replied
  <2> QED BY <1>1, <2>2, <2>3
<1>3. CASE SendChunk
  <2>1. inbox' = inbox /\ job.st = "sending"
    BY <1>3 DEF SendChunk
  <2>2. Answers /\ ~Replied("uploadAck")
    BY <2>1 DEF UploadInv, Answers, Uploading
  <2> QED BY <2>1, <2>2 DEF Answers, Uploading, Replied
<1>4. CASE ClientStep
  <2>1. ~ListRemote /\ ~StartDownload
    <3>1. ~ListRemote
      BY DEF ListRemote, Uploading, Inv0, TypeOK
    <3>2. ~StartDownload
      BY DEF StartDownload, Uploading, Inv0, TypeOK
    <3> QED BY <3>1, <3>2
  <2>2. (\E p \in Paths : StartUpload(p)) \/ GiveUp => inbox' = <<>>
    BY DEF StartUpload, GiveUp
  <2> QED BY <1>1, <1>2, <1>3, <1>4, <2>1, <2>2 DEF ClientStep
<1>5. CASE ReadStart
  <2>1. UNCHANGED job /\ (inbox' = inbox \/ inbox' = Append(inbox, "error"))
    BY <1>5 DEF ReadStart, Respond
  <2> QED BY <2>1, AnswersAdd DEF UploadInv, Uploading, Responses
<1>6. ASSUME NEW k \in Keys, ThreadStep(k) PROVE Answers'
  <2>1. UNCHANGED job /\ Uploading
    BY <1>6, ThreadFrame DEF Uploading
  <2>2. CASE inbox' = inbox
    BY <2>1, <2>2 DEF UploadInv, Answers, Uploading, Replied
  <2>3. CASE k = Mine
    <3>1. thread[k].kind = "upload"
      BY <1>6, <2>1, <2>3, OwnThread DEF UploadInv, LastJob
    <3>2. \/ inbox' = inbox
          \/ Respond(k, "done") \/ Respond(k, "error")
          \/ thread[k].st = "inserted" /\ Respond(k, "uploadAck")
      BY <1>6, <3>1 DEF ThreadStep, Insert, OpenFails, CreateFile, WriteChunk, WriteFails, UploadCancelled,
         UploadTimeout, OpenDownload, DownloadChunk, DownloadAck, DownloadEnds, GuardDrop, Finish
    <3>3. thread[k].st = "inserted" => job.st = "waitUploadAck" /\ ~Replied("uploadAck")
      BY <2>1, <2>3 DEF UploadInv, LastJob, Unopened
    <3>4. \A op : Respond(k, op) => inbox' = inbox \/ inbox' = Append(inbox, op)
      BY DEF Respond
    <3>5. Answers /\ {"done", "error", "uploadAck"} \subseteq Responses
      BY DEF UploadInv, Responses
    <3>6. CASE Respond(k, "done") \/ Respond(k, "error")
      BY <2>1, <3>4, <3>5, <3>6, AnswersAdd
    <3>7. CASE thread[k].st = "inserted" /\ Respond(k, "uploadAck")
      BY <2>1, <3>3, <3>4, <3>5, <3>7, AnswersAdd
    <3> QED BY <2>2, <3>2, <3>6, <3>7
  <2> QED BY <1>6, <2>2, <2>3, ThreadFrame
<1>7. CASE Connect
  BY <1>1, <1>7 DEF Connect
<1>8. CASE ReadControl \/ Disconnect \/ UNCHANGED vars
  <2>1. UNCHANGED <<job, inbox>>
    BY <1>8 DEF ReadControl, Disconnect, vars
  <2> QED BY <2>1 DEF UploadInv, Answers, Uploading, Replied
<1> QED BY <1>4, <1>5, <1>6, <1>7, <1>8 DEF Next, ReadLoop

LEMMA UploadStep ==
  ASSUME Inv0, Inv0', Fresh, Table, UploadInv, [Next]_vars
  PROVE  UploadInv'
<1>1. Unheard' /\ Answers'
  BY UnheardStep, AnswersStep DEF Table, UploadInv, Answers
<1>2. CASE ClientStep
  BY <1>1, <1>2, UploadClient DEF UploadInv
<1>3. CASE ReadLoop
  <2>1. Older' /\ Ascending' /\ Files'
    BY <1>3, OrderElsewhere, FilesRead DEF UploadInv
  <2>2. CASE Uploading
    BY <1>1, <1>3, <2>1, <2>2, UploadStart, UploadControl DEF UploadInv, ReadLoop, Table
  <2>3. CASE ~Uploading
    <3>1. ~Uploading'
      BY <1>3, <2>3 DEF ReadLoop, ReadStart, ReadControl, clientVars, Uploading
    <3> QED BY <1>1, <2>1, <3>1 DEF UploadInv, LastJob, Alone, Flow, Done
  <2> QED BY <2>2, <2>3
<1>4. ASSUME NEW k \in Keys, ThreadStep(k) PROVE UploadInv'
  <2>1. Older' /\ Ascending' /\ Files'
    BY <1>4, OrderElsewhere, FilesThread DEF UploadInv
  <2>2. CASE Uploading
    BY <1>1, <1>4, <2>1, <2>2, UploadOwn, UploadOthers DEF UploadInv
  <2>3. CASE ~Uploading
    <3>1. ~Uploading'
      BY <1>4, <2>3, ThreadFrame DEF Uploading
    <3> QED BY <1>1, <2>1, <3>1 DEF UploadInv, LastJob, Alone, Flow, Done
  <2> QED BY <2>2, <2>3
<1>5. CASE Connect
  <2>1. Older' /\ Ascending'
    BY <1>5, OrderElsewhere DEF UploadInv
  <2>2. ~Uploading' /\ UNCHANGED <<dir, thread>>
    BY <1>5 DEF Connect, Uploading, fileVars
  <2> QED BY <1>1, <2>1, <2>2 DEF UploadInv, Files, LastJob, Alone, Flow, Done
<1>6. CASE Disconnect \/ UNCHANGED vars
  <2>1. UNCHANGED <<conn, nextId, job, inbox, up, table, thread, rx, dir, data, tangled>>
    BY <1>6 DEF Disconnect, vars, clientVars, fileVars
  <2>2. \A w \in 0 .. Chunks : Flowing(w) => Flowing(w)'
    BY <2>1 DEF Flowing, Mine
  <2>3. Flow'
    BY <2>1, <2>2 DEF UploadInv, Flow, Uploading, Mine
  <2>4. Older' /\ Ascending' /\ LastJob'
    BY <2>1 DEF UploadInv, Older, JobOver, Ascending, LastJob, Request, Uploading, Mine, Replied
  <2>5. Files' /\ Alone' /\ Done'
    BY <2>1 DEF UploadInv, Files, Alone, Done, Stored, Uploading, Mine, Replied
  <2> QED BY <1>1, <2>3, <2>4, <2>5 DEF UploadInv
<1> QED BY <1>2, <1>3, <1>4, <1>5, <1>6 DEF Next

LEMMA UploadInitially == Init => UploadInv
<1> SUFFICES ASSUME Init PROVE UploadInv
  OBVIOUS
<1>1. /\ up = <<>> /\ ~Uploading /\ JobOver /\ \A k \in Keys : rx[k] = <<>>
      /\ \A k \in Keys : thread[k].file = None
      /\ \A p \in Paths : dir[p] = None
  BY DEF Init, NoThread, Uploading, JobOver, Ended
<1>2. Files
  BY <1>1 DEF Files
<1> QED BY <1>1, <1>2 DEF UploadInv, Older, Unheard, Ascending, LastJob, Answers, Alone, Flow, Done

\* An upload that the client reports as done on the server's answer is at its path, whole and
\* with nothing else in it, however it was interleaved with former connections' transfers, unless it ran beside
\* one with its id or an upload to its path.
THEOREM ReportedIsStored == Spec => []DoneStored
<1>1. Inv0 /\ Fresh /\ Table /\ UploadInv => DoneStored
  BY DEF UploadInv, Done, DoneStored, Uploading, Mine
<1>2. Inv0 /\ Fresh /\ Table /\ UploadInv /\ [Next]_vars
        => Inv0' /\ Fresh' /\ Table' /\ UploadInv'
  BY TableKept, UploadStep
<1> QED BY TableInitially, UploadInitially, <1>1, <1>2, PTL DEF Spec
=============================================================================
