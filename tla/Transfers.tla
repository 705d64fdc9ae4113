------------------------------ MODULE Transfers -----------------------------
(***************************************************************************)
(* File transfers across connections.  The server keeps one table of       *)
(* running transfers, keyed by the client's request id alone, for the life *)
(* of the worker process (rcontrol_server/src/files.rs); every Upload and  *)
(* Download runs in a thread of its own that registers itself there and    *)
(* outlives the connection.  The client numbers its requests from 1 on     *)
(* every connection and runs one file operation at a time                  *)
(* (rcontrol_client/src/conn.rs, files_ui.rs).                             *)
(*                                                                         *)
(* A transfer is named by its key <<connection, id>>.  How a download's    *)
(* thread and the client pace each other is the subject of module          *)
(* Download; here such a thread may send, wait or give up at any time.     *)
(* Timers may fire at any time.                                            *)
(***************************************************************************)
EXTENDS Naturals, Sequences, FiniteSets

CONSTANTS
  MaxConn,    (* connections made, one after the other            *)
  MaxId,      (* request ids used on a connection                 *)
  MaxBegun,   (* operations start while fewer threads were begun  *)
  Chunks,     (* chunks of an uploaded file                       *)
  DownChunks, (* chunks of a downloaded file                      *)
  Paths,      (* remote paths that are uploaded to                *)
  AllowFile,  (* cfg.allow_file                                   *)
  None        (* no thread, no file                               *)

Keys == (1 .. MaxConn) \X (1 .. MaxId)

ASSUME TransfersAssumption ==
  /\ MaxConn \in Nat \ {0} /\ MaxId \in Nat \ {0} /\ Chunks \in Nat \ {0} /\ DownChunks \in Nat /\ MaxBegun \in Nat
  /\ AllowFile \in BOOLEAN
  /\ None \notin Keys

VARIABLES
  conn,     (* the current connection                                        *)
  alive,    (* it stands                                                     *)
  nextId,   (* Client.next_file_id                                           *)
  job,      (* the operation the client's file worker runs                   *)
  inbox,    (* responses to that operation that the worker has not taken     *)
  up,       (* requests on their way to the server's read loop               *)
  table,    (* State.transfers: the thread registered under each id          *)
  thread,   (* the transfer threads                                          *)
  rx,       (* what was routed to a thread and not yet received by it        *)
  dir,      (* the file at each remote path, named by the key that made it   *)
  data,     (* chunks written to each such file                              *)
  tangled   (* history: transfers that ran beside one with the same id, or   *)
            (* beside an upload to the same path                             *)

vars == <<conn, alive, nextId, job, inbox, up, table, thread, rx, dir, data, tangled>>
clientVars == <<nextId, job>>
connVars == <<conn, alive>>
fileVars == <<dir, data>>

\* States of the worker's operation.  An upload ends "uploaded" if the client reports it
\* finished on an answer of the server, "unconfirmed" if it reports it finished without one.
Waiting == {"waitMeta", "receiving", "waitUploadAck", "waitDone"}
Ended   == {"uploaded", "unconfirmed", "over"}
Working == {"inserted", "running", "closing"}
Active  == {"spawned"} \cup Working

Requests ==
  [op : {"upload"}, id : 1 .. MaxId, path : Paths] \cup
  [op : {"download", "ack"}, id : 1 .. MaxId] \cup
  [op : {"data"}, id : 1 .. MaxId, n : 1 .. Chunks, eof : BOOLEAN]

TypeOK ==
  /\ conn \in 1 .. MaxConn /\ alive \in BOOLEAN
  /\ nextId \in 1 .. MaxId + 1
  /\ job \in [st : Waiting \cup {"sending"} \cup Ended,
              id : 0 .. MaxId, path : Paths \cup {None}, n : 0 .. Chunks]
  /\ inbox \in Seq({"uploadAck", "done", "meta", "chunk", "eof", "error"})
  /\ up \in Seq(Requests)
  /\ table \in [1 .. MaxId -> Keys \cup {None}]
  /\ thread \in [Keys -> [st : {"none", "ended"} \cup Active, kind : {"upload", "download"},
                          path : Paths \cup {None}, file : Keys \cup {None}, n : 0 .. DownChunks]]
  /\ rx \in [Keys -> Seq(Requests)]
  /\ dir \in [Paths -> Keys \cup {None}]
  /\ data \in [Keys -> SUBSET (Keys \X (1 .. Chunks))]
  /\ tangled \subseteq Keys

NoThread == [st |-> "none", kind |-> "upload", path |-> None, file |-> None, n |-> 0]

Init ==
  /\ conn = 1 /\ alive = TRUE /\ nextId = 1
  /\ job = [st |-> "over", id |-> 0, path |-> None, n |-> 0]
  /\ inbox = <<>> /\ up = <<>>
  /\ table = [i \in 1 .. MaxId |-> None]
  /\ thread = [k \in Keys |-> NoThread]
  /\ rx = [k \in Keys |-> <<>>]
  /\ dir = [p \in Paths |-> None]
  /\ data = [k \in Keys |-> {}]
  /\ tangled = {}

-----------------------------------------------------------------------------
(* The client's file worker                                                *)

JobOver == job.st \in Ended

CanStart ==
  /\ alive /\ JobOver /\ nextId <= MaxId
  /\ Cardinality({k \in Keys : thread[k].st # "none"}) < MaxBegun

\* A listing or a new folder: it uses up an id and leaves the table alone.
ListRemote ==
  /\ CanStart
  /\ nextId' = nextId + 1
  /\ job' = [job EXCEPT !.st = "over"]
  /\ UNCHANGED <<connVars, inbox, up, table, thread, rx, fileVars, tangled>>

StartUpload(p) ==
  /\ CanStart
  /\ nextId' = nextId + 1
  /\ job' = [st |-> "waitUploadAck", id |-> nextId, path |-> p, n |-> 0]
  /\ inbox' = <<>>
  /\ up' = Append(up, [op |-> "upload", id |-> nextId, path |-> p])
  /\ UNCHANGED <<connVars, table, thread, rx, fileVars, tangled>>

StartDownload ==
  /\ CanStart
  /\ nextId' = nextId + 1
  /\ job' = [st |-> "waitMeta", id |-> nextId, path |-> None, n |-> 0]
  /\ inbox' = <<>>
  /\ up' = Append(up, [op |-> "download", id |-> nextId])
  /\ UNCHANGED <<connVars, table, thread, rx, fileVars, tangled>>

\* What may become of the operation when wait_file_resp returns "op" in the state "st":
\* the loops skip what they do not wait for, and the last wait of an upload takes
\* whatever is no error for the confirmation.  Making or writing the local file of a
\* download may fail: the worker returns without a word to the server.
After(st, op) ==
  IF op = "error" THEN {"over"}
  ELSE CASE st = "waitUploadAck" -> {IF op = "uploadAck" THEN "sending" ELSE st}
         [] st = "waitDone"      -> {"uploaded"}
         [] st = "waitMeta"      -> IF op = "meta" THEN {"receiving", "over"} ELSE {st}
         [] st = "receiving"     -> IF op = "eof" THEN {"over"}
                                    ELSE IF op = "chunk" THEN {"receiving", "over"} ELSE {st}

TakeResponse ==
  /\ job.st \in Waiting /\ inbox # <<>>
  /\ \E to \in After(job.st, Head(inbox)) :
       /\ job' = [job EXCEPT !.st = to]
       /\ inbox' = IF to \in Ended THEN <<>> ELSE Tail(inbox)
       \* a chunk that was written is acknowledged
       /\ up' = IF Head(inbox) = "chunk" /\ job.st = "receiving" /\ to = "receiving" /\ alive
                THEN Append(up, [op |-> "ack", id |-> job.id]) ELSE up
  /\ UNCHANGED <<connVars, nextId, table, thread, rx, fileVars, tangled>>

\* The next chunk of an upload; the last one carries eof.
SendChunk ==
  /\ job.st = "sending" /\ alive
  /\ LET n == job.n + 1 IN
     /\ up' = Append(up, [op |-> "data", id |-> job.id, n |-> n, eof |-> n = Chunks])
     /\ job' = [job EXCEPT !.n = n, !.st = IF n = Chunks THEN "waitDone" ELSE @]
  /\ UNCHANGED <<connVars, nextId, inbox, table, thread, rx, fileVars, tangled>>

\* A wait that ends by its timeout or by the death of the connection, a local
\* read that fails, a send that fails: the worker returns, no Cancel is sent.
\* An upload whose chunks are all sent is reported finished all the same.
GiveUp ==
  /\ job.st = "sending" \/ (job.st \in Waiting /\ inbox = <<>>)
  /\ job' = [job EXCEPT !.st = IF @ = "waitDone" THEN "unconfirmed" ELSE "over"]
  /\ inbox' = <<>>
  /\ UNCHANGED <<connVars, nextId, up, table, thread, rx, fileVars, tangled>>

-----------------------------------------------------------------------------
(* The server's read loop                                                  *)

\* The respond callback writes to the connection of its own session.  A response
\* no wait_file_resp asks for stays in the client's queue for ever: left out.
Respond(k, op) ==
  inbox' = IF alive /\ k = <<conn, job.id>> /\ ~JobOver THEN Append(inbox, op) ELSE inbox

\* Threads that a new thread k of that kind and path runs beside and may disturb.
Beside(k, kind, path) ==
  {j \in Keys \ {k} : /\ thread[j].st \in Active
                      /\ \/ j[2] = k[2]
                         \/ kind = "upload" /\ thread[j].kind = "upload" /\ thread[j].path = path}

Spawn(k, kind, path) ==
  LET beside == Beside(k, kind, path) IN
  /\ thread' = [thread EXCEPT ![k] = [NoThread EXCEPT !.st = "spawned", !.kind = kind, !.path = path]]
  /\ tangled' = tangled \cup beside \cup (IF beside = {} THEN {} ELSE {k})

\* handle_request, or the refusal if file transfer is not allowed.
ReadStart ==
  /\ up # <<>> /\ Head(up).op \in {"upload", "download"}
  /\ LET req == Head(up)  k == <<conn, req.id>> IN
     IF AllowFile
     THEN /\ Spawn(k, req.op, IF req.op = "upload" THEN req.path ELSE None)
          /\ UNCHANGED inbox
     ELSE Respond(k, "error") /\ UNCHANGED <<thread, tangled>>
  /\ up' = Tail(up)
  /\ UNCHANGED <<connVars, clientVars, table, rx, fileVars>>

\* route_ctl: to the thread the table has under that id; dropped if there is none or
\* if it has returned already.
ReadControl ==
  /\ up # <<>> /\ Head(up).op \in {"data", "ack"}
  /\ LET k == table[Head(up).id] IN
     IF k = None \/ thread[k].st = "closing" THEN UNCHANGED rx
     ELSE rx' = [rx EXCEPT ![k] = Append(@, Head(up))]
  /\ up' = Tail(up)
  /\ UNCHANGED <<connVars, clientVars, inbox, table, thread, fileVars, tangled>>

-----------------------------------------------------------------------------
(* A transfer thread                                                       *)

\* map.insert drops the sender registered before, whoever owns it.
Insert(k) ==
  /\ thread[k].st = "spawned"
  /\ thread' = [thread EXCEPT ![k].st = "inserted"]
  /\ table' = [table EXCEPT ![k[2]] = k]
  /\ UNCHANGED <<connVars, clientVars, inbox, up, rx, fileVars, tangled>>

\* The thread answers and returns, its receiver goes; its guard is still to be dropped.
Finish(k, op) ==
  /\ Respond(k, op)
  /\ rx' = [rx EXCEPT ![k] = <<>>]
  /\ thread' = [thread EXCEPT ![k].st = "closing"]

OpenFails(k) ==
  /\ thread[k].st = "inserted"
  /\ Finish(k, "error")
  /\ UNCHANGED <<connVars, clientVars, up, table, fileVars, tangled>>

\* File::create makes the file or truncates the one that is there.
CreateFile(k) ==
  LET p == thread[k].path  f == IF dir[p] = None THEN k ELSE dir[p] IN
  /\ thread[k].st = "inserted" /\ thread[k].kind = "upload"
  /\ dir' = [dir EXCEPT ![p] = f]
  /\ data' = [data EXCEPT ![f] = {}]
  /\ thread' = [thread EXCEPT ![k].st = "running", ![k].file = f]
  /\ Respond(k, "uploadAck")
  /\ UNCHANGED <<connVars, clientVars, up, table, rx, tangled>>

\* The receiver is disconnected once its sender has left the table.
CutOff(k) == table[k[2]] # k

Receives(k, op) == thread[k].st = "running" /\ rx[k] # <<>> /\ Head(rx[k]).op = op

\* The chunk goes to the file the thread has open, even if it was unlinked.
WriteChunk(k) ==
  /\ Receives(k, "data") /\ thread[k].kind = "upload"
  /\ LET msg == Head(rx[k]) IN
     /\ data' = [data EXCEPT ![thread[k].file] = @ \cup {<<k, msg.n>>}]
     /\ IF msg.eof THEN Finish(k, "done")
        ELSE rx' = [rx EXCEPT ![k] = Tail(@)] /\ UNCHANGED <<inbox, thread>>
  /\ UNCHANGED <<connVars, clientVars, up, table, dir, tangled>>

MutantWriteErrorIgnored(k) ==
  /\ Receives(k, "data") /\ thread[k].kind = "upload"
  /\ IF Head(rx[k]).eof THEN Finish(k, "done")
     ELSE rx' = [rx EXCEPT ![k] = Tail(@)] /\ UNCHANGED <<inbox, thread>>
  /\ UNCHANGED <<connVars, clientVars, up, table, fileVars, tangled>>

WriteFails(k) ==
  /\ Receives(k, "data") /\ thread[k].kind = "upload"
  /\ Finish(k, "error")
  /\ UNCHANGED <<connVars, clientVars, up, table, fileVars, tangled>>

\* Disconnected, or an acknowledgement meant for a download with the same id:
\* whatever is at the path now is removed.
UploadCancelled(k) ==
  /\ thread[k].st = "running" /\ thread[k].kind = "upload"
  /\ (rx[k] = <<>> /\ CutOff(k)) \/ Receives(k, "ack")
  /\ dir' = [dir EXCEPT ![thread[k].path] = None]
  /\ Finish(k, "error")
  /\ UNCHANGED <<connVars, clientVars, up, table, data, tangled>>

MutantUploadNoTimeout(k) ==
  /\ thread[k].st = "running" /\ thread[k].kind = "upload" /\ rx[k] = <<>> /\ CutOff(k)
  /\ Finish(k, "error")
  /\ UNCHANGED <<connVars, clientVars, up, table, fileVars, tangled>>

\* 120 s without a chunk: the partial file stays.
UploadTimeout(k) ==
  /\ thread[k].st = "running" /\ thread[k].kind = "upload" /\ rx[k] = <<>> /\ ~CutOff(k)
  /\ Finish(k, "error")
  /\ UNCHANGED <<connVars, clientVars, up, table, fileVars, tangled>>

OpenDownload(k) ==
  /\ thread[k].st = "inserted" /\ thread[k].kind = "download"
  /\ thread' = [thread EXCEPT ![k].st = "running"]
  /\ Respond(k, "meta")
  /\ UNCHANGED <<connVars, clientVars, up, table, rx, fileVars, tangled>>

DownloadChunk(k) ==
  /\ thread[k].st = "running" /\ thread[k].kind = "download" /\ thread[k].n < DownChunks
  /\ thread' = [thread EXCEPT ![k].n = @ + 1]
  /\ Respond(k, "chunk")
  /\ UNCHANGED <<connVars, clientVars, up, table, rx, fileVars, tangled>>

DownloadAck(k) ==
  /\ Receives(k, "ack") /\ thread[k].kind = "download"
  /\ rx' = [rx EXCEPT ![k] = Tail(@)]
  /\ UNCHANGED <<connVars, clientVars, inbox, up, table, thread, fileVars, tangled>>

\* The end of the file, a read that fails, or a wait that ends by the timeout or
\* because the sender was dropped (an error before the end of the file).
DownloadEnds(k) ==
  /\ thread[k].st = "running" /\ thread[k].kind = "download"
  /\ \/ thread[k].n = DownChunks /\ Finish(k, "eof")
     \/ thread[k].n < DownChunks /\ Finish(k, "error")
  /\ UNCHANGED <<connVars, clientVars, up, table, fileVars, tangled>>

MutantDropNoRemove(k) ==
  /\ thread[k].st = "closing"
  /\ thread' = [thread EXCEPT ![k] = [NoThread EXCEPT !.st = "ended"]]
  /\ UNCHANGED <<connVars, clientVars, inbox, up, table, rx, fileVars, tangled>>

MutantDropAnyEntry(k) ==
  /\ thread[k].st = "closing"
  /\ thread' = [thread EXCEPT ![k] = [NoThread EXCEPT !.st = "ended"]]
  /\ table' = [i \in 1 .. MaxId |-> None]
  /\ UNCHANGED <<connVars, clientVars, inbox, up, rx, fileVars, tangled>>

\* TransferGuard: the entry under the id is removed, whoever registered it.
GuardDrop(k) ==
  /\ thread[k].st = "closing"
  /\ thread' = [thread EXCEPT ![k] = [NoThread EXCEPT !.st = "ended"]]
  /\ table' = [table EXCEPT ![k[2]] = None]
  /\ UNCHANGED <<connVars, clientVars, inbox, up, rx, fileVars, tangled>>

-----------------------------------------------------------------------------
(* Connections                                                             *)

\* The connection dies; the server may still read requests that reached it.
Disconnect ==
  /\ alive /\ alive' = FALSE
  /\ UNCHANGED <<conn, clientVars, inbox, up, table, thread, rx, fileVars, tangled>>

\* A new session: a new Client object counts its ids from 1.  The table and the
\* threads belong to the process and stay.
Connect ==
  /\ ~alive /\ JobOver /\ conn < MaxConn
  /\ conn' = conn + 1 /\ alive' = TRUE /\ nextId' = 1
  /\ job' = [st |-> "over", id |-> 0, path |-> None, n |-> 0]
  /\ inbox' = <<>> /\ up' = <<>>
  /\ UNCHANGED <<table, thread, rx, fileVars, tangled>>

ClientStep ==
  \/ ListRemote \/ (\E p \in Paths : StartUpload(p)) \/ StartDownload
  \/ TakeResponse \/ SendChunk \/ GiveUp

ReadLoop == ReadStart \/ ReadControl

ThreadStep(k) ==
  \/ Insert(k) \/ OpenFails(k)
  \/ CreateFile(k) \/ WriteChunk(k) \/ WriteFails(k) \/ UploadCancelled(k) \/ UploadTimeout(k)
  \/ OpenDownload(k) \/ DownloadChunk(k) \/ DownloadAck(k) \/ DownloadEnds(k)
  \/ GuardDrop(k)

Next ==
  \/ ClientStep \/ ReadLoop \/ Disconnect \/ Connect
  \/ \E k \in Keys : ThreadStep(k)

Spec == Init /\ [][Next]_vars

\* Threads are scheduled and recv_timeout returns.
FairSpec == Spec /\ \A k \in Keys : WF_vars(ThreadStep(k))

-----------------------------------------------------------------------------
(* Properties                                                              *)

Registered(k) == thread[k].st \in Working

\* Every entry of the table is the sender of a thread that registered it under its
\* own id and has not dropped its guard: whichever of its many returns a transfer
\* took, it leaves no sender behind.
EntriesLive ==
  \A i \in 1 .. MaxId : table[i] # None => table[i][2] = i /\ Registered(table[i])

\* Only the reuse of an id while its earlier owner still runs can cut a transfer
\* off: every other registered thread is the one its controls are routed to.
CutOffOnlyByReuse ==
  \A k \in Keys : Registered(k) /\ k \notin tangled => ~CutOff(k)

Stored(k, path) ==
  LET f == dir[path] IN f # None /\ data[f] = {k} \X (1 .. Chunks)

\* When the client reports an upload complete because the server answered, the file
\* at its path holds exactly its chunks, unless the transfer ran beside an unfinished
\* one with the same id or beside an unfinished upload to the same path.  The client
\* takes any answer but an error for the confirmation.  This is not said, and is not so,
\* of an upload that ends "unconfirmed": when no answer came within 60 s, or the connection
\* died, the client still reports it complete, adding that no confirmation was received
\* (files_ui.rs:1480), whatever the server's thread has stored or will.
DoneStored ==
  LET k == <<conn, job.id>> IN
  job.st = "uploaded" /\ k \notin tangled => Stored(k, job.path)

\* The threads a former connection left behind all end, whatever became of its
\* client and of their entries.
LeftoversEnd ==
  \A c \in 1 .. MaxConn - 1 :
    (conn > c) ~> (\A id \in 1 .. MaxId : thread[<<c, id>>].st \notin Active)
=============================================================================
