------------------------------ MODULE Download ------------------------------
(***************************************************************************)
(* The data phase of one download: the server's thread reads the file and  *)
(* sends chunks under a flow control window (download in                   *)
(* rcontrol_server/src/files.rs), the client's worker writes them and      *)
(* acknowledges (do_download in rcontrol_client/src/files_ui.rs).          *)
(*                                                                         *)
(* The client acknowledges its running total, the server subtracts each    *)
(* acknowledgement from its count of unacknowledged bytes.  The source     *)
(* file does not change while it is read.                                  *)
(***************************************************************************)
EXTENDS Integers, Sequences

CONSTANTS
  Size,    (* bytes of the source file                        *)
  Chunk,   (* FILE_CHUNK, the most one read returns           *)
  Window   (* WINDOW                                          *)

ASSUME DownloadAssumption ==
  Size \in Nat /\ Chunk \in Nat \ {0} /\ Window \in Nat \ {0}

VARIABLES
  phase,        (* the server thread: sending, draining or ended             *)
  offset,       (* bytes read and sent                                       *)
  outstanding,  (* the server's count of unacknowledged bytes                *)
  acked,        (* the largest acknowledgement it has taken (history)        *)
  data,         (* responses on their way to the client's worker             *)
  acks,         (* acknowledgements on their way to the server's thread      *)
  up,           (* the connection stands                                     *)
  received,     (* bytes the client has written                              *)
  intact,       (* every chunk was written where it was read                 *)
  client        (* the client's worker: receiving, done or failed            *)

vars == <<phase, offset, outstanding, acked, data, acks, up, received, intact, client>>
serverVars == <<phase, offset, outstanding, acked>>
clientVars == <<received, intact, client>>

Responses ==
  [op : {"chunk"}, off : 0 .. Size, len : 1 .. Chunk] \cup [op : {"eof", "error"}]

TypeOK ==
  /\ phase \in {"sending", "draining", "ended"}
  /\ offset \in 0 .. Size
  /\ outstanding \in Nat
  /\ acked \in 0 .. Size
  /\ data \in Seq(Responses)
  /\ acks \in Seq(0 .. Size)
  /\ up \in BOOLEAN
  /\ received \in 0 .. Size
  /\ intact \in BOOLEAN
  /\ client \in {"receiving", "done", "failed"}

Init ==
  /\ phase = "sending" /\ offset = 0 /\ outstanding = 0 /\ acked = 0
  /\ data = <<>> /\ acks = <<>> /\ up = TRUE
  /\ received = 0 /\ intact = TRUE /\ client = "receiving"

MutantRespondOvertakes(msg) == data' = IF up THEN <<msg>> \o data ELSE data

\* respond: the message is lost when the connection is gone.
Respond(msg) == data' = IF up THEN Append(data, msg) ELSE data

-----------------------------------------------------------------------------
(* The server's thread                                                     *)

\* The condition to read on; otherwise the thread waits for an acknowledgement.
WindowOpen == outstanding < Window

\* f.read returns some bytes; they are sent and counted.
ReadChunk ==
  /\ phase = "sending" /\ WindowOpen
  /\ \E n \in 1 .. Chunk :
       /\ offset + n <= Size
       /\ Respond([op |-> "chunk", off |-> offset, len |-> n])
       /\ offset' = offset + n
       /\ outstanding' = outstanding + n
  /\ UNCHANGED <<phase, acked, acks, up, clientVars>>

\* f.read returns 0.
ReadEnd ==
  /\ phase = "sending" /\ WindowOpen
  /\ offset = Size
  /\ phase' = "draining"
  /\ UNCHANGED <<offset, outstanding, acked, data, acks, up, clientVars>>

ReadFails ==
  /\ phase = "sending" /\ WindowOpen
  /\ phase' = "ended"
  /\ Respond([op |-> "error"])
  /\ UNCHANGED <<offset, outstanding, acked, acks, up, clientVars>>

\* The thread is in rx.recv_timeout.
WaitsForAck ==
  \/ phase = "sending" /\ ~WindowOpen
  \/ phase = "draining" /\ outstanding > 0

SaturatingSub(a, b) == IF a > b THEN a - b ELSE 0

MutantReceiveAckDropsRest ==
  /\ WaitsForAck /\ acks # <<>>
  /\ outstanding' = SaturatingSub(outstanding, Head(acks))
  /\ acked' = Head(acks)
  /\ acks' = <<>>
  /\ UNCHANGED <<phase, offset, data, up, clientVars>>

ReceiveAck ==
  /\ WaitsForAck /\ acks # <<>>
  /\ outstanding' = SaturatingSub(outstanding, Head(acks))
  /\ acked' = Head(acks)
  /\ acks' = Tail(acks)
  /\ UNCHANGED <<phase, offset, data, up, clientVars>>

\* 60 s without an acknowledgement, or the transfer's entry was dropped: an error
\* while sending; while draining the end of the file is reported all the same.
WaitFails ==
  /\ WaitsForAck /\ acks = <<>>
  /\ phase' = "ended"
  /\ Respond([op |-> IF phase = "draining" THEN "eof" ELSE "error"])
  /\ UNCHANGED <<offset, outstanding, acked, acks, up, clientVars>>

SendEof ==
  /\ phase = "draining" /\ outstanding = 0
  /\ phase' = "ended"
  /\ Respond([op |-> "eof"])
  /\ UNCHANGED <<offset, outstanding, acked, acks, up, clientVars>>

-----------------------------------------------------------------------------
(* The client's worker                                                     *)

Takes(op) == client = "receiving" /\ data # <<>> /\ Head(data).op = op

\* The chunk is written at the end of the local file, its offset is not looked at;
\* the running total is acknowledged.
WriteChunk ==
  /\ Takes("chunk")
  /\ received' = received + Head(data).len
  /\ intact' = (intact /\ Head(data).off = received)
  /\ acks' = IF up THEN Append(acks, received') ELSE acks
  /\ data' = Tail(data)
  /\ UNCHANGED <<serverVars, up, client>>

\* The local write fails: the worker returns and tells the server nothing.
WriteFails ==
  /\ Takes("chunk")
  /\ client' = "failed"
  /\ data' = Tail(data)
  /\ UNCHANGED <<serverVars, acks, up, received, intact>>

TakeEof ==
  /\ Takes("eof")
  /\ client' = "done"
  /\ data' = Tail(data)
  /\ UNCHANGED <<serverVars, acks, up, received, intact>>

TakeError ==
  /\ Takes("error")
  /\ client' = "failed"
  /\ data' = Tail(data)
  /\ UNCHANGED <<serverVars, acks, up, received, intact>>

\* wait_file_resp finds no response: the connection is dead, or 120 s are over.
GiveUp ==
  /\ client = "receiving" /\ data = <<>>
  /\ client' = "failed"
  /\ UNCHANGED <<serverVars, data, acks, up, received, intact>>

-----------------------------------------------------------------------------

\* What had not reached the client's inbox is lost.
Disconnect ==
  /\ up /\ up' = FALSE
  /\ \E k \in 0 .. Len(data) : data' = SubSeq(data, 1, k)
  /\ acks' = <<>>
  /\ UNCHANGED <<serverVars, clientVars>>

ServerStep == ReadChunk \/ ReadEnd \/ ReceiveAck \/ SendEof
ClientStep == WriteChunk \/ TakeEof \/ TakeError

Next ==
  \/ ServerStep \/ ReadFails \/ WaitFails
  \/ ClientStep \/ WriteFails \/ GiveUp
  \/ Disconnect

Spec == Init /\ [][Next]_vars

\* Threads are scheduled and a dead connection is noticed; that a timer fires
\* while the connection stands is not assumed.
FairSpec ==
  /\ Spec
  /\ WF_vars(ServerStep) /\ WF_vars(ClientStep) /\ WF_vars(~up /\ GiveUp)

-----------------------------------------------------------------------------
(* Properties                                                              *)

\* The download is a faithful copy: the local file is at all times a prefix of the
\* source, and the client says "done" for the whole of it only, whatever errors,
\* timeouts and disconnects happen.
IsCopy == INSTANCE Copy WITH copied <- received, outcome <- client
CopySpec == IsCopy!Spec

\* The server's count stays below the window plus one chunk.
CountBounded == outstanding < Window + Chunk

\* The thread never waits for an acknowledgement nobody will send: while it
\* waits and both ends are alive, a chunk or an acknowledgement is under way.
NoStall ==
  WaitsForAck /\ up /\ client = "receiving" => data # <<>> \/ acks # <<>>

\* The transfer comes to its end without the help of a timer.
Finishes == <>(client # "receiving")
=============================================================================
