------------------------------- MODULE Channel -------------------------------
(***************************************************************************)
(* The encrypted connection after authentication, both directions:         *)
(* Client.send and reader_loop of rcontrol_client/src/conn.rs, the writer  *)
(* task, its two queues and the head of the read loop of                   *)
(* rcontrol_server/src/worker.rs, Channel.seal and open of                 *)
(* rcontrol_common/src/crypto.rs.                                          *)
(*                                                                         *)
(* Each direction has a counter at both ends that is the nonce of the next *)
(* frame and is never sent: a frame can be opened only if it arrives whole *)
(* and in the order of sealing.  A message is its sender and its number.   *)
(***************************************************************************)
EXTENDS Naturals, Sequences

CONSTANTS
  Threads,    (* client threads that send: the windows' loops, the file worker *)
  Pinger,     (* the one whose messages are pings                              *)
  Sources,    (* server threads that respond: transfers, the clipboard         *)
  Texts,      (* those of them whose messages have no bound of their own       *)
  PRIO,       (* capacity of the priority queue                                *)
  VIDEO,      (* capacity of the video queue                                   *)
  Net,        (* frames the sockets' buffers hold in one direction             *)
  Messages,   (* bound: messages of each thread and source                     *)
  Captures,   (* bound: frames captured                                        *)
  None        (* no thread; no frame                                           *)

ASSUME ChannelAssumption ==
  /\ Pinger \in Threads
  /\ Threads \cap Sources = {}
  /\ Texts \subseteq Sources
  /\ None \notin Threads \cup Sources
  /\ None \notin [ctr : Nat, msg : [from : Threads \cup Sources \cup {None}, n : Nat]]
  /\ {PRIO, VIDEO, Net} \subseteq Nat \ {0}
  /\ {Messages, Captures} \subseteq Nat

VARIABLES
  up,          (* the socket is open                                          *)
  stream,      (* which thread holds the lock on the client's stream          *)
  frame,       (* the sealed frame a thread is about to write, or None        *)
  lenSent,     (* its length prefix has been written                          *)
  sealUp,      (* enc_ctr of the client                                       *)
  wireUp,      (* parts of frames on their way to the server                  *)
  openUp,      (* dec_ctr of the server                                       *)
  prio, video, (* the server's queues                                         *)
  captured,    (* frames captured                                             *)
  writing,     (* the sealed frame the writer is about to write, or None      *)
  writer,      (* the writer task runs                                        *)
  sealDown, wireDown, openDown,   (* as above, towards the client             *)
  reader,      (* the client's reader thread runs                             *)
  garbled,     (* a reader met a frame it could not open                      *)
  sent, delivered  (* messages of each sender, handed over and arrived        *)

clientVars == <<stream, frame, lenSent, sealUp>>
serverVars == <<prio, video, captured, writing, writer, sealDown>>
vars == <<up, clientVars, wireUp, openUp, serverVars, wireDown, openDown,
          reader, garbled, sent, delivered>>

Senders == Threads \cup Sources
PongFrame == [from |-> None, n |-> 0]
VideoFrame == [from |-> None, n |-> 1]
Msgs == [from : Senders, n : 1 .. Messages] \cup {PongFrame, VideoFrame}
Frames == [ctr : Nat, msg : Msgs]
Parts == [part : {"len", "body"}, ctr : Nat, msg : Msgs]

TypeOK ==
  /\ up \in BOOLEAN /\ writer \in BOOLEAN /\ reader \in BOOLEAN /\ garbled \in BOOLEAN
  /\ stream \in Threads \cup {None}
  /\ frame \in [Threads -> Frames \cup {None}]
  /\ lenSent \in [Threads -> BOOLEAN]
  /\ {sealUp, openUp, sealDown, openDown} \subseteq Nat
  /\ wireUp \in Seq(Parts) /\ wireDown \in Seq(Frames)
  /\ prio \in Seq(Msgs) /\ Len(prio) <= PRIO
  /\ video \in Seq({VideoFrame}) /\ Len(video) <= VIDEO
  /\ captured \in 0 .. Captures
  /\ writing \in Frames \cup {None}
  /\ sent \in [Senders -> 0 .. Messages]
  /\ delivered \in [Senders -> 0 .. Messages]

Init ==
  /\ up = TRUE /\ writer = TRUE /\ reader = TRUE /\ garbled = FALSE
  /\ stream = None
  /\ frame = [t \in Threads |-> None] /\ lenSent = [t \in Threads |-> FALSE]
  /\ sealUp = 0 /\ openUp = 0 /\ sealDown = 0 /\ openDown = 0
  /\ wireUp = <<>> /\ wireDown = <<>> /\ prio = <<>> /\ video = <<>>
  /\ captured = 0 /\ writing = None
  /\ sent = [s \in Senders |-> 0] /\ delivered = [s \in Senders |-> 0]

\* The next message of a sender.
NextOf(s) == [from |-> s, n |-> sent[s] + 1]
Handed(s) == sent[s] < Messages /\ sent' = [sent EXCEPT ![s] = @ + 1]

\* A sealed message, and whether it opens: the nonce is the counter of the end at which
\* it is sealed or opened.
Sealed(ctr, m) == [ctr |-> ctr, msg |-> m]
Opens(f, ctr) == f.ctr = ctr

\* A frame is read as a length and as many bytes as it says.
Whole(len, body) == len.part = "len" /\ body.part = "body" /\ body.ctr = len.ctr

-----------------------------------------------------------------------------
(* The client's send: the stream is locked first, then the channel          *)

MutantSendWithoutLock(t) ==
  /\ frame[t] = None
  /\ Handed(t)
  /\ stream' = t
  /\ frame' = [frame EXCEPT ![t] = Sealed(sealUp, NextOf(t))]
  /\ sealUp' = sealUp + 1
  /\ UNCHANGED <<up, lenSent, wireUp, openUp, serverVars, wireDown, openDown,
                 reader, garbled, delivered>>

\* The lock on the channel is only ever taken under the lock on the stream, so both
\* are one step; then the message is sealed.
LockAndSeal(t) ==
  /\ stream = None
  /\ Handed(t)
  /\ stream' = t
  /\ frame' = [frame EXCEPT ![t] = Sealed(sealUp, NextOf(t))]
  /\ sealUp' = sealUp + 1
  /\ UNCHANGED <<up, lenSent, wireUp, openUp, serverVars, wireDown, openDown,
                 reader, garbled, delivered>>

Part(kind, f) == [part |-> kind, ctr |-> f.ctr, msg |-> f.msg]

\* MAX_FRAME is never met here: the client sends no text of 4 MB and no chunk above 256 KB.
WriteLen(t) ==
  /\ up /\ frame[t] # None /\ ~lenSent[t] /\ Len(wireUp) < 2 * Net
  /\ wireUp' = Append(wireUp, Part("len", frame[t]))
  /\ lenSent' = [lenSent EXCEPT ![t] = TRUE]
  /\ UNCHANGED <<up, stream, frame, sealUp, openUp, serverVars, wireDown, openDown,
                 reader, garbled, sent, delivered>>

Released(t) ==
  /\ stream' = None
  /\ frame' = [frame EXCEPT ![t] = None]
  /\ lenSent' = [lenSent EXCEPT ![t] = FALSE]

WriteBody(t) ==
  /\ up /\ frame[t] # None /\ lenSent[t] /\ Len(wireUp) < 2 * Net
  /\ wireUp' = Append(wireUp, Part("body", frame[t]))
  /\ Released(t)
  /\ UNCHANGED <<up, sealUp, openUp, serverVars, wireDown, openDown,
                 reader, garbled, sent, delivered>>

\* A write fails on a closed socket; the locks are released all the same.
SendFails(t) ==
  /\ ~up /\ frame[t] # None
  /\ Released(t)
  /\ UNCHANGED <<up, sealUp, wireUp, openUp, serverVars, wireDown, openDown,
                 reader, garbled, sent, delivered>>

-----------------------------------------------------------------------------
(* The server's read loop                                                   *)

TrySend(queue, cap, msg) == IF Len(queue) < cap THEN Append(queue, msg) ELSE queue

\* Read a frame, open it and handle it; a Ping is answered without waiting, and the
\* Pong is dropped when the queue is full or its receiver gone.
ServerReads ==
  /\ Len(wireUp) >= 2 /\ ~garbled
  /\ LET len == wireUp[1]
         body == wireUp[2]
         opens == Whole(len, body) /\ Opens(body, openUp)
     IN  /\ wireUp' = Tail(Tail(wireUp))
         /\ \/ /\ opens
               /\ openUp' = openUp + 1
               /\ delivered' = [delivered EXCEPT ![body.msg.from] = body.msg.n]
               /\ prio' = IF body.msg.from = Pinger /\ writer
                          THEN TrySend(prio, PRIO, PongFrame) ELSE prio
               /\ UNCHANGED garbled
            \/ /\ ~opens
               /\ garbled' = TRUE
               /\ UNCHANGED <<openUp, delivered, prio>>
  /\ UNCHANGED <<up, clientVars, video, captured, writing, writer, sealDown,
                 wireDown, openDown, reader, sent>>

-----------------------------------------------------------------------------
(* The server's senders and its writer task                                 *)

MutantRespondDrops(s) ==
  /\ Handed(s)
  /\ prio' = IF writer THEN TrySend(prio, PRIO, NextOf(s)) ELSE prio
  /\ UNCHANGED <<up, clientVars, wireUp, openUp, video, captured, writing, writer,
                 sealDown, wireDown, openDown, reader, garbled, delivered>>

MutantRespondIgnoresClose(s) ==
  /\ Handed(s)
  /\ Len(prio) < PRIO /\ prio' = Append(prio, NextOf(s))
  /\ UNCHANGED <<up, clientVars, wireUp, openUp, video, captured, writing, writer,
                 sealDown, wireDown, openDown, reader, garbled, delivered>>

\* blocking_send: waits for room; returns at once, message lost, when the writer and
\* with it the receiver of the queue is gone.
RespondBlocking(s) ==
  /\ Handed(s)
  /\ \/ writer /\ Len(prio) < PRIO /\ prio' = Append(prio, NextOf(s))
     \/ ~writer /\ UNCHANGED prio
  /\ UNCHANGED <<up, clientVars, wireUp, openUp, video, captured, writing, writer,
                 sealDown, wireDown, openDown, reader, garbled, delivered>>

\* The capture thread drops the frame when two are waiting.
CaptureFrame ==
  /\ captured < Captures /\ captured' = captured + 1
  /\ video' = IF writer THEN TrySend(video, VIDEO, VideoFrame) ELSE video
  /\ UNCHANGED <<up, clientVars, wireUp, openUp, prio, writing, writer, sealDown,
                 wireDown, openDown, reader, garbled, sent, delivered>>

\* The select is biased: the video queue is looked at when the other is empty.
WriterTakes ==
  /\ writer /\ writing = None
  /\ \/ prio # <<>> /\ writing' = Sealed(sealDown, Head(prio))
        /\ prio' = Tail(prio) /\ UNCHANGED video
     \/ prio = <<>> /\ video # <<>> /\ writing' = Sealed(sealDown, Head(video))
        /\ video' = Tail(video) /\ UNCHANGED prio
  /\ sealDown' = sealDown + 1
  /\ UNCHANGED <<up, clientVars, wireUp, openUp, captured, writer, wireDown, openDown,
                 reader, garbled, sent, delivered>>

WriterWrites ==
  /\ up /\ writing # None /\ Len(wireDown) < Net
  /\ wireDown' = Append(wireDown, writing)
  /\ writing' = None
  /\ UNCHANGED <<up, clientVars, wireUp, openUp, prio, video, captured, writer,
                 sealDown, openDown, reader, garbled, sent, delivered>>

\* A write error ends the writer; its receivers are dropped with what they hold.
WriterBreaks ==
  /\ ~up /\ writing # None
  /\ writer' = FALSE /\ writing' = None
  /\ prio' = <<>> /\ video' = <<>>
  /\ UNCHANGED <<up, clientVars, wireUp, openUp, captured, sealDown, wireDown, openDown,
                 reader, garbled, sent, delivered>>

\* reader_loop: it takes whatever comes and never waits for anyone else. It ends at a
\* frame above MAX_FRAME and leaves it on the wire: the server's writer does not look at
\* the length, and its clipboard sends whatever text it finds.
ClientReads ==
  /\ wireDown # <<>> /\ reader
  /\ LET f == Head(wireDown) IN
     \/ /\ Opens(f, openDown)
        /\ openDown' = openDown + 1
        /\ delivered' = IF f.msg.from = None THEN delivered
                        ELSE [delivered EXCEPT ![f.msg.from] = f.msg.n]
        /\ wireDown' = Tail(wireDown) /\ UNCHANGED <<reader, garbled>>
     \/ /\ ~Opens(f, openDown)
        /\ garbled' = TRUE /\ reader' = FALSE
        /\ wireDown' = Tail(wireDown) /\ UNCHANGED <<openDown, delivered>>
     \/ /\ f.msg.from \in Texts
        /\ reader' = FALSE /\ UNCHANGED <<wireDown, openDown, delivered, garbled>>
  /\ UNCHANGED <<up, clientVars, wireUp, openUp, serverVars, sent>>

\* The read timeout of the handshake stays set on the socket: when nothing comes for
\* that long, the reader ends and marks the connection dead.
ReaderTimesOut ==
  /\ reader /\ wireDown = <<>> /\ up
  /\ reader' = FALSE
  /\ UNCHANGED <<up, clientVars, wireUp, openUp, serverVars, wireDown, openDown,
                 garbled, sent, delivered>>

\* The connection breaks; what the sockets had not delivered is cut off anywhere.
Disconnect ==
  /\ up /\ up' = FALSE
  /\ \E i \in 0 .. Len(wireUp), j \in 0 .. Len(wireDown) :
       /\ wireUp' = SubSeq(wireUp, 1, i)
       /\ wireDown' = SubSeq(wireDown, 1, j)
  /\ UNCHANGED <<clientVars, openUp, serverVars, openDown, reader, garbled, sent, delivered>>

-----------------------------------------------------------------------------

Writer == WriterTakes \/ WriterWrites \/ WriterBreaks
Writes(t) == WriteLen(t) \/ WriteBody(t) \/ SendFails(t)

Next ==
  \/ \E t \in Threads : LockAndSeal(t) \/ Writes(t)
  \/ ServerReads \/ ClientReads \/ Writer
  \/ \E s \in Sources : RespondBlocking(s)
  \/ CaptureFrame
  \/ ReaderTimesOut \/ Disconnect

Spec == Init /\ [][Next]_vars

\* Threads and tasks are scheduled.  As each sender sends a bounded number of
\* messages, a thread gets the lock, and a source room, without assuming that either
\* is granted fairly.  That the connection ever breaks is not assumed.
FairSpec ==
  /\ Spec
  /\ WF_vars(ServerReads) /\ WF_vars(ClientReads) /\ WF_vars(Writer)
  /\ \A t \in Threads : WF_vars(LockAndSeal(t)) /\ WF_vars(Writes(t))
  /\ \A s \in Sources : WF_vars(RespondBlocking(s))

-----------------------------------------------------------------------------
(* Properties                                                              *)

\* However threads interleave and wherever the connection is cut, no end ever
\* meets a frame it cannot open: the counters of both ends go together.
NeverGarbled == ~garbled

\* Messages of one thread, and responses of one transfer, arrive in order and
\* without a gap, also when the queue is full; only Pong and video are dropped.
IsDelivery == INSTANCE Delivery
DeliverySpec == IsDelivery!Spec

\* No sender waits for ever, neither for a lock nor for room in a queue, also when
\* the writer has ended; the one exception is a client whose reader has given up
\* while something there (an open file manager) keeps the socket open.
SendersReturn == <>[](\A s \in Senders : sent[s] = Messages) \/ <>[](up /\ ~reader)

\* What was handed over arrives unless the connection is given up: no cycle of full
\* buffers in which both ends wait for the other to read.
EverythingArrives == <>(~up \/ ~reader \/ \A s \in Senders : delivered[s] = Messages)
=============================================================================
