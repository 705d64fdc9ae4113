------------------------------- MODULE Session -------------------------------
(***************************************************************************)
(* The connection side of the server worker: the accept loop, handle_conn  *)
(* and run_session of rcontrol_server/src/worker.rs.                        *)
(*                                                                         *)
(* Every accepted socket becomes a task of a multi-threaded runtime.  The  *)
(* tasks share one flag, "connected", which admits one controller at a     *)
(* time, and one map of authentication failures.  An admitted session owns *)
(* threads (capture, input, clipboard, file transfers) and a writer task   *)
(* that outlive the session body until they see "stopped" or run out of    *)
(* senders.  The steps of a task are cut where the code awaits or where    *)
(* another task can see a store.                                           *)
(***************************************************************************)
EXTENDS Naturals, FiniteSets

CONSTANTS
  Conns,            (* connection tasks with their threads; one may be       *)
                    (* reused when all of these have ended                   *)
  Hosts,            (* addresses clients connect from                        *)
  Ports,            (* source ports                                          *)
  NoIp,             (* what parse().ok() gives for text that is no address   *)
  AUTH_FAIL_LIMIT,  (* failures after which a host is refused                *)
  MinutesPass       (* TRUE: AUTH_BLOCK_SECS may elapse between two attempts *)

ASSUME SessionAssumption ==
  /\ NoIp \notin Hosts
  /\ Hosts \cap Ports = {}
  /\ AUTH_FAIL_LIMIT \in Nat \ {0}
  /\ MinutesPass \in BOOLEAN

VARIABLES
  connected,  (* State.connected, shared by every task                       *)
  authFail,   (* State.auth_fail: failures counted per address               *)
  pc,         (* where the task of a connection is                           *)
  addr,       (* the peer's socket address                                   *)
  peer,       (* the client's end of the socket                              *)
  stopped,    (* the session's stop flag                                     *)
  threads,    (* threads of the session that still run; "loops" stands for   *)
              (* the capture and input loops, which end alike, "clip" for    *)
              (* the thread that forwards texts, "poll" for the one it       *)
              (* starts to look at the clipboard                             *)
  writing     (* the writer task runs                                        *)

SessionVars == <<connected, authFail, pc, addr, peer, stopped, threads, writing>>

Addrs == [host : Hosts, port : Ports]

\* Between the store of TRUE and the store of FALSE to "connected".
Holding == {"hello", "auth", "counting", "serving", "draining", "leaving"}

Places == {"idle", "accepted", "refusing", "entering", "stopping"} \cup Holding

SessionTypeOK ==
  /\ connected \in BOOLEAN
  /\ authFail \in [Hosts -> Nat]
  /\ pc \in [Conns -> Places]
  /\ addr \in [Conns -> Addrs]
  /\ peer \in [Conns -> {"live", "silent", "gone"}]
  /\ stopped \in [Conns -> BOOLEAN]
  /\ threads \in [Conns -> SUBSET {"loops", "clip", "poll", "transfer"}]
  /\ writing \in [Conns -> BOOLEAN]

SessionInit ==
  /\ connected = FALSE
  /\ authFail = [h \in Hosts |-> 0]
  /\ pc = [c \in Conns |-> "idle"]
  /\ addr \in [Conns -> Addrs]
  /\ peer = [c \in Conns |-> "gone"]
  /\ stopped = [c \in Conns |-> FALSE]
  /\ threads = [c \in Conns |-> {}]
  /\ writing = [c \in Conns |-> FALSE]

Goto(c, from, to) == pc[c] = from /\ pc' = [pc EXCEPT ![c] = to]

-----------------------------------------------------------------------------
(* Accepting and admitting                                                 *)

\* The accept loop spawns a task with a fresh stop flag.
Accept(c) ==
  /\ Goto(c, "idle", "accepted")
  /\ threads[c] = {} /\ ~writing[c]
  /\ addr' \in {[addr EXCEPT ![c] = a] : a \in Addrs}
  /\ peer' = [peer EXCEPT ![c] = "live"]
  /\ stopped' = [stopped EXCEPT ![c] = FALSE]
  /\ UNCHANGED <<connected, authFail, threads, writing>>

\* The flag is read here and stored in Enter: two tasks may both read FALSE.
CheckConnected(c) ==
  /\ Goto(c, "accepted", IF connected THEN "refusing" ELSE "entering")
  /\ UNCHANGED <<connected, authFail, addr, peer, stopped, threads, writing>>

\* ServerHello and an AuthResponse that refuses; write errors are ignored.
Refuse(c) ==
  /\ Goto(c, "refusing", "idle")
  /\ UNCHANGED <<connected, authFail, addr, peer, stopped, threads, writing>>

Enter(c) ==
  /\ Goto(c, "entering", "hello")
  /\ connected' = TRUE
  /\ UNCHANGED <<authFail, addr, peer, stopped, threads, writing>>

-----------------------------------------------------------------------------
(* Handshake                                                               *)

\* The write of ServerHello fails only on a closed socket.
SendHello(c) ==
  /\ \/ Goto(c, "hello", "auth")
     \/ peer[c] = "gone" /\ Goto(c, "hello", "leaving")
  /\ UNCHANGED <<connected, authFail, addr, peer, stopped, threads, writing>>

\* No AuthRequest within 10 s, end of stream, or something else in its place.
AuthAbort(c) ==
  /\ Goto(c, "auth", "leaving")
  /\ UNCHANGED <<connected, authFail, addr, peer, stopped, threads, writing>>

\* peer.rsplit(':').next(): the last field of "host:port".
LastField(a) == a.port

\* The address the limiter is keyed by.
PeerIp(a) == IF LastField(a) \in Hosts THEN LastField(a) ELSE NoIp

\* The count the limiter sees: it is reset once the block period has elapsed.
FailCount(ip, elapsed) == IF ip = NoIp \/ elapsed THEN 0 ELSE authFail[ip]

ResetFail(ip, elapsed) ==
  authFail' = IF ip # NoIp /\ elapsed THEN [authFail EXCEPT ![ip] = 0] ELSE authFail

\* An AuthRequest arrives: limiter, verification, AuthResponse; on success the
\* writer task and the session's threads are started.
Authenticate(c, good, clipboard) ==
  LET ip == PeerIp(addr[c]) IN
  /\ pc[c] = "auth" /\ peer[c] = "live"
  /\ \E elapsed \in {FALSE, MinutesPass} :
       /\ ResetFail(ip, elapsed)
       /\ LET refused == FailCount(ip, elapsed) >= AUTH_FAIL_LIMIT IN
          /\ pc' = [pc EXCEPT ![c] = IF refused THEN "leaving"
                                     ELSE IF good THEN "serving" ELSE "counting"]
          /\ threads' = [threads EXCEPT ![c] =
               IF good /\ ~refused
               THEN {"loops"} \cup (IF clipboard THEN {"clip", "poll"} ELSE {})
               ELSE @]
          /\ writing' = [writing EXCEPT ![c] = @ \/ (good /\ ~refused)]
  /\ UNCHANGED <<connected, addr, peer, stopped>>

\* After the refusing answer has been written; nothing is counted without an address.
CountFailure(c) ==
  LET ip == PeerIp(addr[c]) IN
  /\ Goto(c, "counting", "leaving")
  /\ authFail' = IF ip = NoIp THEN authFail ELSE [authFail EXCEPT ![ip] = @ + 1]
  /\ UNCHANGED <<connected, addr, peer, stopped, threads, writing>>

-----------------------------------------------------------------------------
(* The running session and its end                                         *)

\* A Download or Upload request: the thread holds a sender of the writer.
StartTransfer(c) ==
  /\ pc[c] = "serving" /\ peer[c] = "live"
  /\ threads' = [threads EXCEPT ![c] = @ \cup {"transfer"}]
  /\ UNCHANGED <<connected, authFail, pc, addr, peer, stopped, writing>>

MutantEofSkipsLeave(c) ==
  /\ peer[c] = "gone" /\ Goto(c, "serving", "stopping")
  /\ UNCHANGED <<connected, authFail, addr, peer, stopped, threads, writing>>

\* End of stream or a socket error: "r?" leaves run_session at once and skips
\* the orderly end, stop flag included.
ReadEof(c) ==
  /\ peer[c] = "gone" /\ Goto(c, "serving", "leaving")
  /\ UNCHANGED <<connected, authFail, addr, peer, stopped, threads, writing>>

BreakLoop(c) ==
  /\ Goto(c, "serving", "draining")
  /\ stopped' = [stopped EXCEPT ![c] = TRUE]
  /\ UNCHANGED <<connected, authFail, addr, peer, threads, writing>>

MutantNoReadTimeout(c) == peer[c] = "gone" /\ BreakLoop(c)

\* No frame for 60 s.
ReadTimeout(c) == peer[c] = "silent" /\ BreakLoop(c)

\* A length of 0 or above MAX_FRAME is an error of the read and leaves like one.
BadLength(c) ==
  /\ peer[c] = "live" /\ Goto(c, "serving", "leaving")
  /\ UNCHANGED <<connected, authFail, addr, peer, stopped, threads, writing>>

\* A frame that cannot be decrypted or decoded.
BadFrame(c) == peer[c] = "live" /\ BreakLoop(c)

\* The writer is awaited for at most 2 s.  The respond callback, in scope until
\* run_session returns, keeps a sender, so the writer can end in that time only
\* by a write error.
DrainEnd(c) ==
  /\ Goto(c, "draining", "leaving")
  /\ UNCHANGED <<connected, authFail, addr, peer, stopped, threads, writing>>

Leave(c) ==
  /\ Goto(c, "leaving", "stopping")
  /\ connected' = FALSE
  /\ UNCHANGED <<authFail, addr, peer, stopped, threads, writing>>

MutantNoStop(c) ==
  /\ Goto(c, "stopping", "idle")
  /\ UNCHANGED <<connected, authFail, addr, peer, stopped, threads, writing>>

\* handle_conn stores the stop flag for every way out of run_session.
Stop(c) ==
  /\ Goto(c, "stopping", "idle")
  /\ stopped' = [stopped EXCEPT ![c] = TRUE]
  /\ UNCHANGED <<connected, authFail, addr, peer, threads, writing>>

-----------------------------------------------------------------------------
(* Threads, writer and client                                              *)

\* The capture and input loops and the forwarding thread return when they see the
\* stop flag.
ThreadStops(c, t) ==
  /\ t \in threads[c] \ {"transfer", "poll"} /\ stopped[c]
  /\ threads' = [threads EXCEPT ![c] = @ \ {t}]
  /\ UNCHANGED <<connected, authFail, pc, addr, peer, stopped, writing>>

\* The polling thread's own stop is always false.  It ends when it reads a text that it
\* has not sent yet and finds the forwarding thread gone: with the next text somebody
\* copies, or never.
PollerEnds(c) ==
  /\ "poll" \in threads[c] /\ "clip" \notin threads[c]
  /\ threads' = [threads EXCEPT ![c] = @ \ {"poll"}]
  /\ UNCHANGED <<connected, authFail, pc, addr, peer, stopped, writing>>

\* A transfer finishes, fails or times out on its own (module Transfers).
TransferEnds(c) ==
  /\ "transfer" \in threads[c]
  /\ threads' = [threads EXCEPT ![c] = @ \ {"transfer"}]
  /\ UNCHANGED <<connected, authFail, pc, addr, peer, stopped, writing>>

\* Someone still holds a sender of the priority channel.
PrioSenders(c) == pc[c] \in {"serving", "draining"} \/ threads[c] \cap {"clip", "transfer"} # {}

\* The writer breaks on a write error, or when the last sender is dropped.
WriterEnds(c) ==
  /\ writing[c]
  /\ peer[c] = "gone" \/ ~PrioSenders(c)
  /\ writing' = [writing EXCEPT ![c] = FALSE]
  /\ UNCHANGED <<connected, authFail, pc, addr, peer, stopped, threads>>

PeerChanges(c, to) ==
  /\ pc[c] # "idle"
  /\ \/ peer[c] = "live" /\ to \in {"silent", "gone"}
     \/ peer[c] = "silent" /\ to = "gone"
  /\ peer' = [peer EXCEPT ![c] = to]
  /\ UNCHANGED <<connected, authFail, pc, addr, stopped, threads, writing>>

-----------------------------------------------------------------------------

\* The steps of a task that the runtime or a timer brings about by themselves.
Body(c) ==
  \/ CheckConnected(c) \/ Refuse(c) \/ Enter(c)
  \/ SendHello(c) \/ AuthAbort(c) \/ CountFailure(c)
  \/ ReadEof(c) \/ ReadTimeout(c) \/ DrainEnd(c) \/ Leave(c) \/ Stop(c)

Client(c) ==
  \/ Accept(c)
  \/ \E good, clipboard \in BOOLEAN : Authenticate(c, good, clipboard)
  \/ StartTransfer(c)
  \/ BadLength(c) \/ BadFrame(c)
  \/ \E to \in {"silent", "gone"} : PeerChanges(c, to)

Workers(c) ==
  \/ \E t \in {"loops", "clip"} : ThreadStops(c, t)
  \/ PollerEnds(c)
  \/ TransferEnds(c)
  \/ WriterEnds(c)

SessionNext == \E c \in Conns : Body(c) \/ Client(c) \/ Workers(c)

SessionSpec == SessionInit /\ [][SessionNext]_SessionVars

\* The runtime runs every task and every timer fires, threads are scheduled;
\* nothing is assumed of clients, nor that anybody copies a text.
SessionFairness == \A c \in Conns :
  /\ WF_SessionVars(Body(c))
  /\ \A t \in {"loops", "clip"} : WF_SessionVars(ThreadStops(c, t))
  /\ WF_SessionVars(TransferEnds(c))
  /\ WF_SessionVars(WriterEnds(c))

SessionFairSpec == SessionSpec /\ SessionFairness

-----------------------------------------------------------------------------
(* Properties                                                              *)

\* The flag never outlives the sessions that set it: while "connected" is
\* TRUE, some task is still between its two stores, so no early return of
\* handle_conn or run_session can lock every later controller out.
NoLockout == connected => \E c \in Conns : pc[c] \in Holding

\* A client that vanished or fell silent, at any point of the handshake or the
\* session, does not keep the slot: its task comes to its end.
SlotReleased == \A c \in Conns : (peer[c] # "live") ~> (pc[c] = "idle")

\* When a task has ended, whichever way it left run_session, its writer ends and so do
\* the threads it started, the polling thread excepted: each session with a clipboard
\* leaves one behind until the next text is copied (worker.rs:428).
ThreadsReleased ==
  \A c \in Conns : (pc[c] = "idle") ~> (threads[c] \subseteq {"poll"} /\ ~writing[c])

\* README: one controller at a time.
SingleController ==
  \A c, d \in Conns : pc[c] = "serving" /\ pc[d] = "serving" => c = d
=============================================================================
