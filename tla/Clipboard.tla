------------------------------ MODULE Clipboard ------------------------------
(***************************************************************************)
(* Text clipboard synchronisation of one session: clipboard_poll_loop and  *)
(* set_clipboard_text of rcontrol_server/src/clip.rs, its forwarding thread *)
(* in rcontrol_server/src/worker.rs, and the clipboard part of the viewer's *)
(* loop in rcontrol_client/src/view.rs.                                     *)
(*                                                                         *)
(* Each side polls its clipboard, sends what changed and remembers what it *)
(* sent and what it wrote for the peer, so as not to send that back.       *)
(***************************************************************************)
EXTENDS Naturals, Sequences

CONSTANTS
  Texts,      (* texts a person copies                                       *)
  Empty,      (* the empty text, which is never sent                         *)
  None,       (* nothing in the inbox, nothing read                          *)
  MaxCopies   (* bound: texts copied during the session                      *)

ASSUME ClipboardAssumption ==
  /\ Empty \notin Texts /\ None \notin Texts \cup {Empty}
  /\ MaxCopies \in Nat

Sides == {"server", "client"}

VARIABLES
  clip,          (* the clipboard of each side                               *)
  LAST_LOCAL_SET,(* server: the text last written for the client             *)
  last_sent,     (* server: the text last sent by the polling thread         *)
  polled,        (* server: the text the polling thread has read, or None    *)
  on_secure,     (* server: the lock screen is up                            *)
  clipboard_in,  (* client: the text last received and not yet taken         *)
  clip_last_set, (* client: the text last written for the server             *)
  clip_last_sent,(* client: the text last sent                               *)
  applied,       (* client: this round's incoming text has been dealt with   *)
  toClient, toServer,  (* Clipboard messages on their way                    *)
  copies,        (* texts copied so far                                      *)
  (* history, read by the properties only *)
  author,        (* who put the text on each clipboard: person or sync       *)
  polledAuthor,  (* the same for "polled"                                    *)
  overtaken,     (* a text was written for the client since "polled" was read *)
  owed           (* the newest text is new to both sides and must still      *)
                 (* reach the other one                                      *)

server == <<LAST_LOCAL_SET, last_sent, polled>>
client == <<clipboard_in, clip_last_set, clip_last_sent, applied>>
history == <<author, polledAuthor, overtaken, owed>>
ClipVars == <<clip, server, on_secure, client, toClient, toServer, copies, history>>

Contents == Texts \cup {Empty}

ClipTypeOK ==
  /\ clip \in [Sides -> Contents]
  /\ {LAST_LOCAL_SET, last_sent, clip_last_set, clip_last_sent} \subseteq Contents
  /\ {polled, clipboard_in} \subseteq Contents \cup {None}
  /\ {on_secure, applied, overtaken} \subseteq BOOLEAN
  /\ owed \in BOOLEAN
  /\ toClient \in Seq(Texts) /\ toServer \in Seq(Texts)
  /\ copies \in 0 .. MaxCopies
  /\ author \in [Sides -> {"person", "sync"}]
  /\ polledAuthor \in {"person", "sync"}

\* A session starts with whatever is on the clipboards.
ClipInit ==
  /\ clip \in [Sides -> Contents]
  /\ LAST_LOCAL_SET = Empty /\ last_sent = Empty /\ polled = None
  /\ on_secure = FALSE
  /\ clipboard_in = None /\ clip_last_set = Empty /\ clip_last_sent = Empty
  /\ applied = FALSE
  /\ toClient = <<>> /\ toServer = <<>>
  /\ copies = 0
  /\ author = [s \in Sides |-> "person"] /\ polledAuthor = "person"
  /\ overtaken = FALSE /\ owed = FALSE

-----------------------------------------------------------------------------
(* People                                                                  *)

\* What a side remembers and will not send.
Remembered(s) ==
  {Empty} \cup (IF s = "server" THEN {last_sent, LAST_LOCAL_SET}
                                ELSE {clip_last_sent, clip_last_set})

\* Nothing is under way and no side has anything to send.
Quiet ==
  /\ toClient = <<>> /\ toServer = <<>> /\ clipboard_in = None /\ polled = None
  /\ \A s \in Sides : clip[s] \in Remembered(s)

\* A person copies a text; when it is done in a quiet moment, and the other side does
\* not hold the text already, nor either side remembers it, it is owed to that side.
Copy(s, t) ==
  /\ copies < MaxCopies /\ copies' = copies + 1
  /\ clip' = [clip EXCEPT ![s] = t]
  /\ author' = [author EXCEPT ![s] = "person"]
  /\ owed' = (/\ Quiet /\ ~on_secure
              /\ \A r \in Sides : t \notin Remembered(r)
              /\ \E r \in Sides : clip'[r] # t)
  /\ UNCHANGED <<server, on_secure, client, toClient, toServer, polledAuthor, overtaken>>

\* While the lock screen is up the polling thread does not read.
LockScreen ==
  /\ on_secure' = ~on_secure
  /\ owed' = FALSE
  /\ UNCHANGED <<clip, server, client, toClient, toServer, copies,
                 author, polledAuthor, overtaken>>

-----------------------------------------------------------------------------
(* Server                                                                  *)

\* get_clipboard_text, under the system's lock on the clipboard.
PollRead ==
  /\ polled = None /\ ~on_secure
  /\ polled' = clip["server"]
  /\ polledAuthor' = author["server"] /\ overtaken' = FALSE
  /\ UNCHANGED <<clip, LAST_LOCAL_SET, last_sent, on_secure, client, toClient, toServer,
                 copies, author, owed>>

MutantIgnoresMark(t) == t # last_sent /\ t # Empty
MutantForgetsSent(t) == t # LAST_LOCAL_SET /\ t # Empty

\* The text is new, and not what was written for the client.
Sendable(t) == t # last_sent /\ t # LAST_LOCAL_SET /\ t # Empty

\* The mark is read only now, after the clipboard has been released.
PollCompare ==
  /\ polled # None
  /\ IF Sendable(polled)
     THEN last_sent' = polled /\ toClient' = Append(toClient, polled)
     ELSE UNCHANGED <<last_sent, toClient>>
  /\ polled' = None
  /\ UNCHANGED <<clip, LAST_LOCAL_SET, on_secure, client, toServer, copies, history>>

\* A text that is on both clipboards is owed no more.
Arrived == owed' = IF clip'["server"] = clip'["client"] THEN FALSE ELSE owed

\* set_clipboard_text: the mark is set before the clipboard is released.
SetServer(t) ==
  /\ clip' = [clip EXCEPT !["server"] = t]
  /\ LAST_LOCAL_SET' = t
  /\ author' = [author EXCEPT !["server"] = "sync"]
  /\ overtaken' = TRUE
  /\ Arrived

\* The retries are exhausted: the clipboard stays as it was or has been emptied.
SetFails(s) ==
  /\ \/ UNCHANGED <<clip, author>>
     \/ /\ clip' = [clip EXCEPT ![s] = Empty]
        /\ author' = [author EXCEPT ![s] = "person"]
  /\ owed' = FALSE
  /\ UNCHANGED <<LAST_LOCAL_SET, overtaken>>

\* The read loop gets a Clipboard message.
ServerReceives ==
  /\ toServer # <<>>
  /\ SetServer(Head(toServer)) \/ SetFails("server")
  /\ toServer' = Tail(toServer)
  /\ UNCHANGED <<last_sent, polled, on_secure, client, toClient, copies, polledAuthor>>

-----------------------------------------------------------------------------
(* Client                                                                  *)

\* reader_loop: a text that was not taken yet is replaced.
ClientReceives ==
  /\ toClient # <<>>
  /\ clipboard_in' = Head(toClient)
  /\ toClient' = Tail(toClient)
  /\ UNCHANGED <<clip, server, on_secure, clip_last_set, clip_last_sent, applied, toServer,
                 copies, history>>

MutantSetClientUnmarked(t) ==
  /\ clip' = [clip EXCEPT !["client"] = t]
  /\ author' = [author EXCEPT !["client"] = "sync"]
  /\ UNCHANGED <<clip_last_set, LAST_LOCAL_SET, overtaken, owed>>

SetClient(t) ==
  /\ clip' = [clip EXCEPT !["client"] = t]
  /\ clip_last_set' = t
  /\ author' = [author EXCEPT !["client"] = "sync"]
  /\ Arrived
  /\ UNCHANGED <<LAST_LOCAL_SET, overtaken>>

\* First half of the viewer's round, every 800 ms: the incoming text.
TakeIncoming ==
  /\ ~applied /\ applied' = TRUE
  /\ clipboard_in' = None
  /\ IF clipboard_in \notin {None, clip_last_set}
     THEN SetClient(clipboard_in) \/ (SetFails("client") /\ UNCHANGED clip_last_set)
     ELSE UNCHANGED <<clip, clip_last_set, LAST_LOCAL_SET, author, overtaken, owed>>
  /\ UNCHANGED <<last_sent, polled, on_secure, clip_last_sent, toClient, toServer, copies,
                 polledAuthor>>

MutantSendsPrevious ==
  LET cur == clip["client"] IN
  /\ applied /\ applied' = FALSE
  /\ IF cur \notin {clip_last_sent, clip_last_set, Empty}
     THEN clip_last_sent' = cur /\ toServer' = Append(toServer, clip_last_sent)
     ELSE UNCHANGED <<clip_last_sent, toServer>>
  /\ UNCHANGED <<clip, server, on_secure, clipboard_in, clip_last_set, toClient, copies,
                 history>>

\* Second half: the local text.
SendLocal ==
  LET cur == clip["client"] IN
  /\ applied /\ applied' = FALSE
  /\ IF cur \notin {clip_last_sent, clip_last_set, Empty}
     THEN clip_last_sent' = cur /\ toServer' = Append(toServer, cur)
     ELSE UNCHANGED <<clip_last_sent, toServer>>
  /\ UNCHANGED <<clip, server, on_secure, clipboard_in, clip_last_set, toClient, copies,
                 history>>

-----------------------------------------------------------------------------

ClipNext ==
  \/ \E s \in Sides, t \in Texts : Copy(s, t)
  \/ LockScreen
  \/ PollRead \/ PollCompare \/ ServerReceives
  \/ ClientReceives \/ TakeIncoming \/ SendLocal

ClipSpec == ClipInit /\ [][ClipNext]_ClipVars

\* Both polling loops go round and messages are delivered (module Channel).
ClipFairSpec ==
  /\ ClipSpec
  /\ WF_ClipVars(PollRead) /\ WF_ClipVars(PollCompare) /\ WF_ClipVars(ServerReceives)
  /\ WF_ClipVars(ClientReceives) /\ WF_ClipVars(TakeIncoming) /\ WF_ClipVars(SendLocal)

-----------------------------------------------------------------------------
(* Properties                                                              *)

\* The polling thread sends a text back to the client that wrote it only when
\* another text of the client was written between its read and its comparison.
EchoOnlyWhenOvertaken ==
  [][PollCompare /\ toClient' # toClient /\ polledAuthor = "sync" => overtaken]_ClipVars

\* The viewer never sends a text back to the server it came from.
NoEchoToServer ==
  [][toServer' # toServer /\ Len(toServer') > Len(toServer) => author["client"] = "person"]_ClipVars

\* The two loops do not keep each other busy: when people stop copying, messages
\* cease, echoes and crossing texts included.
Settles == <>[](toClient = <<>> /\ toServer = <<>>)

\* A text that is copied in a quiet moment and that neither side remembers reaches
\* the other clipboard, unless another copy, a failing write or the lock screen
\* comes in between.
FreshTextArrives == owed ~> ~owed
=============================================================================
