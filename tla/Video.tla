------------------------------- MODULE Video -------------------------------
(***************************************************************************)
(* The picture of one session and the clicks aimed at it: the capture      *)
(* thread (rcontrol_server/src/capture.rs, worker.rs), the bounded video   *)
(* queue, the client's reader and its latest frame (rcontrol_client/src/   *)
(* conn.rs), the viewer (view.rs), and the way back of a mouse event to    *)
(* the point it is injected at (rcontrol_server/src/input.rs).             *)
(*                                                                         *)
(* One dimension of the screen stands for both. A screen is what it shows, *)
(* its width, and the coordinate of its leftmost column, which is negative *)
(* or positive as the monitors are arranged. It is at most half as wide as *)
(* SendInput has steps, 32768 columns: that is as far as the 32 bits of    *)
(* the conversion in input.rs reach.                                       *)
(***************************************************************************)
EXTENDS Integers, SequencesExt

CONSTANTS
  Screens,     (* the states the screen may take: [what, w, at]              *)
  Start,       (* the one it is in when the session starts                   *)
  MaxWidth,    (* cfg.max_width, 0 for none; no client of ours changes it    *)
  Steps,       (* SendInput's steps across the desktop; 65536 in the code    *)
  VideoCap,    (* room in the video queue; 2 in the code                     *)
  MaxWire,     (* bound: video messages in the sockets                       *)
  BatchMax,    (* events the input thread takes at once; 64 in the code      *)
  MaxChanges,  (* bound: states of the screen                                *)
  MaxClicks,   (* bound: clicks under way                                    *)
  Columns      (* bound: columns of a picture that clicks are aimed at       *)

ASSUME VideoAssumption ==
  /\ Start \in Screens
  /\ \A s \in Screens : s.w \in Nat \ {0} /\ 2 * s.w <= Steps /\ s.at \in Int
  /\ MaxWidth \in Nat /\ Steps \in Nat
  /\ {VideoCap, MaxWire, BatchMax, MaxChanges} \subseteq Nat \ {0} /\ MaxClicks \in Nat
  /\ Columns \subseteq Nat

VARIABLES
  history,        (* the states the screen has been in                       *)
  cap,            (* size and origin of the capturer's buffers, or NoBuffers *)
  last_rgb,       (* the capturer's memory of the last picture               *)
  capture_loop,   (* "capture", "blit", "store" or "send"                    *)
  frame,          (* the message the capture loop is about to send           *)
  frame_w,        (* the width told to the input thread                      *)
  video, wire,    (* messages in the video queue and in the sockets          *)
  latest,         (* the client's g.frame                                    *)
  frame_seq,      (* the client's g.frame_seq                                *)
  viewer,         (* "first", "look", "take" or "closed"                     *)
  seq, last_drawn_seq, img,   (* of run_viewer                               *)
  clicks,         (* mouse events on their way to the input thread           *)
  batch, fsize,   (* of the input thread                                     *)
  (* history, read by the properties only *)
  lost            (* the latest picture found no room                        *)

capturer == <<cap, last_rgb, capture_loop, frame>>
client == <<latest, frame_seq>>
viewing == <<viewer, seq, last_drawn_seq, img>>
injector == <<batch, fsize>>
vars == <<history, capturer, frame_w, video, wire, client, viewing, clicks, injector, lost>>

screen == Last(history)
NoBuffers == [w |-> 0, at |-> 0]
None == [w |-> 0]

(* A picture is taken of a state of the screen, with buffers of some width  *)
(* and from some origin: those of the screen when the buffers were made or  *)
(* last checked. What it is of is history; two pictures are the same to the *)
(* capturer when what they show, their widths and their shift against the   *)
(* screen agree.                                                            *)
Pictures == [kind : {"picture"}, of : 1 .. MaxChanges, w : Nat \ {0}, cw : Nat \ {0}, shift : Int]
Rgb(p) == [what |-> history[p.of].what, w |-> p.w, cw |-> p.cw, shift |-> p.shift]
Cursor == [kind |-> "cursor"]
Clicks == [of : 1 .. MaxChanges, w : Nat \ {0}, cw : Nat \ {0}, shift : Int, x : Nat]

TypeOK ==
  /\ history \in Seq(Screens) /\ Len(history) \in 1 .. MaxChanges
  /\ cap = NoBuffers \/ \E s \in Screens : cap = [w |-> s.w, at |-> s.at]
  /\ last_rgb = None \/ \E n \in DOMAIN history : last_rgb.what = history[n].what
  /\ capture_loop \in {"capture", "blit", "store", "send"}
  /\ capture_loop \in {"blit", "store"} => cap # NoBuffers
  /\ frame_w \in Nat
  /\ video \in Seq(Pictures \cup {Cursor}) /\ Len(video) <= VideoCap
  /\ wire \in Seq(Pictures \cup {Cursor}) /\ Len(wire) <= MaxWire
  /\ latest \in Pictures \cup {None} /\ img \in Pictures \cup {None}
  /\ frame_seq \in Nat /\ seq \in 0 .. frame_seq /\ last_drawn_seq \in 0 .. seq
  /\ viewer \in {"first", "look", "take", "closed"}
  /\ viewer \in {"look", "take"} => img \in Pictures
  /\ clicks \in Seq(Clicks) /\ batch \in Seq(Clicks) /\ Len(batch) <= BatchMax
  /\ fsize \in Nat /\ lost \in BOOLEAN

Init ==
  /\ history = <<Start>>
  /\ cap = NoBuffers /\ last_rgb = None /\ capture_loop = "capture" /\ frame = Cursor
  /\ frame_w = 0 /\ video = <<>> /\ wire = <<>>
  /\ latest = None /\ frame_seq = 0
  /\ viewer = "first" /\ seq = 0 /\ last_drawn_seq = 0 /\ img = None
  /\ clicks = <<>> /\ batch = <<>> /\ fsize = 0 /\ lost = FALSE

-----------------------------------------------------------------------------
(* The controlled machine: windows are drawn, monitors are plugged, changed *)
(* or rearranged.                                                           *)
ScreenChanges ==
  /\ Len(history) < MaxChanges
  /\ \E s \in Screens \ {screen} : history' = Append(history, s)
  /\ UNCHANGED <<capturer, frame_w, video, wire, client, viewing, clicks, injector, lost>>

-----------------------------------------------------------------------------
(* The capture thread.                                                      *)

(* The buffers are rebuilt when the size differs, and only then.            *)
Rebuilt ==
  IF cap.w = screen.w THEN cap ELSE [w |-> screen.w, at |-> screen.at]
Scaled(w) == IF MaxWidth > 0 /\ w > MaxWidth THEN MaxWidth ELSE w
Taken == [kind |-> "picture", of |-> Len(history),
          w |-> Scaled(cap.w), cw |-> cap.w, shift |-> cap.at - screen.at]

MutantChanged == last_rgb = None \/ last_rgb.what # Rgb(Taken).what
Changed == Rgb(Taken) # last_rgb

(* The desktop's measures are read and the buffers made to fit them ...     *)
Rebuild ==
  /\ viewer # "closed" /\ capture_loop = "capture"
  /\ cap' = Rebuilt
  /\ capture_loop' = "blit"
  /\ UNCHANGED <<history, last_rgb, frame, frame_w, video, wire, client, viewing, clicks, injector,
                 lost>>

(* ... and then the desktop is copied, as it is by then: BitBlt takes the   *)
(* buffers' width from the buffers' origin. The picture is compared with    *)
(* the one before. If it is the same, a light message is made when the      *)
(* pointer moved, and none when it did not.                                 *)
Capture ==
  /\ viewer # "closed" /\ capture_loop = "blit"
  /\ IF Changed
     THEN /\ last_rgb' = Rgb(Taken)
          /\ frame' = Taken
     ELSE /\ frame' \in {Cursor, [Taken EXCEPT !.kind = "none"]}
          /\ UNCHANGED last_rgb
  /\ capture_loop' = "store"
  /\ UNCHANGED <<history, cap, frame_w, video, wire, client, viewing, clicks, injector, lost>>

(* The desktop cannot be opened, or a system call fails: most of these ways *)
(* out release the buffers, some leave them, rebuilt or not.                *)
CaptureFails ==
  /\ viewer # "closed" /\ capture_loop \in {"capture", "blit"}
  /\ cap' \in {NoBuffers, cap}
  /\ capture_loop' = "capture"
  /\ UNCHANGED <<history, last_rgb, frame, frame_w, video, wire, client, viewing, clicks, injector,
                 lost>>

MutantStoreSize ==
  /\ viewer # "closed" /\ capture_loop = "store"
  /\ frame_w' = cap.w
  /\ capture_loop' = "send"
  /\ UNCHANGED <<history, cap, last_rgb, frame, video, wire, client, viewing, clicks, injector, lost>>

StoreSize ==
  /\ viewer # "closed" /\ capture_loop = "store"
  /\ frame_w' = Scaled(cap.w)
  /\ capture_loop' = "send"
  /\ UNCHANGED <<history, cap, last_rgb, frame, video, wire, client, viewing, clicks, injector, lost>>

(* try_send on the bounded queue: without room the message is gone.         *)
TrySend(m) ==
  IF Len(video) < VideoCap
  THEN /\ video' = Append(video, m)
       /\ lost' = (lost /\ m = Cursor)
  ELSE /\ lost' = (lost \/ m # Cursor)
       /\ UNCHANGED video

SendFrame ==
  /\ viewer # "closed" /\ capture_loop = "send"
  /\ IF frame.kind = "none" THEN UNCHANGED <<video, lost>> ELSE TrySend(frame)
  /\ capture_loop' = "capture" /\ frame' = Cursor
  /\ UNCHANGED <<history, cap, last_rgb, frame_w, wire, client, viewing, clicks, injector>>

-----------------------------------------------------------------------------
(* The writer and the client's reader.                                      *)

MutantWriterTakesNewest ==
  /\ viewer # "closed" /\ video # <<>> /\ Len(wire) < MaxWire
  /\ wire' = Append(wire, Last(video))
  /\ video' = Front(video)
  /\ UNCHANGED <<history, capturer, frame_w, client, viewing, clicks, injector, lost>>

WriterTakes ==
  /\ viewer # "closed" /\ video # <<>> /\ Len(wire) < MaxWire
  /\ wire' = Append(wire, Head(video))
  /\ video' = Tail(video)
  /\ UNCHANGED <<history, capturer, frame_w, client, viewing, clicks, injector, lost>>

(* A message without a picture changes no more than the pointer's place.    *)
ClientReads ==
  /\ viewer # "closed" /\ wire # <<>>
  /\ wire' = Tail(wire)
  /\ IF Head(wire) = Cursor THEN UNCHANGED client
     ELSE latest' = Head(wire) /\ frame_seq' = frame_seq + 1
  /\ UNCHANGED <<history, capturer, frame_w, video, viewing, clicks, injector, lost>>

-----------------------------------------------------------------------------
(* The viewer.                                                              *)

(* wait_frame gives the latest frame, a newer one or, after 8 s, the one    *)
(* that was there before.                                                   *)
FirstFrame ==
  /\ viewer = "first" /\ latest # None
  /\ viewer' = "look" /\ img' = latest
  /\ UNCHANGED <<history, capturer, frame_w, video, wire, client, seq, last_drawn_seq,
                 clicks, injector, lost>>

(* The number of the latest frame is read first ...                         *)
Look ==
  /\ viewer = "look" /\ frame_seq # last_drawn_seq
  /\ viewer' = "take" /\ seq' = frame_seq
  /\ UNCHANGED <<history, capturer, frame_w, video, wire, client, last_drawn_seq, img,
                 clicks, injector, lost>>

(* ... and then the frame, which may be a newer one by then.                *)
TakeFrame ==
  /\ viewer = "take"
  /\ viewer' = "look" /\ img' = latest /\ last_drawn_seq' = seq
  /\ UNCHANGED <<history, capturer, frame_w, video, wire, client, seq, clicks, injector, lost>>

(* No frame within 8 s, the window is closed, or the connection is dead.    *)
(* What goes on at the other end until the session is over is seen by       *)
(* nobody; only the events the input thread has in hand are kept.           *)
LeaveViewer ==
  /\ viewer # "closed"
  /\ viewer' = "closed"
  /\ cap' = NoBuffers /\ last_rgb' = None /\ capture_loop' = "capture" /\ frame' = Cursor
  /\ video' = <<>> /\ wire' = <<>> /\ clicks' = <<>> /\ lost' = FALSE
  /\ latest' = None /\ frame_seq' = 0 /\ seq' = 0 /\ last_drawn_seq' = 0
  /\ UNCHANGED <<history, frame_w, img, injector>>

(* A mouse event is sent with the column of the picture it is at.           *)
Click ==
  /\ viewer = "look" /\ Len(clicks) + Len(batch) < MaxClicks
  /\ \E x \in Columns :
       /\ x < img.w
       /\ clicks' = Append(clicks, [of |-> img.of, w |-> img.w, cw |-> img.cw, shift |-> img.shift,
                                    x |-> x])
  /\ UNCHANGED <<history, capturer, frame_w, video, wire, client, viewing, injector, lost>>

-----------------------------------------------------------------------------
(* The input thread: one size for a whole batch, and the screen's own width *)
(* and origin anew for each event.                                          *)
TakeBatch ==
  /\ viewer # "closed" /\ batch = <<>> /\ clicks # <<>>
  /\ LET n == IF Len(clicks) < BatchMax THEN Len(clicks) ELSE BatchMax
     IN /\ batch' = SubSeq(clicks, 1, n)
        /\ clicks' = SubSeq(clicks, n + 1, Len(clicks))
  /\ fsize' = frame_w
  /\ UNCHANGED <<history, capturer, frame_w, video, wire, client, viewing, lost>>

Smaller(a, b) == IF a < b THEN a ELSE b

(* A column of the desktop as one of SendInput's steps across it, and the   *)
(* column that Windows makes of such a step: both round down.               *)
norm(v, size) == (Smaller(v, size - 1) * (Steps - 1)) \div (IF size > 2 THEN size - 1 ELSE 1)
PixelOf(n, size) == (n * size) \div Steps

InjectedAt(x) ==
  LET fw == IF fsize = 0 THEN 1 ELSE fsize
      fx == (Smaller(x, fw - 1) * screen.w) \div fw
  IN screen.at + PixelOf(norm(fx, screen.w), screen.w)

(* SendInput at InjectedAt; nothing here depends on the pointer's place.     *)
Inject ==
  /\ batch # <<>>
  /\ batch' = Tail(batch)
  /\ fsize' = IF batch' = <<>> THEN 0 ELSE fsize
  /\ UNCHANGED <<history, capturer, frame_w, video, wire, client, viewing, clicks, lost>>

-----------------------------------------------------------------------------
CaptureLoop == Rebuild \/ Capture \/ CaptureFails \/ StoreSize \/ SendFrame
Viewer == FirstFrame \/ Look \/ TakeFrame \/ LeaveViewer \/ Click
InputLoop == TakeBatch \/ Inject

Next == ScreenChanges \/ CaptureLoop \/ WriterTakes \/ ClientReads \/ Viewer \/ InputLoop

Spec == Init /\ [][Next]_vars

(* Every loop goes round, and a capture that may fail succeeds at last.     *)
Fairness ==
  /\ WF_vars(Rebuild) /\ SF_vars(Capture) /\ WF_vars(StoreSize) /\ WF_vars(SendFrame)
  /\ WF_vars(WriterTakes) /\ WF_vars(ClientReads)
  /\ WF_vars(FirstFrame) /\ WF_vars(Look) /\ WF_vars(TakeFrame)

FairSpec == Spec /\ Fairness

-----------------------------------------------------------------------------
(* The picture is a mirror with a delay: each one shown was on the screen,  *)
(* and dropped frames, the two queues and the viewer's separate looks at    *)
(* number and frame never bring an older one back.                          *)
Shown == IF img = None THEN 0 ELSE img.of
Mirrored == INSTANCE Mirror WITH States <- Screens, shown <- Shown
MirrorSpec == Mirrored!Spec

(* When the screen rests, the viewer ends up with what the capturer sees of *)
(* it, in the right size, unless the last picture found the queue full: the *)
(* capturer has then already noted it as sent (capture.rs, last_rgb) and    *)
(* does not send it again.                                                  *)
Rests == [what |-> screen.what, w |-> Scaled(screen.w), cw |-> screen.w,
          shift |-> Rebuilt.at - screen.at]
LatestShown ==
  <>[](viewer = "closed" \/ lost \/ (img # None /\ Rgb(img) = Rests))

(* A click lands on a pixel that its column of the picture was made from,   *)
(* or on the one to the left of them, and never left of the screen, if the  *)
(* monitors have not changed since that picture was taken and it was taken  *)
(* with the screen's own width and origin: then no frame size read for a    *)
(* batch is an outdated one, and the four roundings on the way lose one     *)
(* pixel at most (input.rs, inject_mouse). The README says more, that both  *)
(* places agree strictly (README.md:13): from 257 columns on they may not.  *)
MadeFrom(c) ==
  LET s == history[c.of]
      from == (c.x * s.w) \div c.w
      to == ((c.x + 1) * s.w + c.w - 1) \div c.w
  IN {s.at + p : p \in from .. to - 1}
SameMonitors(n) ==
  \A k \in n .. Len(history) : history[k].w = history[n].w /\ history[k].at = history[n].at
Whole(m) == m.cw = history[m.of].w
Near(c) == MadeFrom(c) \cup {p \in {q - 1 : q \in MadeFrom(c)} : p >= history[c.of].at}
ClicksLand ==
  [][batch # <<>> /\ batch' = Tail(batch) =>
       LET c == Head(batch)
       IN SameMonitors(c.of) /\ Whole(c) /\ c.shift = 0 => InjectedAt(c.x) \in Near(c)]_vars
=============================================================================
