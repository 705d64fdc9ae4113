------------------------------- MODULE Input -------------------------------
(***************************************************************************)
(* Keys and mouse buttons of one session: the keyboard and mouse parts of  *)
(* run_viewer (rcontrol_client/src/view.rs), the read loop's share of them *)
(* (rcontrol_server/src/worker.rs) and the thread that injects them        *)
(* (rcontrol_server/src/input.rs).                                         *)
(*                                                                         *)
(* The viewer looks at what is down sixty times a second, compares that    *)
(* with what it remembers, and sends the differences. Positions are left   *)
(* out, so that a mouse move or a wheel step changes nothing here.         *)
(***************************************************************************)
EXTENDS Naturals, SequencesExt

CONSTANTS
  Table,       (* the keys in the order of keys.rs: a sequence               *)
  Btns,        (* the mouse buttons in the order of view.rs: a sequence      *)
  Ctrls, Shifts, Alts,   (* the keys that count as Ctrl, Shift and Alt       *)
  Delete, Insert, F9, Escape,   (* the keys with a meaning of their own      *)
  Left,        (* the button that drags a scroll bar                         *)
  BatchMax,    (* events the input thread takes at once; 64 in the code      *)
  MaxWire,     (* bound: messages the sockets hold before the viewer waits   *)
  MaxQueue,    (* bound: events in the queue of the input thread             *)
  MaxActs      (* bound: things the person and the system do                 *)

Keys == Range(Table)
Buttons == Range(Btns)
Inputs == Keys \cup Buttons
Zones == {"view", "bar", "outside", "minimized"}
Desktops == {"Default", "Winlogon"}

ASSUME InputAssumption ==
  /\ Table \in Seq(Keys) /\ Btns \in Seq(Buttons) /\ Keys \cap Buttons = {}
  /\ Left \in Buttons
  /\ Ctrls \cup Shifts \cup Alts \subseteq Keys
  /\ {BatchMax, MaxQueue} \subseteq Nat \ {0} /\ {MaxWire, MaxActs} \subseteq Nat

VARIABLES
  view_only, system_priv,  (* of this session; they do not change            *)
  held,        (* what the person holds down                                 *)
  focus,       (* the viewer's window has the keyboard                       *)
  zone,        (* where in the window the pointer is, or "minimized"         *)
  window_down, (* what is_key_down and get_mouse_down report                 *)
  window_seen, (* what they reported one frame ago, for is_key_pressed       *)
  viewer,      (* "open" or "closed"                                         *)
  pressed, swallowed, mouse_btn, btn_sent, grab,  (* of run_viewer            *)
  wire,        (* messages on their way to the worker                        *)
  cfg_view_only,   (* the worker's cfg.view_only                             *)
  input_rx,    (* the queue of the input thread                              *)
  stopped,     (* the session is over                                        *)
  input,       (* the input thread: "loop" or "done"                         *)
  desktop,     (* the desktop that receives input                            *)
  desk_name,   (* the one the input thread is attached to                    *)
  remote,      (* what is down on the controlled machine                     *)
  acts,        (* things done so far                                         *)
  (* history, read by the properties only *)
  strayed,     (* let go of where the window did not notice                  *)
  missed       (* the last event of it found the thread on the wrong desktop *)

fixed == <<view_only, system_priv>>
person == <<held, focus, zone, window_down, strayed, acts>>
frame == <<window_seen, viewer, pressed, swallowed, mouse_btn, btn_sent, grab>>
worker == <<cfg_view_only, input_rx, input>>
machine == <<desktop, desk_name, remote, missed>>
vars == <<fixed, person, frame, wire, worker, stopped, machine>>

Config == [kind |-> "config"]
Sas == [kind |-> "sas"]
Event(i, down) == [kind |-> "input", of |-> i, down |-> down]
InputEvents == {Event(i, down) : i \in Inputs, down \in BOOLEAN}

TypeOK ==
  /\ {view_only, system_priv, focus, grab, cfg_view_only, stopped} \subseteq BOOLEAN
  /\ desktop \in Desktops /\ desk_name \in Desktops \cup {"none"}
  /\ held \subseteq Inputs /\ window_down \subseteq Inputs /\ window_seen \subseteq Inputs
  /\ zone \in Zones /\ viewer \in {"open", "closed"}
  /\ pressed \subseteq Keys /\ swallowed \subseteq pressed
  /\ mouse_btn \subseteq Buttons /\ btn_sent \subseteq mouse_btn
  /\ wire \in Seq(InputEvents \cup {Config, Sas})
  /\ input_rx \in Seq(InputEvents \cup {Sas}) /\ Len(input_rx) <= MaxQueue
  /\ input \in {"loop", "done"}
  /\ remote \subseteq Inputs /\ missed \subseteq Inputs /\ strayed \subseteq window_down
  /\ acts \in 0 .. MaxActs

Init ==
  /\ view_only \in BOOLEAN /\ system_priv \in BOOLEAN /\ cfg_view_only \in BOOLEAN
  /\ held = {} /\ window_down = {} /\ window_seen = {} /\ strayed = {}
  /\ focus = TRUE /\ zone = "view" /\ viewer = "open"
  /\ pressed = {} /\ swallowed = {} /\ mouse_btn = {} /\ btn_sent = {} /\ grab = FALSE
  /\ wire = <<Config>> /\ input_rx = <<>> /\ input = "loop"
  /\ stopped = FALSE /\ desktop = "Default" /\ desk_name = "none"
  /\ remote = {} /\ missed = {} /\ acts = 0

-----------------------------------------------------------------------------
(* The person and the window system: what the window reports follows what   *)
(* happens while it has the focus, and nothing else.                        *)

(* What happens after the viewer has ended is no longer seen.               *)
Act ==
  /\ viewer = "open" /\ ~stopped
  /\ acts < MaxActs /\ acts' = acts + 1

Press(i) ==
  /\ Act /\ focus /\ i \notin held
  /\ i \in Buttons => zone \in {"view", "bar"}
  /\ held' = held \cup {i}
  /\ window_down' = window_down \cup {i}
  /\ UNCHANGED <<fixed, focus, zone, strayed, frame, wire, worker, stopped, machine>>

(* A key released in another window is not reported; of a button released   *)
(* outside the window, the window may or may not hear.                      *)
Noticed(i) ==
  /\ window_down' = window_down \ {i}
  /\ strayed' = strayed \ {i}

Unnoticed(i) ==
  /\ ~focus \/ (i \in Buttons /\ zone \in {"outside", "minimized"})
  /\ strayed' = strayed \cup {i}
  /\ UNCHANGED window_down

Release(i) ==
  /\ Act /\ i \in held
  /\ held' = held \ {i}
  /\ \/ (focus \/ i \in Buttons) /\ Noticed(i)
     \/ Unnoticed(i)
  /\ UNCHANGED <<fixed, focus, zone, frame, wire, worker, stopped, machine>>

SwitchWindow ==
  /\ Act
  /\ focus' = ~focus
  /\ zone' \in CASE focus -> {zone, "minimized"}
                [] zone = "minimized" -> {"view"}
                [] OTHER -> {zone}
  /\ UNCHANGED <<fixed, held, window_down, strayed, frame, wire, worker, stopped, machine>>

MovePointer ==
  /\ Act /\ zone # "minimized"
  /\ zone' \in {"view", "bar", "outside"} \ {zone}
  /\ UNCHANGED <<fixed, held, focus, window_down, strayed, frame, wire, worker, stopped, machine>>

(* Lock, log in, a consent prompt: input goes to another desktop.            *)
SwitchDesktop ==
  /\ Act
  /\ desktop' \in Desktops \ {desktop}
  /\ UNCHANGED <<fixed, held, focus, zone, window_down, strayed, frame, wire, worker, stopped,
                 desk_name, remote, missed>>

-----------------------------------------------------------------------------
(* One frame of the viewer's loop.                                          *)

Newly == window_down \ window_seen
ctrl == window_down \cap Ctrls # {}
shift == window_down \cap Shifts # {}
alt == window_down \cap Alts # {}

(* Without the focus everything pressed is released ...                     *)
FocusLost == ~focus /\ pressed # {}
MutantKept == pressed
Kept == IF FocusLost THEN {} ELSE pressed
KeptSwallowed == IF FocusLost THEN {} ELSE swallowed
ReleaseSends ==
  IF FocusLost
  THEN FlattenSeq([n \in DOMAIN Table |->
         IF Table[n] \in pressed THEN <<Event(Table[n], FALSE)>> ELSE <<>>])
  ELSE <<>>

(* ... Alt+Ctrl+Insert asks for the secure attention sequence ...           *)
InsertSends == IF alt /\ ctrl /\ Insert \in Newly /\ system_priv THEN <<Sas>> ELSE <<>>

(* ... and each key that differs from what is remembered is sent, unless it *)
(* is one of the local hotkeys.                                             *)
IsSas(k) == k = Delete /\ ctrl /\ shift /\ system_priv
Swallow(k) == IsSas(k) \/ k = F9

KeySends(k) ==
  CASE k \in window_down \ Kept -> IF IsSas(k) THEN <<Sas>>
                                   ELSE IF k = F9 THEN <<>> ELSE <<Event(k, TRUE)>>
    [] k \in Kept \ window_down -> IF k \in KeptSwallowed THEN <<>> ELSE <<Event(k, FALSE)>>
    [] OTHER -> <<>>

MutantKeyboardContinues ==
  IF view_only
  THEN pressed' = Kept /\ swallowed' = KeptSwallowed
  ELSE /\ pressed' = (window_down \cap Keys) \ {k \in Keys \ Kept : IsSas(k)}
       /\ swallowed' = KeptSwallowed \cap window_down

Keyboard ==
  IF view_only
  THEN pressed' = Kept /\ swallowed' = KeptSwallowed
  ELSE /\ pressed' = window_down \cap Keys
       /\ swallowed' = (KeptSwallowed \cap window_down)
                         \cup {k \in (window_down \cap Keys) \ Kept : Swallow(k)}

KeyboardSends ==
  IF view_only THEN <<>> ELSE FlattenSeq([n \in DOMAIN Table |-> KeySends(Table[n])])

(* The mouse, unless the window is minimized. While a scroll bar is dragged *)
(* no button is looked at. A press is forwarded when it is on the picture,  *)
(* a release when the press was.                                            *)
Dragging == grab /\ Left \in window_down
Looks == zone # "minimized" /\ ~Dragging
WentDown == (window_down \cap Buttons) \ mouse_btn
WentUp == mouse_btn \ window_down
Forwards == ~view_only /\ zone = "view"

MutantButtonSends(b) ==
  CASE b \in WentDown /\ Forwards -> <<Event(b, TRUE)>>
    [] b \in WentUp \cap btn_sent /\ Forwards -> <<Event(b, FALSE)>>
    [] OTHER -> <<>>

ButtonSends(b) ==
  CASE b \in WentDown /\ Forwards -> <<Event(b, TRUE)>>
    [] b \in WentUp \cap btn_sent -> <<Event(b, FALSE)>>
    [] OTHER -> <<>>

Mouse ==
  IF Looks
  THEN /\ mouse_btn' = window_down \cap Buttons
       /\ btn_sent' = (btn_sent \ WentUp) \cup (IF Forwards THEN WentDown ELSE {})
       /\ grab' \in {FALSE, (Left \in WentDown /\ zone = "bar")}
  ELSE UNCHANGED <<mouse_btn, btn_sent, grab>>

MouseSends ==
  IF Looks THEN FlattenSeq([n \in DOMAIN Btns |-> ButtonSends(Btns[n])]) ELSE <<>>

(* send waits while the sockets are full; what the worker reads during the  *)
(* writes of one frame it may as well read after them.                      *)
Send(msgs) ==
  /\ wire = <<>> \/ Len(wire) + Len(msgs) <= MaxWire
  /\ wire' = wire \o msgs

Iterate ==
  /\ viewer = "open" /\ ~stopped /\ Escape \notin Newly
  /\ Send(ReleaseSends \o InsertSends \o KeyboardSends \o MouseSends)
  /\ Keyboard
  /\ Mouse
  /\ window_seen' = window_down
  /\ UNCHANGED <<fixed, person, viewer, worker, stopped, machine>>

(* run_viewer returns: its variables are gone, and nothing is sent.         *)
Return ==
  /\ viewer' = "closed"
  /\ window_down' = {} /\ window_seen' = {} /\ strayed' = {}
  /\ pressed' = {} /\ swallowed' = {} /\ mouse_btn' = {} /\ btn_sent' = {} /\ grab' = FALSE
  /\ UNCHANGED <<fixed, held, focus, zone, acts, worker, stopped, machine>>

(* Esc ends the loop before the keys are looked at.                         *)
Escaped ==
  /\ viewer = "open" /\ ~stopped /\ Escape \in Newly
  /\ Send(ReleaseSends)
  /\ Return

(* The window is closed, or the connection is found dead.                   *)
CloseViewer ==
  /\ viewer = "open"
  /\ Return
  /\ UNCHANGED wire

-----------------------------------------------------------------------------
(* The worker.                                                              *)

(* The read loop takes one message. A SAS is passed on whatever view_only   *)
(* says; the client sends none without system_priv.                         *)
ServerReads ==
  /\ ~stopped /\ wire # <<>> /\ Len(input_rx) < MaxQueue
  /\ wire' = Tail(wire)
  /\ \/ /\ Head(wire) = Config
        /\ cfg_view_only' = view_only
        /\ UNCHANGED input_rx
     \/ /\ Head(wire) # Config
        /\ input_rx' = IF Head(wire) # Sas /\ cfg_view_only THEN input_rx
                       ELSE Append(input_rx, Head(wire))
        /\ UNCHANGED cfg_view_only
  /\ UNCHANGED <<fixed, person, frame, input, stopped, machine>>

(* The connection breaks, times out, or the read loop meets an error.       *)
SessionEnds ==
  /\ ~stopped
  /\ stopped' = TRUE /\ wire' = <<>>
  /\ UNCHANGED <<fixed, person, frame, worker, machine>>

(* DesktopState::ensure: nothing when it has looked a moment ago or the     *)
(* system refuses, else the thread moves to the desktop that has the input. *)
Ensure == desk_name' \in {desk_name, desktop}

(* What is down once the events of msgs have happened to what was.          *)
After(down, msgs) ==
  {i \in Inputs :
     LET of == {n \in DOMAIN msgs : msgs[n].kind = "input" /\ msgs[n].of = i}
     IN IF of = {} THEN i \in down ELSE msgs[Max(of)].down}
Mentioned(msgs) == {msgs[n].of : n \in {m \in DOMAIN msgs : msgs[m].kind = "input"}}

(* A batch is injected; on the wrong desktop it has no effect.              *)
Inject ==
  /\ input_rx # <<>>
  /\ LET n == IF Len(input_rx) < BatchMax THEN Len(input_rx) ELSE BatchMax
         batch == SubSeq(input_rx, 1, n)
     IN /\ Ensure
        /\ input_rx' = SubSeq(input_rx, n + 1, Len(input_rx))
        /\ IF desk_name' = desktop
           THEN /\ remote' = After(remote, batch)
                /\ missed' = missed \ Mentioned(batch)
           ELSE /\ missed' = missed \cup Mentioned(batch)
                /\ UNCHANGED remote

InjectBatch ==
  /\ input = "loop" /\ ~stopped
  /\ Inject
  /\ UNCHANGED <<fixed, person, frame, wire, cfg_view_only, input, stopped, desktop>>

(* recv_timeout: nothing came for 500 ms.                                   *)
InputIdle ==
  /\ input = "loop" /\ ~stopped /\ input_rx = <<>>
  /\ Ensure
  /\ UNCHANGED <<fixed, person, frame, wire, worker, stopped, desktop, remote, missed>>

(* The thread sees the stop flag, or that its sender is gone; if it was     *)
(* waiting when the flag was set, one more batch may come first.            *)
InputEnds ==
  /\ input = "loop" /\ stopped
  /\ input' = "done"
  /\ Inject \/ UNCHANGED <<input_rx, desk_name, remote, missed>>
  /\ UNCHANGED <<fixed, person, frame, wire, cfg_view_only, stopped, desktop>>

-----------------------------------------------------------------------------
Person == \/ \E i \in Inputs : Press(i) \/ Release(i)
          \/ SwitchWindow \/ MovePointer
Viewer == Iterate \/ Escaped \/ CloseViewer
InputLoop == InjectBatch \/ InputIdle \/ InputEnds

Next == Person \/ SwitchDesktop \/ Viewer \/ ServerReads \/ SessionEnds \/ InputLoop

Spec == Init /\ [][Next]_vars

(* The viewer's loop, the read loop and the input thread go round.          *)
Fairness ==
  /\ WF_vars(Iterate) /\ WF_vars(Escaped)
  /\ WF_vars(ServerReads)
  /\ WF_vars(InputLoop)

FairSpec == Spec /\ Fairness

-----------------------------------------------------------------------------
(* What the viewer believes to be down on the controlled machine.           *)
Believed == (pressed \ swallowed) \cup btn_sent

(* While viewer and session stand, what is down there, once everything under *)
(* way has been injected, is what the viewer believes, except inputs whose  *)
(* last event met the wrong desktop: each press is followed by its release, *)
(* a swallowed key is swallowed in both directions, and no event is lost or *)
(* overtaken between the loop, the socket, the queue and the batch.         *)
ViewerKnows ==
  viewer = "open" /\ ~stopped =>
    LET pending == input_rx \o wire
        settled == After(remote, pending)
    IN \A i \in Inputs \ (missed \ Mentioned(pending)) : i \in settled <=> i \in Believed

(* The secure attention sequence is asked for once per press: of Delete or  *)
(* Insert, that is, since the frame before. Only a window that lost the     *)
(* focus with Delete down asks again.                                       *)
Asks(msgs) == \E n \in DOMAIN msgs : msgs[n] = Sas
SasOncePerPress ==
  [][Len(wire') > Len(wire) /\ Asks(SubSeq(wire', Len(wire) + 1, Len(wire')))
       => \/ Newly \cap {Delete, Insert} # {}
          \/ FocusLost /\ Delete \in pressed]_vars

(* When the person rests, only what is still held stays down over there, or *)
(* what was let go of where the window did not notice or whose event met    *)
(* the wrong desktop, unless the viewer left or the session ended before.   *)
(* Buttons wait for the end of a drag and for a minimized window to return. *)
LettingGoArrives ==
  <>[](\/ viewer = "closed" \/ stopped
       \/ remote \subseteq held \cup strayed \cup missed \cup (IF Looks THEN {} ELSE Buttons))
=============================================================================
