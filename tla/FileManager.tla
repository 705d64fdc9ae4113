----------------------------- MODULE FileManager -----------------------------
(***************************************************************************)
(* The file manager of the client, rcontrol_client/src/files_ui.rs: the    *)
(* thread of its window with the message loops nested in it, and the       *)
(* worker thread that does what the window asks for.                       *)
(*                                                                         *)
(* A handler that puts a question waits in a message loop of its own,      *)
(* which goes on dispatching the window's timer and, unless the question   *)
(* disables the window, its buttons: the thread's stack holds a frame for  *)
(* each loop.  Directories stand for paths; the files one may select in a  *)
(* directory are there or not all together.                                *)
(***************************************************************************)
EXTENDS Naturals, Sequences, FiniteSets, SequencesExt

CONSTANTS
  Dirs,       (* directories, of either machine                        *)
  Root,       (* the empty path: the list of drives                    *)
  Home,       (* default_local_dir                                     *)
  Boxes,      (* window handles of input boxes                         *)
  None,
  MaxOpens,   (* bound: windows opened one after the other             *)
  MaxBatch,   (* bound: files in a selection                           *)
  MaxDepth,   (* bound: frames when a button is pressed                *)
  MaxLists,   (* bound: directories asked for, input boxes             *)
  MaxActs,    (* bound: transfers, deletions, input boxes              *)
  MaxFaults   (* bound: failing requests, lost connection              *)

ASSUME FileManagerAssumption ==
  /\ Home \in Dirs /\ Root \notin Dirs
  /\ None \notin Boxes
  /\ {MaxOpens, MaxBatch, MaxDepth, MaxLists, MaxActs, MaxFaults} \subseteq Nat

VARIABLES
  open_once,  (* OPEN_ONCE: a window is open or being closed            *)
  cur,        (* number of the latest window and its worker             *)
  live,       (* its FmState exists                                     *)
  stack,      (* message loops of its thread, innermost last            *)
  quit,       (* PostQuitMessage was called and no loop has taken it    *)
  path, shown,  (* of each pane: its path; whether files are listed     *)
  pending, buttons,  (* FmState.pending; the transfer buttons work      *)
  boxes,      (* input boxes on the screen                              *)
  slot,       (* IB_RESULT: the box whose text it holds, or None        *)
  tasks,      (* of each worker: the channel to it                      *)
  todo,       (* what is left of its current task                       *)
  updates,    (* the channel back                                       *)
  last,       (* last_remote and last_local                             *)
  worker,     (* none, running or gone                                  *)
  dead,       (* its connection is dead                                 *)
  files,      (* of each side: the directories that hold the files      *)
  undefined,  (* a handler went on with a state that was freed          *)
  agreed,     (* history: boxes the person pressed OK in                *)
  crossed,    (* history: two boxes were on the screen at once          *)
  overlapped, (* history: transfers were started with others pending in this window *)
  orphaned,   (* history: the window was closed under an input box      *)
  lists, acts, faults

pane == <<path, shown, pending, buttons>>
thread == <<open_once, cur, live, stack, quit>>
work == <<tasks, todo, updates, last, worker, dead, files>>
history == <<undefined, agreed, crossed, overlapped, orphaned>>
bounds == <<lists, acts, faults>>
vars == <<thread, pane, boxes, slot, work, history, bounds>>

Sides == {"remote", "local"}
Other(s) == IF s = "remote" THEN "local" ELSE "remote"
Paths == Dirs \cup {Root}
Workers == 1 .. MaxOpens

\* What a handler is about: the side and the directory of the files and, for a transfer,
\* the directory on the other side.
Job == [op: {"transfer"}, side: Sides, from: Paths, to: Paths, n: 1 .. MaxBatch]
         \cup [op: {"remove", "edit"}, side: Sides, from: Paths]

\* moved: a listing arrived while the question was on the screen.
Frame == [kind: {"loop", "alert", "ask", "box"}, ans: {"open", "yes", "no"},
          job: Job \cup {None}, box: Boxes \cup {None}, moved: BOOLEAN]

Task == [op: {"transfer"}, side: Sides, from: Paths, to: Paths]
     \cup [op: {"remove", "edit", "list"}, side: Sides, from: Paths]

Update == [what: {"listing"}, side: Sides, dir: Paths, shown: BOOLEAN]
       \cup [what: {"done", "error"}]

Step == Task \cup [op: {"refresh"}, side: Sides]

TypeOK ==
  /\ {open_once, live, quit, buttons, undefined, crossed, overlapped, orphaned} \subseteq BOOLEAN
  /\ cur \in 0 .. MaxOpens
  /\ stack \in Seq(Frame)
  /\ path \in [Sides -> Paths] /\ shown \in [Sides -> BOOLEAN]
  /\ pending \in 0 .. MaxBatch
  /\ boxes \subseteq Boxes /\ agreed \subseteq Boxes /\ slot \in Boxes \cup {None}
  /\ tasks \in [Workers -> Seq(Task)] /\ todo \in [Workers -> Seq(Step)]
  /\ updates \in [Workers -> Seq(Update)]
  /\ last \in [Workers -> [Sides -> Paths]]
  /\ worker \in [Workers -> {"none", "running", "gone"}]
  /\ dead \in [Workers -> BOOLEAN]
  /\ files \in [Sides -> SUBSET Dirs]
  /\ lists \in 0 .. MaxLists /\ acts \in 0 .. MaxActs /\ faults \in 0 .. MaxFaults

FirstPath == [s \in Sides |-> IF s = "remote" THEN Root ELSE Home]
Loop(kind, job, box) ==
  [kind |-> kind, ans |-> "open", job |-> job, box |-> box, moved |-> FALSE]

Init ==
  /\ open_once = FALSE /\ cur = 0 /\ live = FALSE /\ stack = <<>> /\ quit = FALSE
  /\ path = FirstPath /\ shown = [s \in Sides |-> FALSE]
  /\ pending = 0 /\ buttons = TRUE
  /\ boxes = {} /\ slot = None
  /\ tasks = [w \in Workers |-> <<>>] /\ todo = [w \in Workers |-> <<>>]
  /\ updates = [w \in Workers |-> <<>>]
  /\ last = [w \in Workers |-> FirstPath]
  /\ worker = [w \in Workers |-> "none"]
  /\ dead = [w \in Workers |-> FALSE]
  /\ files \in [Sides -> SUBSET Dirs]
  /\ undefined = FALSE /\ agreed = {} /\ crossed = FALSE
  /\ overlapped = FALSE /\ orphaned = FALSE
  /\ lists = 0 /\ acts = 0 /\ faults = 0

Act == acts < MaxActs /\ acts' = acts + 1 /\ UNCHANGED faults
Browse == lists < MaxLists /\ lists' = lists + 1 /\ UNCHANGED faults
Fault == faults < MaxFaults /\ faults' = faults + 1

-----------------------------------------------------------------------------
(* The window's thread                                                     *)

Running == stack # <<>> /\ ~undefined
Top == stack[Len(stack)]
Below == SubSeq(stack, 1, Len(stack) - 1)

\* Its innermost loop waits for messages.
Idle == Running /\ ~quit /\ Top.ans = "open"

\* A question disables the window until it is answered; errors and input boxes do not.
Enabled == live /\ Idle /\ ~\E i \in DOMAIN stack : stack[i].kind = "ask" /\ stack[i].ans = "open"

NewPanes ==
  /\ path' = FirstPath /\ shown' = [s \in Sides |-> FALSE]
  /\ pending' = 0 /\ buttons' = TRUE

List(s, d) == [op |-> "list", side |-> s, from |-> d]
Send(w, new) == tasks' = [tasks EXCEPT ![w] = @ \o new]

\* F9 in the viewer: ignored while a window is open.
Open ==
  /\ ~open_once /\ ~undefined
  /\ cur < MaxOpens /\ cur' = cur + 1
  /\ open_once' = TRUE /\ live' = TRUE
  /\ stack' = <<Loop("loop", None, None)>> /\ quit' = FALSE
  /\ NewPanes
  /\ worker' = [worker EXCEPT ![cur'] = "running"]
  /\ todo' = [todo EXCEPT ![cur'] = <<List("remote", Root), List("local", Home)>>]
  /\ orphaned' = FALSE
  /\ UNCHANGED <<boxes, slot, tasks, updates, last, dead, files, undefined, agreed,
                 crossed, overlapped, bounds>>

\* WM_DESTROY: the FmState is freed. The input boxes, which the window owns, go first; each
\* takes its handler's answer away and posts a quit of its own, but there is one flag for
\* all.
CloseWindow ==
  /\ Enabled
  /\ live' = FALSE /\ quit' = TRUE /\ NewPanes
  /\ boxes' = {}
  /\ slot' = IF boxes = {} THEN slot ELSE None
  /\ agreed' = {} /\ crossed' = FALSE /\ overlapped' = FALSE
  /\ orphaned' = \E i \in DOMAIN stack : stack[i].kind = "box"
  /\ updates' = [updates EXCEPT ![cur] = <<>>]
  /\ UNCHANGED <<open_once, cur, stack, tasks, todo, last, worker, dead, files, undefined,
                 bounds>>

\* Opening an entry, its parent, the path in the edit field, or the same again.
navigate(s, d) ==
  /\ Enabled
  /\ Browse /\ UNCHANGED acts
  /\ Send(cur, <<List(s, d)>>)
  /\ UNCHANGED <<thread, pane, boxes, slot, todo, updates, last, worker, dead, files,
                 history>>

Push(frame) == stack' = Append(stack, frame)

-----------------------------------------------------------------------------
(* Transfers, deletion, and the question before them                       *)

\* The files that were selected, between the directories that the panes show now.
Transfers(s, n) ==
  [i \in 1 .. n |-> [op |-> "transfer", side |-> s, from |-> path[s], to |-> path[Other(s)]]]

StartTransfers(s, n) ==
  /\ pending' = n /\ buttons' = FALSE
  /\ overlapped' = (overlapped \/ pending > 0)
  /\ Send(cur, Transfers(s, n))

\* Files of the same names are in the target: on this machine the file system is asked,
\* for the other the listing.
Overwrites(s) ==
  IF s = "remote" THEN path["local"] \in files["local"] ELSE shown["remote"]

MutantTransferUnguarded(s, n) ==
  /\ Enabled /\ Act /\ UNCHANGED lists /\ Len(stack) < MaxDepth
  /\ shown[s] /\ path[Other(s)] # Root
  /\ LET job == [op |-> "transfer", side |-> s, from |-> path[s], to |-> path[Other(s)], n |-> n]
     IN IF Overwrites(s)
        THEN /\ Push(Loop("ask", job, None))
             /\ UNCHANGED <<pending, buttons, tasks, overlapped>>
        ELSE /\ pending' = n /\ buttons' = FALSE /\ UNCHANGED <<stack, overlapped>>
             /\ Send(cur, Transfers(s, n))
  /\ UNCHANGED <<open_once, cur, live, quit, path, shown, boxes, slot, todo, updates, last,
                 worker, dead, files, undefined, agreed, crossed, orphaned>>

\* on_download (s = "remote") and on_upload: the selected files of one side to the
\* directory of the other.
Transfer(s, n) ==
  /\ Enabled /\ buttons /\ pending = 0 /\ Act /\ UNCHANGED lists /\ Len(stack) < MaxDepth
  /\ shown[s] /\ path[Other(s)] # Root
  /\ LET job == [op |-> "transfer", side |-> s, from |-> path[s], to |-> path[Other(s)], n |-> n]
     IN IF Overwrites(s)
        THEN /\ Push(Loop("ask", job, None))
             /\ UNCHANGED <<pending, buttons, tasks, overlapped>>
        ELSE StartTransfers(s, n) /\ UNCHANGED stack
  /\ UNCHANGED <<open_once, cur, live, quit, path, shown, boxes, slot, todo, updates, last,
                 worker, dead, files, undefined, agreed, crossed, orphaned>>

AskRemove(s) ==
  /\ Enabled /\ Act /\ UNCHANGED lists /\ Len(stack) < MaxDepth
  /\ shown[s]
  /\ Push(Loop("ask", [op |-> "remove", side |-> s, from |-> path[s]], None))
  /\ UNCHANGED <<open_once, cur, live, quit, pane, boxes, slot, work, history>>

\* A message box is answered, the innermost or one below errors that came up since.
Answer(i, yes) ==
  /\ Idle
  /\ i \in DOMAIN stack /\ stack[i].ans = "open"
  /\ IF yes THEN stack[i].kind = "ask" ELSE stack[i].kind \in {"ask", "alert"}
  /\ stack' = [stack EXCEPT ![i].ans = IF yes THEN "yes" ELSE "no"]
  /\ UNCHANGED <<open_once, cur, live, quit, pane, boxes, slot, work, history, bounds>>

MutantRemoveJoinsLate(job) == [op |-> "remove", side |-> job.side, from |-> path[job.side]]

\* The paths to delete were put together before the question.
RemoveTask(job) == [op |-> "remove", side |-> job.side, from |-> job.from]

\* A message box that is answered returns to its handler; a quit closes it as well, and
\* stays. The handler of an error looks at its state again, that of a question if it goes on.
BoxReturns ==
  /\ Running /\ Top.kind \in {"ask", "alert"}
  /\ quit \/ Top.ans # "open"
  /\ LET goes_on == Top.ans = "yes" \/ Top.kind = "alert"
         job == Top.job
     IN /\ undefined' = (goes_on /\ ~live)
        /\ stack' = Below
        /\ IF goes_on /\ live /\ Top.kind = "ask"
           THEN IF job.op = "transfer"
                THEN StartTransfers(job.side, job.n)
                ELSE /\ Send(cur, <<RemoveTask(job)>>)
                     /\ UNCHANGED <<pending, buttons, overlapped>>
           ELSE UNCHANGED <<pending, buttons, tasks, overlapped>>
  /\ UNCHANGED <<open_once, cur, live, quit, path, shown, boxes, slot, todo, updates, last,
                 worker, dead, files, agreed, crossed, orphaned, bounds>>

-----------------------------------------------------------------------------
(* Input boxes: a new directory, a new name                                *)

\* A new window's handle is any that is free.
Edit(s) ==
  /\ Enabled /\ Browse /\ Act /\ Len(stack) < MaxDepth
  /\ LET free == {b \in Boxes \ boxes : \A i \in DOMAIN stack : stack[i].box # b}
         b == CHOOSE x \in free : TRUE
     IN /\ free # {}
        /\ Push(Loop("box", [op |-> "edit", side |-> s, from |-> path[s]], b))
        /\ boxes' = boxes \cup {b}
  /\ crossed' = (crossed \/ \E i \in DOMAIN stack : stack[i].kind = "box")
  /\ UNCHANGED <<open_once, cur, live, quit, pane, slot, work, undefined, agreed,
                 overlapped, orphaned>>

\* OK, cancel and closing destroy the box, which leaves its answer and posts a quit.
PressOk(b) ==
  /\ Idle /\ b \in boxes
  /\ boxes' = boxes \ {b} /\ slot' = b /\ quit' = TRUE
  /\ agreed' = agreed \cup {b}
  /\ UNCHANGED <<open_once, cur, live, stack, pane, work, undefined, crossed, overlapped,
                 orphaned, bounds>>

MutantCancelTakesText(b) ==
  /\ Idle /\ b \in boxes
  /\ boxes' = boxes \ {b} /\ slot' = b /\ quit' = TRUE
  /\ UNCHANGED <<open_once, cur, live, stack, pane, work, history, bounds>>

PressCancel(b) ==
  /\ Idle /\ b \in boxes
  /\ boxes' = boxes \ {b} /\ slot' = None /\ quit' = TRUE
  /\ UNCHANGED <<open_once, cur, live, stack, pane, work, history, bounds>>

\* The innermost loop takes the quit, and its handler what it finds in the slot. A name
\* that was not changed is none.
InputReturns ==
  /\ Running /\ quit /\ Top.kind = "box"
  /\ quit' = FALSE /\ slot' = None /\ stack' = Below
  /\ agreed' = agreed \ {slot}
  /\ undefined' = (slot # None /\ ~live)
  /\ IF slot # None /\ live
     THEN \/ Send(cur, <<[op |-> "edit", side |-> Top.job.side, from |-> Top.job.from]>>)
          \/ UNCHANGED tasks
     ELSE UNCHANGED tasks
  /\ UNCHANGED <<open_once, cur, live, pane, boxes, todo, updates, last, worker, dead, files,
                 crossed, overlapped, orphaned, bounds>>

MutantStaysOpen ==
  /\ Running /\ quit /\ Top.kind = "loop"
  /\ stack' = <<>> /\ quit' = FALSE
  /\ UNCHANGED <<open_once, cur, live, pane, boxes, slot, work, history, bounds>>

\* run_window returns.
LoopEnds ==
  /\ Running /\ quit /\ Top.kind = "loop"
  /\ stack' = <<>> /\ quit' = FALSE
  /\ open_once' = FALSE
  /\ UNCHANGED <<cur, live, pane, boxes, slot, work, history, bounds>>

-----------------------------------------------------------------------------
(* WM_TIMER                                                                *)

\* Whichever loop is innermost, the timer's handler runs in it. An error opens a box of
\* its own.
TakeUpdate ==
  /\ Idle /\ live /\ updates[cur] # <<>>
  /\ updates' = [updates EXCEPT ![cur] = Tail(@)]
  /\ LET u == Head(updates[cur])
     IN \/ /\ u.what = "listing"
           /\ path' = [path EXCEPT ![u.side] = u.dir]
           /\ shown' = [shown EXCEPT ![u.side] = u.shown]
           /\ stack' = [i \in DOMAIN stack |-> [stack[i] EXCEPT !.moved = stack[i].kind = "ask"]]
           /\ UNCHANGED <<pending, buttons>>
        \/ /\ u.what = "done"
           /\ pending' = IF pending = 0 THEN 0 ELSE pending - 1
           /\ buttons' = (buttons \/ pending' = 0)
           /\ UNCHANGED <<path, shown, stack>>
        \/ /\ u.what = "error"
           /\ Push(Loop("alert", None, None))
           /\ UNCHANGED pane
  /\ UNCHANGED <<open_once, cur, live, quit, boxes, slot, tasks, todo, last, worker, dead,
                 files, history, bounds>>

-----------------------------------------------------------------------------
(* The worker thread                                                       *)

\* The window listens to this worker; what it sends is lost otherwise.
Linked(w) == live /\ cur = w
Report(w, new) ==
  updates' = [updates EXCEPT ![w] = IF Linked(w) THEN @ \o new ELSE @]
Error == [what |-> "error"]

Steps(t) ==
  CASE t.op = "list" -> <<t>>
    [] t.op = "transfer" -> <<t, [op |-> "refresh", side |-> "remote"],
                              [op |-> "refresh", side |-> "local"]>>
    [] OTHER -> <<t, [op |-> "refresh", side |-> t.side]>>

\* On a dead connection every task is answered by an error and nothing else.
TakeTask(w) ==
  /\ worker[w] = "running" /\ todo[w] = <<>> /\ tasks[w] # <<>>
  /\ tasks' = [tasks EXCEPT ![w] = Tail(@)]
  /\ IF dead[w] THEN Report(w, <<Error>>) /\ UNCHANGED todo
     ELSE todo' = [todo EXCEPT ![w] = Steps(Head(tasks[w]))] /\ UNCHANGED updates
  /\ UNCHANGED <<thread, pane, boxes, slot, last, worker, dead, files, history, bounds>>

Listing(s, d) ==
  [what |-> "listing", side |-> s, dir |-> d, shown |-> d \in files[s]]

\* list_remote and list_local: the listing, or an error; the drives of this machine can
\* always be listed, those of the other may not be answered in time. On a dead connection
\* the request is not sent, which nobody is told, or not answered. An answer of another
\* kind, of which nobody is told either, does not come: the server has none.
ListDir(w, s, d) ==
  \/ ~(s = "remote" /\ dead[w]) /\ Report(w, <<Listing(s, d)>>) /\ UNCHANGED faults
  \/ (s = "remote" \/ d # Root) /\ Fault /\ Report(w, <<Error>>)
  \/ s = "remote" /\ dead[w] /\ UNCHANGED faults /\ (UNCHANGED updates \/ Report(w, <<Error>>))

\* The listed directory becomes the one to refresh, also when it could not be listed.
ListStep(w) ==
  LET t == Head(todo[w]) IN
  /\ worker[w] = "running" /\ todo[w] # <<>> /\ t.op \in {"list", "refresh"}
  /\ todo' = [todo EXCEPT ![w] = Tail(@)]
  /\ IF t.op = "list"
     THEN ListDir(w, t.side, t.from) /\ last' = [last EXCEPT ![w][t.side] = t.from]
     ELSE ListDir(w, t.side, last[w][t.side]) /\ UNCHANGED last
  /\ UNCHANGED <<thread, pane, boxes, slot, tasks, worker, dead, files, history, lists, acts>>

MutantFailedTransferNotDone(w) ==
  LET t == Head(todo[w]) IN
  /\ worker[w] = "running" /\ todo[w] # <<>> /\ t.op = "transfer"
  /\ todo' = [todo EXCEPT ![w] = Tail(@)]
  /\ \/ /\ t.from \in files[t.side] /\ ~dead[w] /\ UNCHANGED faults
        /\ files' = [files EXCEPT ![Other(t.side)] = @ \cup ({t.to} \cap Dirs)]
        /\ Report(w, <<[what |-> "done"]>>)
     \/ /\ UNCHANGED <<files, updates>>
        /\ IF t.from \in files[t.side] /\ ~dead[w] THEN Fault ELSE UNCHANGED faults
  /\ UNCHANGED <<thread, pane, boxes, slot, tasks, last, worker, dead, history, lists, acts>>

\* do_download and do_upload, well or with an error: the window is told that it is over.
TransferStep(w) ==
  LET t == Head(todo[w]) IN
  /\ worker[w] = "running" /\ todo[w] # <<>> /\ t.op = "transfer"
  /\ todo' = [todo EXCEPT ![w] = Tail(@)]
  /\ \/ /\ t.from \in files[t.side] /\ ~dead[w] /\ UNCHANGED faults
        /\ files' = [files EXCEPT ![Other(t.side)] = @ \cup ({t.to} \cap Dirs)]
     \/ /\ UNCHANGED files
        /\ IF t.from \in files[t.side] /\ ~dead[w] THEN Fault ELSE UNCHANGED faults
  /\ Report(w, <<[what |-> "done"]>>)
  /\ UNCHANGED <<thread, pane, boxes, slot, tasks, last, worker, dead, history, lists, acts>>

\* Deleting and renaming take the files away. A failure on the other machine is an error,
\* here it only changes the status line.
ChangeStep(w) ==
  LET t == Head(todo[w]) IN
  /\ worker[w] = "running" /\ todo[w] # <<>> /\ t.op \in {"remove", "edit"}
  /\ todo' = [todo EXCEPT ![w] = Tail(@)]
  /\ \/ /\ ~(t.side = "remote" /\ dead[w])
        /\ files' = [files EXCEPT ![t.side] = @ \ {t.from}]
        /\ UNCHANGED <<updates, faults>>
     \/ /\ t.side = "local" \/ (t.op = "edit" /\ ~dead[w])
        /\ UNCHANGED <<files, updates, faults>>
     \/ /\ t.side = "remote"
        /\ IF dead[w] THEN UNCHANGED faults ELSE Fault
        /\ Report(w, <<Error>>) /\ UNCHANGED files
  /\ UNCHANGED <<thread, pane, boxes, slot, tasks, last, worker, dead, history, lists, acts>>

\* The window's end of the channel is gone; what was queued has been done.
WorkerEnds(w) ==
  /\ worker[w] = "running" /\ ~Linked(w)
  /\ tasks[w] = <<>> /\ todo[w] = <<>>
  /\ worker' = [worker EXCEPT ![w] = "gone"]
  /\ last' = [last EXCEPT ![w] = FirstPath]
  /\ UNCHANGED <<thread, pane, boxes, slot, tasks, todo, updates, dead, files, history, bounds>>

LoseConnection(w) ==
  /\ worker[w] = "running" /\ Linked(w) /\ ~dead[w] /\ Fault
  /\ dead' = [dead EXCEPT ![w] = TRUE]
  /\ UNCHANGED <<thread, pane, boxes, slot, tasks, todo, updates, last, worker, files,
                 history, lists, acts>>

-----------------------------------------------------------------------------

Person ==
  \/ Open \/ CloseWindow
  \/ \E s \in Sides : \/ \E d \in Paths : navigate(s, d)
                      \/ \E n \in 1 .. MaxBatch : Transfer(s, n)
                      \/ AskRemove(s)
                      \/ Edit(s)
  \/ \E i \in DOMAIN stack, yes \in BOOLEAN : Answer(i, yes)
  \/ \E b \in Boxes : PressOk(b) \/ PressCancel(b)

Window == BoxReturns \/ InputReturns \/ LoopEnds \/ TakeUpdate

Work(w) == TakeTask(w) \/ ListStep(w) \/ TransferStep(w) \/ ChangeStep(w) \/ WorkerEnds(w)

Next == Person \/ Window \/ \E w \in Workers : Work(w) \/ LoseConnection(w)

Spec == Init /\ [][Next]_vars

\* Both threads run; the person owes nothing.
FairSpec == Spec /\ WF_vars(Window) /\ \A w \in Workers : WF_vars(Work(w))

-----------------------------------------------------------------------------
(* Properties                                                              *)

Count(seq, Of) == Cardinality({i \in DOMAIN seq : seq[i] \in Of})
TransferTasks == [op: {"transfer"}, side: Sides, from: Paths, to: Paths]
Done == [what |-> "done"]

\* What of this window's transfers has still to be reported to it.
UnderWay(w) ==
  Count(tasks[w], TransferTasks) + Count(todo[w], TransferTasks) + Count(updates[w], {Done})

\* pending, on which the buttons and the refusal of further transfers rest, counts what
\* is under way. It does not when the connection is dead, or when a question was answered
\* under an error box: the second start then overwrites the count of the first.
PendingCounts ==
  live /\ ~dead[cur] /\ ~overlapped =>
    pending = UnderWay(cur) /\ (buttons <=> pending = 0)

\* What is asked is what is done, although the question lets listings in: a deletion is of
\* the directory it was asked about, and so is a transfer if neither pane changed meanwhile.
AsAsked ==
  [][\A w \in Workers :
       Len(tasks'[w]) > Len(tasks[w]) /\ Top.kind = "ask"
         => LET t == Last(tasks'[w]) job == Top.job IN
            /\ t.op = job.op /\ t.side = job.side
            /\ t.op = "remove" => t.from = job.from
            /\ t.op = "transfer" => Top.moved \/ <<t.from, t.to>> = <<job.from, job.to>>]_vars

\* A directory is made or a name changed only with a text that somebody pressed OK for and
\* that no operation took before; it is that of the operation's own box, unless two were on
\* the screen at once.
AnswersBelong ==
  [][\A w \in Workers :
       Len(tasks'[w]) > Len(tasks[w]) /\ Last(tasks'[w]).op = "edit"
         => slot \in agreed /\ (crossed \/ slot = Top.box)]_vars

\* The transfer buttons come back, whether transfers fail or boxes stay on the screen,
\* as long as the window is open and its connection lives.
ButtonsComeBack ==
  \A w \in Workers :
    (live /\ cur = w /\ ~buttons) ~> (~live \/ buttons \/ dead[w] \/ undefined)

\* A file manager that was closed can be opened again, unless an input box was open, whose
\* loop takes the quit that was meant for the window's.
Reopens == (~live /\ open_once) ~> (~open_once \/ orphaned \/ undefined)
=============================================================================
