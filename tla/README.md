# RControl: models, checks and proofs

RControl is a remote-control program for Windows: a client (the controller) connects
directly to a worker process on the controlled machine, sees its screen, sends keys,
mouse and texts, and transfers files. This directory holds TLA+ models of it, the TLC
configurations that check them, and TLAPS proofs. Paths below are relative to `src/`;
`server/`, `client/`, `common/` stand for `rcontrol_server/src/` and so on.

## 1. Inventory

| Component | State | Operations | Talks to | What is hard | What makes it correct |
|---|---|---|---|---|---|
| Service watchdog (`server/service.rs`, `session.rs`) | watched session, handle of the worker, failure count | look at the console session, kill, spawn, stop | worker process (start, terminate), service manager | termination is asynchronous; sessions change and workers die at any time | no worker is left behind; one comes back; stop ends it |
| Worker start and configuration (`server/worker.rs` 57-193, `common/config.rs`) | configuration read at start, what the watch saw last, listening socket | load, watch, bind, exit | configuration file, panel, watchdog | the file changes between load and watch; the port is still taken | a saved port or password takes effect |
| Connections (`server/worker.rs` 248-546) | `connected`, `auth_fail`, per session: stop flag, threads, writer | accept, admit, handshake, serve, end | client, every thread of the session | tasks on several threads share two variables; five ways out | one controller; the slot, writer and threads (but one) are released |
| Encrypted channel (`common/crypto.rs`, `codec.rs`, `client/conn.rs`, writer task) | two counters per direction, two bounded queues, locks | seal, open, write, respond, drop | every sender on both sides | counters are implicit, queues fill up, the socket breaks between two writes | frames open in order, no gaps, nobody waits for ever |
| File transfers (`server/files.rs`, `client/files_ui.rs` 1153-1482) | table of transfers by id, one thread each; client: ids, responses | upload, download, route controls, guard | read loop, channel, file system | threads outlive connections, ids repeat, timers on both ends, partial files | what is reported stored is stored; nothing is left behind |
| Clipboard (`server/clip.rs`, `client/view.rs` 306-327) | marks of what was sent and what was written for the peer | poll, send, receive, set | channel, system clipboard | read and comparison are apart; texts cross | texts arrive, echoes do not, the exchange settles |
| Capture and video (`server/capture.rs`, `desktop.rs`, `worker.rs` 550-621) | last picture, frame size, desktop | capture, compare, encode, try to send | video queue, input thread | frames are dropped, sizes change, desktops switch; coordinates are rounded four times on the way back | the client's picture becomes current; a click lands where it was aimed, or beside it |
| Input (`server/input.rs`, `client/view.rs` 135-304) | pressed keys and buttons, batch | press, release, inject, SAS | channel, system | focus loss, local hotkeys, stop with a queue | nothing stays pressed |
| File manager window (`client/files_ui.rs`) | panes, `pending`, input boxes and their one result slot, `OPEN_ONCE`; its thread's nested message loops; the worker's tasks | list, transfer, delete, make, rename, ask, close | its worker thread, by two channels; file transfers | a question or an input box lets the timer in, boxes share a slot and a quit, the window closes under them, stale listings, a dead connection | what was asked is done, an answer belongs to its operation, buttons come back, the window opens again |
| Host list (`client/dlg.rs`, `client/main.rs`) | list in memory, rows, selected rows, form, `hosts.txt`, last address | add, replace, delete, select, double-click, connect | other clients through the file | whole-file writes, failing saves and reads, names that read as comments, several rows selected | a row is the entry it shows; entries are lost only by a person or an excepted fault |
| Client life (`client/main.rs`, `conn.rs`, `view.rs`) | `Client` handle shared by viewer, file manager, reader | connect, leave | all client threads | the reader keeps the socket | leaving disconnects |
| Panel (`server/gui.rs`, `service_manager.rs`) | form, `status.json` | save, install, remove, temporary worker, kill | service manager, worker | identifies processes by a file that every worker writes; nobody watches a temporary worker | it ends what it started, and leaves the service's worker alone |
| Others | none that matters: messages (`common/proto.rs`), encoding, logger, self-test, build and test scripts | | | | |

The processes interact in four ways: the service starts and terminates the worker; panel
and worker share `config.toml`; client and worker talk over one TCP connection through
the encrypted channel; inside the worker, session threads share `State` and the two
queues of the writer. `PROJECT.json` lists each component with its status and, under
`hazards`, each place where something can go wrong that a test would hardly reach.

## 2. Modules

| Module | What it models | Composes |
|---|---|---|
| `Session` | accept loop, `handle_conn`, `run_session` without message contents | |
| `Channel` | the connection after authentication, both directions | implements `Delivery` |
| `Delivery` | abstract: numbered messages per sender arrive in order, without gaps | |
| `Download` | one download, server thread and client worker | implements `Copy` |
| `Copy` | abstract: a destination grows as a prefix of the source, "done" only for the whole | |
| `Transfers` | the table of transfers and its threads over successive connections | a download's own pace is `Download` |
| `Clipboard` | clipboard of one session, both ends | delivery is `Channel` |
| `Watchdog` | service loop, worker processes, configuration file | |
| `Panel` | buttons of the control panel, temporary workers, `status.json` | extends `Watchdog` |
| `FileManager` | window thread and worker thread of the file manager | a transfer's own steps are `Transfers` and `Download` |
| `HostList` | several clients' host lists over one `hosts.txt` | |
| `Input` | keys and mouse buttons: the viewer's loop, the read loop, the input thread | delivery is `Channel` |
| `Video` | capture, video queue, the client's latest frame, the viewer's picture, and the way of a click back to the screen | implements `Mirror` |
| `Mirror` | abstract: what is shown was on the screen, and never goes back | |
| `Viewport` | the viewer's window: scroll bars, what is drawn where, where a click goes | |
| `WorkerProofs` | theorems about `Session` and `Video` | |
| `ClientProofs` | theorems about `Clipboard`, `Input` and `HostList` | |
| `ChannelProofs`, `DownloadProofs`, `TransfersProofs`, `PanelProofs`, `FileManagerProofs`, `ViewportProofs` | theorems about `Channel`, `Download`, `Transfers`, `Watchdog` with `Panel`, `FileManager`, `Viewport` | |
| `MC...` | instances for TLC | |

**How they correspond to the code.** An action is one stretch of code between two points
where another thread, task or process can look: an await, a lock, a blocking receive, a
store to a shared atomic. Names of variables and actions are those of the code where
there is one (`connected`, `outstanding`, `clip_last_set`, `LAST_LOCAL_SET`). The map in
`PROJECT.json` names the lines of every definition. Where one module of proofs is about
several components, their initial predicates and the like carry the component's name
(`SessionSpec`, `ClipInit`, `DialogNext`). The main choices:

- `Session`: the load of `connected` (`CheckConnected`) and its store (`Enter`) are two
  actions, as are the store of FALSE (`Leave`) and of the stop flag (`Stop`). The steps
  between a read and the next await that touch nothing shared are one action. "loops"
  stands for the capture and input threads, which end alike; "clip" is the thread that forwards
  texts, "poll" the one it starts to look at the clipboard, which is not told of the stop
  (`|| false` at `server/worker.rs:428`) and ends with the next text copied. `r?` (`ReadEof`,
  `BadLength`) skips the orderly end, the breaks (`ReadTimeout`, `BadFrame`) do not.
- `Channel`: a frame is its counter and its message. On the client, length and body are
  two writes, as in `write_frame_plain`; on the server one task writes, so they are one.
  A reader that meets anything else than the frame its counter expects sets `garbled`.
  A frame is refused by its length where its message may be one of `Texts`, the senders
  whose texts may be longer than `MAX_FRAME`: the client's reader ends, and the frame stays.
- `Download`: a chunk is an interval of the file. `acked` is a history variable, the last
  total the server received. `intact` says whether every chunk so far was appended at
  its own offset; the code does not look at the offset.
- `Transfers`: a transfer is `<<connection, id>>`; the table maps an id to the transfer
  whose sender is in it. A file is named by the key that created it, so that unlinking
  and truncating a file another thread still has open are what they are. `tangled`
  remembers which transfers ran beside one with the same id or an upload to the same path.
  `After` says what each of the client's waits makes of each response: all but an error ends the last wait of
  an upload (`uploaded`); without any, it is reported complete too (`unconfirmed`).
- `Clipboard`: reading the clipboard and reading the mark are two actions on the server,
  and incoming and outgoing half are two in the viewer. `author`, `overtaken` and `owed`
  are history variables for the properties.
- `Watchdog`: one round of the service is two actions, the look at the session with the
  kill, and the spawn. A killed process is "ending" until the system completes it, and
  keeps its port until then. A fresh configuration that could not be saved is used all the
  same. `missed` is a history variable: the workers whose watch missed a change of the file because it had
  seen no pair yet. The module has no specification of its own: it runs as part of `Panel`.
- `Panel`: a button is one action, with the saving of the form that precedes it, but for
  the one that stops a temporary worker: it reads the file, and kills what it read
  (`target`) later. `temps`
  are the workers it started, which run the same program as the service's and may hold the
  port. `status` is what `status.json` says: the process a temporary worker wrote there and
  whether that still lives, or `None` for a worker of the service. A process handle can be
  used again, as ids are, so the file may name a process that is by now another.
- `FileManager`: the window thread's `stack` has a frame for each message loop that a
  handler waits in: the window's own, the alert of an error, the question, the input box.
  The innermost dispatches the timer and, unless a question disables the window, its
  buttons. `quit` is the thread's one quit flag, `slot` the static `IB_RESULT`. A message box
  that a quit closes leaves it for the loop below; an input box's loop takes it. `undefined`
  says that a handler went on with an `FmState` that was freed: nothing is said about what
  follows. Directories stand for paths; the selected files are in a directory or not. The
  worker's task is followed by the listings that the code asks for after it (`Steps`).
- `HostList`: an entry stands for name, address and password. The rows and the list in
  memory are two variables, since the code renews the rows only after a successful save.
  `selected` is a set of rows, as the list view (external) lets Ctrl and Shift make it
  (`Selections`); the code only ever asks for the lowest of them (`lv_selected`). `pointed` is a
  history variable: what the row showed that was double-clicked.
- `Input`: one frame of the viewer's loop is one action, since nothing it reads changes
  during it; its messages are built by the operators `...Sends` in the order of the code.
  `held` is what the person holds, `window_down` what the window reports, which differ
  when something is let go of outside (`strayed`). The loop's `pressed`, `swallowed`,
  `mouse_btn`, `btn_sent` and `grab` keep their names. An event injected while the thread
  is still attached to the former desktop has no effect (`missed`).
- `Viewport`: a round of the loop is one action with any window, picture and pointer, and
  the geometry is pure operators. `Panics` says when Rust's `clamp` or an index of `compose`
  would panic. The wheel is turned at one place, since it does not look at the pointer.
- `Video`: one dimension stands for both. `history` is the screen's past, a picture
  carries the index of the state it was taken of. `shift` is the difference between the
  origin the capturer's buffers were made for and the screen's: they are rebuilt only
  when the size differs. `cw` is the width of those buffers, which is not the screen's when it
  changes before the copy. The reading of the desktop's measures, the copy (BitBlt) with the comparison
  with the last picture, the store of the frame size and the attempt to send are four
  actions; the viewer's reading of the frame number and of the frame are two, as are the
  input thread's reading of the frame size and each injection. `InjectedAt` has the four
  roundings between a column of the picture and one of the screen: the client's column
  scaled up (`fx`), then to SendInput's `Steps` (`norm`), both in the code, and back to a column by
  Windows (`PixelOf`, external). Screens are at most 32,768 columns wide, as far as the
  32 bits of `norm` reach.

## 3. Checks

All runs are exhaustive within their constants.

| Run | States | Shows |
|---|---|---|
| `session` | 128,690 | `NoLockout`: the flag is TRUE only while a task holds it; `SlotReleased`: a client that is gone or silent does not keep its task; `ThreadsReleased`: the writer and all threads but the polling one end whichever way a session ended |
| `download` | 4,380 | refinement of `Copy`; `NoStall`; `Finishes` without any timer |
| `transfers` | 543,215 | `EntriesLive`, `CutOffOnlyByReuse`, `LeftoversEnd`; `DoneStored`: an upload that is reported complete on an answer of the server is stored |
| `channel` | 128,298 | `NeverGarbled`, refinement of `Delivery`, `SendersReturn`, `EverythingArrives` (no cycle of full buffers) |
| `clipboard` | 124,412 | `NoEchoToServer`; `EchoOnlyWhenOvertaken` says exactly when the server can echo; `Settles`; `FreshTextArrives` |
| `input` | 493,986 | `ViewerKnows`: what is down over there is, once everything under way is injected, what the viewer believes; `SasOncePerPress`; `LettingGoArrives` |
| `video` | 306,479 | refinement of `Mirror`; `LatestShown`: a screen that rests is shown, unless its last picture was dropped |
| `clicks` | 6.16 million | `ClicksLand`: a click lands on a pixel that its column of the picture was made from, or on the one to the left of them |
| `watchdog` | 544,745 | `NoOrphan`, `Recovers`, `StopEndsWorkers`, `SavedConfigTakesEffect`, with the panel's buttons among them; `KillsOnlyTemps`: stopping a temporary worker leaves the service's alone, unless the writer of the file is gone and its id was given to the other |
| `filemanager` | 623,083 | `PendingCounts`: the number behind the buttons is what is under way; `AsAsked`: what a question named is what is done; `AnswersBelong`: a typed name is used once, by the operation whose box it was typed in; `ButtonsComeBack`; `Reopens` |
| `windows` | 109,808 (up to symmetry) | the dialog: `DoubleClickConnects`: a double click connects to the machine its row shows, if it is the first selected; `SavedStays`: when an entry of the file may be lost. The viewer: `ScrollInRange`, `DrawnIsSent`: a click goes to the pixel that is drawn; `PanicsOnlyInSlivers`; `DragFollows`: a thumb stays under the pointer that holds it |

One run shows where the code does not do what a document says. TLC's trace is a
behaviour of the code:

| Run | Statement | What happens |
|---|---|---|
| `single_controller` | one controller at a time (`README.md:61`) | two tasks both read FALSE and both serve |

**What the models show besides.** More statements of the documents are not so. They can
be read off the modules, where no run states them:

- Five wrong passwords do not block an address (`README.md:60`): the field of the peer's
  address that `handle_conn` parses is the port, so `PeerIp` of `Session` is always `NoIp` and
  nothing is counted.
- A window that loses the focus does not release its keys (`client/view.rs:136`): `FocusLost` of
  `Input` releases them, and the part of the loop below it presses them again in the
  same round, as the window's key states still say down, and so on in each round.
- An upload is reported complete although no confirmation came (`client/files_ui.rs:1480`),
  whatever is stored: `GiveUp` of `Transfers` ends it as `unconfirmed`. The report says so;
  the comment at 1474 speaks of FileDone only.
- A saved port or password need not take effect, although `server/gui.rs:418` announces it: saved
  after the worker loaded the file (`server/worker.rs:59`) and before its watch first
  looked (138, or again 148), it becomes what the watch compares with. And a temporary worker
  that ends because they were saved is not started again, although `server/worker.rs:134` says
  that the panel does it.
- Clicks do not agree strictly with what is shown 1:1 (`README.md:13`): from 257 columns
  on, some land one column to the left (`InjectedAt` of `Video`; of 257, the one at column 1).
- A double click does not always connect to the machine it is on (`README.md:22`,
  `client/dlg.rs:513`): with several rows selected, the first of them is meant (`lv_selected` of `HostList`).
- Texts are not limited to 4 MB in both directions (`README.md:18`): only the client looks at its own.
  The server sends any, and one above 32 MB ends the client's reader, and with it the
  connection (`ClientReads` of `Channel`).

Other places where the code promises less than one might think are stated positively by
the passing runs, with the exception spelled out in the property: `CutOffOnlyByReuse` (a
transfer left behind by the former connection removes the entry of a new one with its
id), `FreshTextArrives` (a text that a side remembers from before is not sent again),
`DoneStored` (two transfers with one id, or two uploads to one path, may spoil each other's file
though both are confirmed), `ThreadsReleased` (each session with a clipboard leaves its polling thread behind,
which takes the first text copied after the session, and ends),
`LatestShown` (a dropped picture is not sent again; rearranged monitors are captured from
the old origin), `ClicksLand` (nothing is promised when the monitors change between
the picture and the click, or changed while the picture was made: `Whole`, a `shift` other than 0), `SavedConfigTakesEffect` (a
change that the watch missed, and a fresh configuration that could not be saved), `Recovers`
(a temporary worker keeps the port as long as it lives), `PendingCounts` and `ButtonsComeBack` (tasks queued when the connection broke are
never reported, the buttons stay disabled; a question answered under an error box overwrites the
count of transfers begun meanwhile), `AsAsked` (a transfer goes to the directory that is shown
when its question is answered), `AnswersBelong` (of two input boxes on the screen one may get
the other's text), `Reopens` (a file manager closed under an input box never opens again:
the box's loop takes the quit, and `OPEN_ONCE` stays set), `DoubleClickConnects` (after a failed save
row numbers mean other entries until the next successful one; and a row above the one clicked
may be selected too), `SavedStays` (a client with an
older list writes it over the file; an entry named "#..." is saved and never read), `PanicsOnlyInSlivers` (a window lower or narrower than
38 pixels, which a picture does not fit in, ends the client), and `Download`, whose count of outstanding bytes falls too fast because
running totals are subtracted (`acked` and `outstanding` are unrelated but for the bound
in section 4).

**Bounds and why they suffice.** `session`: two tasks are enough for every race on one
flag, a finished task is reused, so sessions follow each other without limit; one host
and port, as the limiter's key is always absent. `download`: 7 bytes, chunks of at most 2 and a window of 3 make
every read of 1 or 2 bytes, a closed window, several acknowledgements in one wait and
the saturating subtraction occur. `transfers`: two connections with two ids each and at most two transfer
threads begun (`MaxBegun`) let a leftover meet a new transfer with the same id and with
another; two chunks distinguish partial from whole. `channel`: queues of one, sockets that hold one frame, two
messages per sender: every queue is full at some time; any text may be too long, at either place in the order. `clipboard`: two texts, three
copies in all, both initial clipboards arbitrary; more copies repeat the same memories.
`watchdog`: two sessions, three processes (one running, one ending, one new), three
disturbances in all (`MaxEvents`: switch, save, death, failing spawn or read, install, stop,
remove; a temporary worker counts as two, since it also saves) and one press of the button that stops a temporary worker
(`MaxStops`): enough for one to hold the port, to outlive the service, and to leave its
number to the service's worker. `filemanager`: one window (`MaxOpens`), one directory beside
the list of drives, one or two files at a time (`MaxBatch`), two directories asked for or
input boxes (`MaxLists`), two transfers, deletions or input boxes (`MaxActs`), one fault, and at
most four loops nested when a button is pressed (`MaxDepth`): two input boxes at once, a question
under an error box, a listing under a question, a window closed under each of them all occur.
`windows`, the dialog: two clients, one ordinary entry and one whose name begins with '#', lists of two,
two changes (`MaxEdits`), one failing read or write, any set of rows selected: a list older than the file and a file cut off are both
written over; the proofs hold for any number. `input`: one key
that counts as Ctrl and Shift at once, Delete, F9, Escape and one button, four things done
(a hotkey takes two presses, a release and a change of the focus or the desktop), queues
of three, batches of two. `video`: two contents, two widths (257, the least at
which rounding moves a click, and 1000, scaled down to 300), two origins with the same width, three
states of the screen, the code's queue of two, and no clicks, which no property of this run reads. `clicks`:
the same screens with a video queue of one and two clicks under way, at columns 1 and 256, so that both occur in one
batch and in two; the proof holds for all widths and columns. `windows`, the viewer: five windows (with room for both bars,
for one, for none, and without an area) and four pictures, bars of 1, thumbs of at least 2:
of the geometry's cases each occurs, and the proofs hold for all sizes. Timers have no
clock: they may fire at any time, which includes every relative speed.

**Fairness, and what justifies it.** Tasks, threads and processes are scheduled; timers
with a fixed duration fire. Nothing is assumed of people, clients or the network. In
particular:

- `Session`: a task's own steps and timers are fair, `Authenticate`, `StartTransfer`
  and the peer's changes are not. That a transfer ends (`TransferEnds`) rests on module
  `Transfers` and, when the peer is silent without closing its socket, on TCP giving up a
  blocked write; the same holds for the writer.
- `Download`: the server's and the client's steps are fair, `GiveUp` only on a dead
  connection: `Finishes` is shown without the 60 s and 120 s timers.
- `Channel`: weak fairness suffices for locks and room in queues because every sender
  sends a bounded number of messages. That a connection ever breaks is not assumed;
  `SendersReturn` therefore excepts a client whose reader gave up after its timeout while
  an open file manager keeps the socket open.
- `Transfers`: each thread is fair, its `recv_timeout` included.
- `Clipboard`: both polling loops go round.
- `Input`: the viewer's loop, the read loop and the input thread go round; the person and
  the system's desktops owe nothing.
- `Video`: the same for capture, writer, reader and viewer. The copy (`Capture`) is strongly
  fair, since a capture may fail any number of times on the way to it: failing for ever
  would excuse everything. `clicks` states safety only.
- `Watchdog`, `Panel`: the loop, the workers and the completion of terminations are fair;
  sessions, saves, deaths, buttons and failing system calls are not, and are bounded by
  `MaxEvents`, since a system in which they never cease promises nothing.

- `FileManager`: the window thread goes round its innermost loop, and each worker does its
  task (every request of it has a timeout); the person, who may leave a box unanswered for
  ever, and the connection owe nothing. `HostList` states safety only.

Every property of a passing run has a mutant, a plausible slip in one mapped definition
(a `Mutant...` operator beside it) under which TLC finds the property violated.

## 4. Proofs

Every safety property that a passing run checks is a theorem, for all values of the constants,
and so are the types of the modules' variables. What follows says along which argument.

**`WorkerProofs`**, on `Session`, for any number of tasks, hosts and ports, and any limit:

- `SessionTypes`: `SessionSpec => []SessionTypeOK`.
- `FlagHasHolder`: `SessionSpec => []NoLockout`. The invariant is inductive together with
  the types: of all steps only `Enter` sets the flag, and its task then is a holder; only
  `Leave` takes a task out of the holding places, and it clears the flag. Lemma
  `HolderKept` serves every other step.

On `Video`, for any screens, widths, queues and numbers of changes and clicks:

- `PictureTypes`: `Typed`, which is `TypeOK` with the types of `frame` (`FrameTyped`).
- `PicturesInOrder`, and by it `PictureIsMirror`: `Spec => MirrorSpec`. A viewer that never goes
  back needs more than its own variables: the numbers of the pictures grow, not strictly,
  from the window to the latest frame, the sockets, the video queue and the capturer's
  frame (`InOrder`), whatever was dropped in between. `UnderWay` joins sockets and queue,
  so that the writer moves nothing (`WriterKeepsOrder`).
- `WidthsAreTold`, and by it `ClicksLandWhereAimed`: `Spec => ClicksLand`. A click carries places
  in a picture, the injector scales by the frame size it last read, and the two travel
  apart. The invariant (`WidthsTold`): from each picture that can still be clicked on, or click
  under way, the stored frame size is the scaled width of the state of the screen it shows
  or of a later one (`ToldSince`), and each picture has the width its screen is scaled to. Three
  lemmas are the arithmetic: a column scaled up is a column of the screen (`ScaledUpInside`)
  and one of the pixels the clicked one was made from (`LandsInside`), and from there to
  SendInput's steps and back it loses one column at most, as there are at least twice as
  many steps as columns (`StepsAndBack`).

**`DownloadProofs`** shows for every file size, chunk size and window:

- `TypeCorrect`, `CountIsBounded`, `NeverStalls`, and `DownloadIsCopy`:
  `Spec => IsCopy!Spec`, the refinement of `Copy`.
- The invariant `Inv` behind them relates three queues of numbers. `Chained`: the chunks
  under way begin where the client stands and follow each other up to `offset`, with an
  end of file last and at the file's size. `Reached`: the newest acknowledgement under
  way (or the last received) is the client's total, so that the client misses nothing
  but what is under way. `AcksCurrent`: acknowledgements grow and lie between `acked`
  and what was received. Last, `outstanding <= offset - acked`, which gives `NoStall`: if
  nothing is under way, everything sent is acknowledged and the count is 0. `CountBounded`
  (proved as `CountIsBounded`) and typing are not enough: neither says what is in the queues.

**`ViewportProofs`** shows for every size of windows, pictures, bars, thumbs and wheel steps:

- `BarsWhereNeeded`: `view_layout`, which looks once at each axis and then once more,
  arrives at the fixed point: a bar is there exactly when the picture does not fit beside
  the other bar.
- `ViewportInPicture`: `Spec => []ScrollInRange`, by an invariant that adds the types of
  offset and grip; each part of a round (`Drag`, `PressScrolls`, `Wheel`) preserves the range.
- `ClicksAreOneToOne`: `Spec => []DrawnIsSent`. It needs both theorems above: beside bars
  the offset is within the picture, and without bars it is 0, else the centred picture
  would be clicked where it is not drawn.
- `RoomyWindowsAreSafe`: `Spec => []PanicsOnlyInSlivers`, from the same invariant and a
  lemma on products: the last pixel of the last row copied lies in the picture.
- `ThumbFollowsPointer`: `Spec => []DragFollows`. The place of the thumb becomes an offset and
  that a place again, each rounded down; lemma `ThereAndBack` bounds what is lost, for
  the lengths that a bar can have.

**`PanelProofs`** shows for any number of sessions, processes, configurations and disturbances:

- `TypeCorrect`: `PanelSpec => []PanelTypeOK`.
- `NoneLeftBehind`: `PanelSpec => []NoOrphan`, by `HandleInv`, which adds that a stopped
  service holds no worker. Only three steps take the handle away: the look at the session
  and the stop terminate the process first, and a spawn takes place only when it is gone.
- `StoppedRunsNothing`: a stopped service has told each of its workers to end, from the
  same invariant; it is the safety half of `StopEndsWorkers`.
- `KillsTempsOnly`: `PanelSpec => KillsOnlyTemps`, by `StatusTrue`: as long as the process
  that wrote the file lives, the file speaks of a temporary worker only if it is one. A worker stops
  being temporary only by ending, and the step that ends it makes the file an old one.

**`ChannelProofs`** shows for any number of threads, sources and messages, and any capacities:

- `TypeCorrect`, and `CountersAgree`: `Spec => []NeverGarbled`. No counter is ever sent, so
  the invariant (`Together`) says what the two ends know of each other. Up: the parts under
  way follow one another, lengths before bodies and counters growing by one, from the counter
  the server will open next (`Chained`); while the connection stands, the thread that holds
  the lock goes on where the others ended, with the last counter sealed, and if nobody
  holds it they end at the counter that is sealed next (`Complete`, with `OneHolder` for the lock).
  Down one task writes whole frames, so consecutive counters suffice (`DownInv`).
- `DeliversInOrder`: `Spec => DeliverySpec`, the refinement of `Delivery`. `OrderInv` says of
  each sender that its numbers on the wire, then in the writer's hand, then in the queue
  grow, begin after what was delivered and leave none out; as long as the connection stands
  they also reach what was sent. A frame that is too long stays at the head, so that nothing is
  delivered behind it. A cut takes parts from the end only, which keeps a
  prefix (`InOrder`) though no longer all (`AllInOrder`). Lemmas on sequences of numbers
  state this once for the three places.

**`TransfersProofs`** shows for any number of connections, ids, chunks and paths:

- `TypeCorrect`, with what the types rest on: a client's operation that goes on has an id.
- `NoStaleEntry`: `Spec => []EntriesLive`, and `OnlyReuseCutsOff`:
  `Spec => []CutOffOnlyByReuse`. Neither is inductive alone: that a thread's end takes away
  only its own entry fails exactly when two threads share an id. `Fresh`: a request
  to start is under way at most once for its connection and id, and its thread has not begun;
  `Twins`: two threads at work with one id are both `tangled`. Together (`Table`) they are.
- `ReportedIsStored`: `Spec => []DoneStored`. What a thread has on disk must be followed from
  the client's loop to the file (`UploadInv`). `Ascending` and `LastJob`: requests under way are
  in the order of the ids, and those of the client's present upload come last. `Flow`: what its
  thread has written, then its queue, then the requests on the socket are its chunks in
  order, up to the one the client sends next. `Alone` and `Files`: unless it is tangled, no other
  thread writes to its file, and the name leads to it. `Answers`: what else than an error may
  come in while the client waits for the confirmation is one. `Done`: an upload answered as done
  has all chunks. Nothing is claimed of `unconfirmed` ones. `Older`: no id is ahead of those handed out; `Unheard`: a thread that has not
  begun has an empty queue.

**`FileManagerProofs`** shows for any number of windows, directories, loops and requests:

- `TypeCorrect`, whose invariant `Typed` adds to `TypeOK` what each frame of the stack may hold
  at its place (`FrameFits`).
- `DoneAsAsked`: `Spec => AsAsked`, by `AskInv`: the job a question's frame holds is the one
  it was asked for, also while further boxes lie over it.
- `EachBoxHasItsLoop`: `Spec => []BoxInv`, and by it `AnswersAreOnesOwn`: `Spec => AnswersBelong`.
  The input boxes on the screen are counted by the loops that wait for one; a quit under
  way makes up the difference (`OneLoopEach`). If two were never open at once there is at most
  one loop (`Single`), and what is in the slot is its own answer (`SlotAwaited`).
- `PendingIsUnderWay`: `Spec => []PendingCounts`. A transfer is counted once, as a task, as
  the worker's present step or as a report nobody has read, and every step of the worker
  moves it from one to the next. The lemmas count in a sequence that grows or loses its head
  (`Count`); `Unused` says that nothing is counted yet for the windows to come.

**`ClientProofs`**, on `Clipboard`, for any texts and any number of copies:

- `ClipTypes`, `ViewerDoesNotEcho`: `ClipSpec => NoEchoToServer`, and `ServerEchoes`:
  `ClipSpec => EchoOnlyWhenOvertaken`. The invariant (`MarkInv`): a text that was written for the
  other side is the one marked, and what the polling thread read and has not yet compared
  is the marked one unless another was written since.

On `Input`, for any keys, buttons, tables of keys, queues and batches:

- `InputTypes`: `Spec => []TypeOK`, with the types of what a round of the viewer sends.
- `ViewerKnowsWhatIsDown`: `Spec => []ViewerKnows`. Two things are needed. First, what a round's
  messages do: `RoundIs` says which messages are in it, `KeyRound` and `ButtonRound` that the
  last one about an input says what the viewer believes of it afterwards, and that there is one
  wherever its belief changes. Second, that nothing is lost on the way: the words `Known` takes are the
  queue followed by the socket, which reading (`ReadingKeepsKnowing`) only cuts elsewhere and
  injecting (`InjectingKeepsKnowing`) turns into what is down. `Silent` says why a view-only
  viewer is no exception: once the server was told, neither socket nor queue has an event, nor
  does the viewer believe that anything is down.
- `SasOnce`: `Spec => SasOncePerPress`, by `SeenInv`: while it sends, the viewer's `pressed` is
  what the window showed in the last frame.

On `HostList`, for any number of clients, entries, changes and faults:

- `RowsStandForHosts`: `DialogSpec => []RowsAreHosts`, with no more of the types than that each
  client has a list, rows and the outcome of its last save.
- `DialogTypes`: `DialogSpec => []DialogTypeOK`.
- `DoubleClickLeads`: `DialogSpec => []DoubleClickConnects`, from these two and that a client whose
  dialog is on the screen has not connected yet (`ConnectInv`).
- `SavedEntriesStay`: `DialogSpec => SavedStays`. The invariant (`Reads`): a client that has loaded or
  saved since the file last changed has in memory every entry that the file will be read to have. Then
  what it writes lacks the first selected entry at most (`OnlySelectedGoes`).

**Assumptions** are those named in the modules (`SessionAssumption` and so on): constants
are naturals of the right size, and special values differ from ordinary ones. TLC
evaluates them in every run.

**Induction over data.** `FlattenSeq`, by which the viewer's messages and the lines of `hosts.txt`
are put together, is a recursive function. The library's induction takes a predicate as a
parameter, which the provers cannot instantiate; `Induct` in `ClientProofs` states induction for a *set*
of naturals instead, from the library's theorem that `<` is well-founded on them. `FlattenExists`
shows with it that the function exists, and `FlattenIs` what it returns.

**Only model-checked**: all liveness (`SlotReleased`, `ThreadsReleased`, `Finishes`,
`LeftoversEnd`, `SendersReturn`, `EverythingArrives`, `Settles`, `FreshTextArrives`,
`Recovers`, `StopEndsWorkers`, `SavedConfigTakesEffect`, `LettingGoArrives`, `LatestShown`,
`ButtonsComeBack`, `Reopens`), as fairness and ENABLED are out of the provers' reach.

## 5. Not modelled

Wheel events and pointer moves sent to the other machine (they change no state modelled); the second dimension of the picture, and
with it that the comparison of two pictures (`server/capture.rs:248`) looks at their bytes and not at
their dimensions. Cryptography (a frame that arrives whole and in order opens, any other does not),
protobuf encoding (declarations only), JPEG and colour conversion (pure arithmetic), the layout of the other windows, logging,
build and test scripts, the self-test (a sequential program that uses the client as the
modules do). The firewall rule and the time the service manager takes. In the worker's start,
`--port` and the fields of `status.json` that are only shown. What mkdir, remove and rename do on
the other machine beside taking files away or failing (`FileManager`); the client's own limit of 4 MB on the texts it sends
(`client/view.rs:320`); what a polling thread that outlives its session does to the marks it
shares with the next one's (`Clipboard` has one poller); responses nobody waits for in the client. The reader
thread's hold on the socket (leaving by Esc does not close it) appears in `Session` as a
client that falls silent.

## 6. Plan

Done: connections, channel, transfers, clipboard, watchdog and panel, input, video, viewport,
file manager, host list, and proofs of their types and of every safety property the runs check. Left:

1. Composition: `Session` with the client's side of a connection (what a person who leaves
   and returns meets while the reader still holds the socket).
2. Theorems: the safety halves of liveness properties, as `StoppedRunsNothing` is of
   `StopEndsWorkers`: that somebody can always move while something is under way
   (`EverythingArrives`, `SendersReturn`), and that what has settled agrees (`Settles`).
