-------------------------- MODULE FileManagerProofs --------------------------
(***************************************************************************)
(* What the file manager keeps to, for any directories, boxes and bounds:  *)
(* what is asked is what is done, an answer belongs to its operation, and  *)
(* the count of transfers is that of the transfers under way.              *)
(***************************************************************************)
EXTENDS FileManager, FiniteSetTheorems, TLAPS

-----------------------------------------------------------------------------
(* Types                                                                   *)

\* A frame belongs to a loop that somebody waits in: the window's own is the outermost,
\* a question is about a transfer or a deletion, an input box about a name.
FrameFits(f, i) ==
  /\ f.kind = "loop" <=> i = 1
  /\ f.kind = "ask" => f.job \in Job /\ f.job.op \in {"transfer", "remove"}
  /\ f.kind = "box" => f.job \in Job /\ f.job.op = "edit" /\ f.box \in Boxes

Typed ==
  /\ TypeOK
  /\ \A i \in DOMAIN stack : FrameFits(stack[i], i)
  /\ live => cur \in Workers

LEMMA Bounds ==
  ASSUME FileManagerAssumption
  PROVE  /\ MaxOpens \in Nat /\ MaxBatch \in Nat /\ MaxDepth \in Nat /\ MaxLists \in Nat
         /\ MaxActs \in Nat /\ MaxFaults \in Nat
         /\ Home \in Paths /\ Root \in Paths /\ None \notin Boxes
         /\ FirstPath \in [Sides -> Paths] /\ \A s \in Sides : Other(s) \in Sides
  BY DEF FileManagerAssumption, Paths, FirstPath, Sides, Other

LEMMA SendTyped ==
  ASSUME TypeOK, NEW w \in Workers, NEW new \in Seq(Task), Send(w, new)
  PROVE  tasks' \in [Workers -> Seq(Task)]
  BY DEF TypeOK, Send

LEMMA ReportTyped ==
  ASSUME TypeOK, NEW w \in Workers, NEW new \in Seq(Update), Report(w, new)
  PROVE  updates' \in [Workers -> Seq(Update)]
<1>1. CASE Linked(w)
  BY <1>1 DEF TypeOK, Report
<1>2. CASE ~Linked(w)
  BY <1>2 DEF TypeOK, Report
<1> QED BY <1>1, <1>2

LEMMA PushTyped ==
  ASSUME Typed, stack # <<>>, NEW f \in Frame, Push(f), FrameFits(f, Len(stack) + 1)
  PROVE  /\ stack' \in Seq(Frame) /\ stack' # <<>>
         /\ Len(stack') = Len(stack) + 1 /\ stack'[Len(stack) + 1] = f
         /\ \A i \in DOMAIN stack : i \in DOMAIN stack' /\ stack'[i] = stack[i]
         /\ \A i \in DOMAIN stack' : i \in DOMAIN stack \/ i = Len(stack) + 1
         /\ \A i \in DOMAIN stack' : FrameFits(stack'[i], i)
<1>1. stack \in Seq(Frame) /\ stack' = Append(stack, f)
  BY DEF Typed, TypeOK, Push
<1>2. /\ stack' \in Seq(Frame) /\ Len(stack') = Len(stack) + 1 /\ stack'[Len(stack) + 1] = f
      /\ \A i \in DOMAIN stack : i \in DOMAIN stack' /\ stack'[i] = stack[i]
      /\ \A i \in DOMAIN stack' : i \in DOMAIN stack \/ i = Len(stack) + 1
  BY <1>1
<1>3. \A i \in DOMAIN stack' : FrameFits(stack'[i], i)
  BY <1>2 DEF Typed
<1> QED BY <1>1, <1>2, <1>3

\* The innermost loop, and the stack without it.
LEMMA TopTyped ==
  ASSUME Typed, stack # <<>>
  PROVE  /\ stack \in Seq(Frame) /\ Len(stack) \in Nat \ {0} /\ Len(stack) \in DOMAIN stack
         /\ Top = stack[Len(stack)] /\ Top \in Frame /\ FrameFits(Top, Len(stack))
         /\ Below \in Seq(Frame) /\ Len(Below) = Len(stack) - 1
         /\ \A i \in DOMAIN Below : i \in DOMAIN stack /\ i # Len(stack) /\ Below[i] = stack[i]
         /\ \A i \in DOMAIN stack : i # Len(stack) => i \in DOMAIN Below
         /\ \A i \in DOMAIN Below : FrameFits(Below[i], i)
         /\ Top.kind # "loop" => Below # <<>>
<1>1. stack \in Seq(Frame) /\ Len(stack) \in Nat \ {0} /\ Len(stack) \in DOMAIN stack
  BY DEF Typed, TypeOK
<1>2. Top = stack[Len(stack)] /\ Top \in Frame /\ FrameFits(Top, Len(stack))
  BY <1>1 DEF Top, Typed
<1>3. /\ Below \in Seq(Frame) /\ Len(Below) = Len(stack) - 1
      /\ \A i \in DOMAIN Below : i \in DOMAIN stack /\ i # Len(stack) /\ Below[i] = stack[i]
      /\ \A i \in DOMAIN stack : i # Len(stack) => i \in DOMAIN Below
  <2> DEFINE n == Len(stack) - 1
  <2>1. Below = SubSeq(stack, 1, n) /\ n \in Nat /\ n <= Len(stack)
    BY <1>1 DEF Below
  <2> HIDE DEF n
  <2>2. Below \in Seq(Frame) /\ Len(Below) = n /\ \A i \in 1 .. n : Below[i] = stack[i]
    BY <1>1, <2>1
  <2>3. DOMAIN Below = 1 .. n /\ DOMAIN stack = 1 .. Len(stack)
    BY <1>1, <2>2
  <2>4. \A i \in 1 .. Len(stack) : i # Len(stack) => i \in 1 .. n
    BY <1>1 DEF n
  <2>5. \A i \in 1 .. n : i \in 1 .. Len(stack) /\ i # Len(stack)
    BY <1>1 DEF n
  <2> QED BY <2>2, <2>3, <2>4, <2>5 DEF n
<1>4. \A i \in DOMAIN Below : FrameFits(Below[i], i)
  BY <1>3 DEF Typed
<1>5. Top.kind # "loop" => Below # <<>>
  BY <1>1, <1>2, <1>3 DEF FrameFits
<1> QED BY <1>1, <1>2, <1>3, <1>4, <1>5

\* The transfers of n selected files.
LEMMA TransfersTyped ==
  ASSUME FileManagerAssumption, TypeOK, NEW s \in Sides, NEW n \in 1 .. MaxBatch
  PROVE  /\ Transfers(s, n) \in Seq(TransferTasks) /\ Transfers(s, n) \in Seq(Task)
         /\ Len(Transfers(s, n)) = n
         /\ \A i \in 1 .. n : Transfers(s, n)[i] =
              [op |-> "transfer", side |-> s, from |-> path[s], to |-> path[Other(s)]]
<1> DEFINE t == [op |-> "transfer", side |-> s, from |-> path[s], to |-> path[Other(s)]]
<1>1. t \in TransferTasks /\ t \in Task
  BY Bounds DEF TransferTasks, Task, TypeOK
<1>2. Transfers(s, n) = [i \in 1 .. n |-> t] /\ n \in Nat
  BY Bounds DEF Transfers
<1> HIDE DEF t
<1> QED BY <1>1, <1>2 DEF t

LEMMA StepsTyped ==
  ASSUME NEW t \in Task
  PROVE  Steps(t) \in Seq(Step)
<1>1. t \in Step /\ t.side \in Sides
  BY DEF Task, Step
<1>2. \A s \in Sides : [op |-> "refresh", side |-> s] \in Step
  BY DEF Step
<1>3. [op |-> "refresh", side |-> "remote"] \in Step /\ [op |-> "refresh", side |-> "local"] \in Step
  BY <1>2 DEF Sides
<1> QED BY <1>1, <1>2, <1>3 DEF Steps

\* What the window's thread sends and shows.
LEMMA FrameTypes ==
  ASSUME FileManagerAssumption, TypeOK, NEW s \in Sides
  PROVE  /\ Loop("loop", None, None) \in Frame /\ Loop("alert", None, None) \in Frame
         /\ \A n \in 1 .. MaxBatch :
              Loop("ask", [op |-> "transfer", side |-> s, from |-> path[s], to |-> path[Other(s)], n |-> n], None)
                \in Frame
         /\ Loop("ask", [op |-> "remove", side |-> s, from |-> path[s]], None) \in Frame
         /\ \A b \in Boxes : Loop("box", [op |-> "edit", side |-> s, from |-> path[s]], b) \in Frame
         /\ \A i \in Nat : i # 1 =>
              /\ FrameFits(Loop("alert", None, None), i)
              /\ \A n \in 1 .. MaxBatch :
                   FrameFits(Loop("ask", [op |-> "transfer", side |-> s, from |-> path[s],
                                          to |-> path[Other(s)], n |-> n], None), i)
              /\ FrameFits(Loop("ask", [op |-> "remove", side |-> s, from |-> path[s]], None), i)
              /\ \A b \in Boxes :
                   FrameFits(Loop("box", [op |-> "edit", side |-> s, from |-> path[s]], b), i)
<1>1. path[s] \in Paths /\ path[Other(s)] \in Paths
  BY Bounds DEF TypeOK
<1>2. /\ [op |-> "remove", side |-> s, from |-> path[s]] \in Job
      /\ [op |-> "edit", side |-> s, from |-> path[s]] \in Job
      /\ \A n \in 1 .. MaxBatch :
           [op |-> "transfer", side |-> s, from |-> path[s], to |-> path[Other(s)], n |-> n] \in Job
  BY <1>1 DEF Job
<1>3. ASSUME NEW k \in {"loop", "alert", "ask", "box"}, NEW j \in Job \cup {None}, NEW b \in Boxes \cup {None}
      PROVE  Loop(k, j, b) \in Frame
  BY <1>3 DEF Loop, Frame
<1>4. ASSUME NEW i \in Nat, i # 1
      PROVE  /\ FrameFits(Loop("alert", None, None), i)
             /\ \A j \in Job : j.op \in {"transfer", "remove"} => FrameFits(Loop("ask", j, None), i)
             /\ \A j \in Job, b \in Boxes : j.op = "edit" => FrameFits(Loop("box", j, b), i)
  BY <1>4 DEF Loop, FrameFits
<1> QED BY <1>2, <1>3, <1>4

LEMMA JobTyped ==
  ASSUME NEW job \in Job
  PROVE  /\ job.side \in Sides /\ job.from \in Paths
         /\ job.op = "transfer" => job.n \in 1 .. MaxBatch /\ job.to \in Paths
  BY DEF Job

\* Steps that leave the thread's stack and the panes as they are: those of the workers.
LEMMA WorkKeepsTypes ==
  ASSUME Typed, NEW w \in Workers, UNCHANGED <<thread, pane, boxes, slot, history, lists, acts>>,
         tasks' \in [Workers -> Seq(Task)], todo' \in [Workers -> Seq(Step)],
         updates' \in [Workers -> Seq(Update)], last' \in [Workers -> [Sides -> Paths]],
         worker' \in [Workers -> {"none", "running", "gone"}], dead' \in [Workers -> BOOLEAN],
         files' \in [Sides -> SUBSET Dirs], faults' \in 0 .. MaxFaults
  PROVE  Typed'
<1>1. /\ UNCHANGED <<open_once, cur, live, stack, quit, path, shown, pending, buttons, boxes, slot>>
      /\ UNCHANGED <<undefined, agreed, crossed, overlapped, orphaned, lists, acts>>
  BY DEF thread, pane, history
<1>2. TypeOK'
  BY <1>1, Zenon DEF Typed, TypeOK
<1> QED BY <1>1, <1>2 DEF Typed, FrameFits

LEMMA FaultTyped ==
  ASSUME FileManagerAssumption, TypeOK, Fault \/ UNCHANGED faults
  PROVE  faults' \in 0 .. MaxFaults
  BY Bounds DEF TypeOK, Fault

LEMMA HeadTyped ==
  ASSUME TypeOK, NEW w \in Workers
  PROVE  /\ todo[w] \in Seq(Step) /\ tasks[w] \in Seq(Task) /\ updates[w] \in Seq(Update)
         /\ todo[w] # <<>> => Head(todo[w]) \in Step /\ Tail(todo[w]) \in Seq(Step)
         /\ tasks[w] # <<>> => Head(tasks[w]) \in Task /\ Tail(tasks[w]) \in Seq(Task)
         /\ updates[w] # <<>> => Head(updates[w]) \in Update /\ Tail(updates[w]) \in Seq(Update)
<1>1. todo[w] \in Seq(Step) /\ tasks[w] \in Seq(Task) /\ updates[w] \in Seq(Update)
  BY DEF TypeOK
<1> QED BY <1>1

LEMMA TodoShrinks ==
  ASSUME TypeOK, NEW w \in Workers, todo[w] # <<>>, todo' = [todo EXCEPT ![w] = Tail(@)]
  PROVE  todo' \in [Workers -> Seq(Step)]
  BY HeadTyped DEF TypeOK

LEMMA StepTyped ==
  ASSUME NEW t \in Step
  PROVE  /\ t.side \in Sides
         /\ t.op \in {"list", "remove", "edit", "transfer"} => t.from \in Paths
         /\ t.op = "transfer" => t.to \in Paths
  BY DEF Step, Task

LEMMA UpdatesTyped ==
  ASSUME FileManagerAssumption, TypeOK
  PROVE  /\ Error \in Update /\ Done \in Update
         /\ \A s \in Sides, d \in Paths : Listing(s, d) \in Update
  BY DEF Error, Done, Listing, Update, TypeOK

\* A worker's step keeps the types.
LEMMA WorkTyped ==
  ASSUME FileManagerAssumption, Typed, NEW w \in Workers, Work(w) \/ LoseConnection(w)
  PROVE  Typed'
<1>0. TypeOK
  BY DEF Typed
<1>1. CASE TakeTask(w)
  <2>1. tasks' \in [Workers -> Seq(Task)]
    BY <1>0, <1>1, HeadTyped DEF TakeTask, TypeOK
  <2>2. todo' \in [Workers -> Seq(Step)] /\ updates' \in [Workers -> Seq(Update)]
    <3>1. CASE dead[w]
      <4>1. <<Error>> \in Seq(Update) /\ Report(w, <<Error>>) /\ todo' = todo
        BY <1>0, <1>1, <3>1, UpdatesTyped DEF TakeTask
      <4> QED BY <1>0, <4>1, ReportTyped DEF TypeOK
    <3>2. CASE ~dead[w]
      <4>1. todo' = [todo EXCEPT ![w] = Steps(Head(tasks[w]))] /\ updates' = updates
        BY <1>1, <3>2 DEF TakeTask
      <4>2. Steps(Head(tasks[w])) \in Seq(Step)
        BY <1>0, <1>1, HeadTyped, StepsTyped DEF TakeTask
      <4> QED BY <1>0, <4>1, <4>2 DEF TypeOK
    <3> QED BY <3>1, <3>2
  <2> QED BY <1>0, <1>1, <2>1, <2>2, WorkKeepsTypes DEF TakeTask, TypeOK, bounds
<1>2. CASE ListStep(w)
  <2> DEFINE t == Head(todo[w])
  <2>1. t \in Step /\ t.op \in {"list", "refresh"} /\ todo[w] # <<>> /\ t.side \in Sides
    BY <1>0, <1>2, HeadTyped, StepTyped DEF ListStep
  <2>2. todo' \in [Workers -> Seq(Step)]
    BY <1>0, <1>2, TodoShrinks DEF ListStep
  <2>3. ASSUME NEW d \in Paths, ListDir(w, t.side, d)
        PROVE  updates' \in [Workers -> Seq(Update)] /\ faults' \in 0 .. MaxFaults
    <3>1. Listing(t.side, d) \in Update /\ Error \in Update
      BY <1>0, <2>1, UpdatesTyped
    <3>2. <<Listing(t.side, d)>> \in Seq(Update) /\ <<Error>> \in Seq(Update)
      BY <3>1
    <3>3. UNCHANGED updates \/ Report(w, <<Listing(t.side, d)>>) \/ Report(w, <<Error>>)
      BY <2>3 DEF ListDir
    <3>4. updates' \in [Workers -> Seq(Update)]
      BY <1>0, <3>2, <3>3, ReportTyped DEF TypeOK
    <3> QED BY <1>0, <2>3, <3>4, FaultTyped DEF ListDir
  <2>4. CASE t.op = "list"
    <3>1. t.from \in Paths /\ ListDir(w, t.side, t.from) /\ last' = [last EXCEPT ![w][t.side] = t.from]
      BY <1>2, <2>1, <2>4, StepTyped DEF ListStep
    <3>2. last' \in [Workers -> [Sides -> Paths]]
      BY <1>0, <2>1, <3>1 DEF TypeOK
    <3> QED BY <1>0, <1>2, <2>2, <2>3, <3>1, <3>2, WorkKeepsTypes DEF ListStep, TypeOK
  <2>5. CASE t.op # "list"
    <3>1. ListDir(w, t.side, last[w][t.side]) /\ last' = last
      BY <1>2, <2>1, <2>5 DEF ListStep
    <3>2. last[w][t.side] \in Paths
      <4>1. last \in [Workers -> [Sides -> Paths]]
        BY <1>0, Zenon DEF TypeOK
      <4> HIDE DEF t
      <4> QED BY <2>1, <4>1
    <3> QED BY <1>0, <1>2, <2>2, <2>3, <3>1, <3>2, WorkKeepsTypes DEF ListStep, TypeOK
  <2> QED BY <2>4, <2>5
<1>3. CASE TransferStep(w)
  <2> DEFINE t == Head(todo[w])
  <2>1. t \in Step /\ t.op = "transfer" /\ todo[w] # <<>> /\ t.side \in Sides
    BY <1>0, <1>3, HeadTyped, StepTyped DEF TransferStep
  <2>2. todo' \in [Workers -> Seq(Step)]
    BY <1>0, <1>3, TodoShrinks DEF TransferStep
  <2>3. updates' \in [Workers -> Seq(Update)]
    <3>1. <<Done>> \in Seq(Update) /\ Report(w, <<Done>>)
      BY <1>0, <1>3, UpdatesTyped DEF TransferStep, Done
    <3> QED BY <1>0, <3>1, ReportTyped
  <2>4. files' \in [Sides -> SUBSET Dirs]
    <3>1. CASE files' = files
      BY <1>0, <3>1 DEF TypeOK
    <3>2. CASE files' # files
      <4>1. files' = [files EXCEPT ![Other(t.side)] = @ \cup ({t.to} \cap Dirs)]
        BY <1>3, <3>2 DEF TransferStep
      <4> QED BY <1>0, <2>1, <4>1, Bounds DEF TypeOK
    <3> QED BY <3>1, <3>2
  <2>5. faults' \in 0 .. MaxFaults
    BY <1>0, <1>3, FaultTyped DEF TransferStep
  <2> QED BY <1>0, <1>3, <2>2, <2>3, <2>4, <2>5, WorkKeepsTypes DEF TransferStep, TypeOK
<1>4. CASE ChangeStep(w)
  <2> DEFINE t == Head(todo[w])
  <2>1. t \in Step /\ todo[w] # <<>> /\ t.side \in Sides
    BY <1>0, <1>4, HeadTyped, StepTyped DEF ChangeStep
  <2>2. todo' \in [Workers -> Seq(Step)]
    BY <1>0, <1>4, TodoShrinks DEF ChangeStep
  <2>3. updates' \in [Workers -> Seq(Update)]
    <3>1. <<Error>> \in Seq(Update) /\ (UNCHANGED updates \/ Report(w, <<Error>>))
      BY <1>0, <1>4, UpdatesTyped DEF ChangeStep
    <3> QED BY <1>0, <3>1, ReportTyped DEF TypeOK
  <2>4. files' \in [Sides -> SUBSET Dirs]
    <3>1. files \in [Sides -> SUBSET Dirs]
      BY <1>0, Zenon DEF TypeOK
    <3>2. files' = files \/ files' = [files EXCEPT ![t.side] = @ \ {t.from}]
      BY <1>4, Zenon DEF ChangeStep
    <3> HIDE DEF t
    <3> QED BY <2>1, <3>1, <3>2
  <2>5. faults' \in 0 .. MaxFaults
    BY <1>0, <1>4, FaultTyped DEF ChangeStep
  <2> QED BY <1>0, <1>4, <2>2, <2>3, <2>4, <2>5, WorkKeepsTypes DEF ChangeStep, TypeOK
<1>5. CASE WorkerEnds(w)
  BY <1>0, <1>5, Bounds, WorkKeepsTypes DEF WorkerEnds, TypeOK, bounds
<1>6. CASE LoseConnection(w)
  BY <1>0, <1>6, FaultTyped, WorkKeepsTypes DEF LoseConnection, TypeOK, bounds
<1> QED BY <1>1, <1>2, <1>3, <1>4, <1>5, <1>6 DEF Work

\* Steps of the window's thread leave the workers' part alone, but for the two channels.
LEMMA ThreadKeepsTypes ==
  ASSUME Typed, UNCHANGED <<todo, last, worker, dead, files>>,
         {open_once', live', quit', buttons', undefined', crossed', overlapped', orphaned'} \subseteq BOOLEAN,
         cur' = cur, live' => live, stack' \in Seq(Frame),
         \A i \in DOMAIN stack' : FrameFits(stack'[i], i),
         path' \in [Sides -> Paths], shown' \in [Sides -> BOOLEAN], pending' \in 0 .. MaxBatch,
         boxes' \subseteq Boxes, agreed' \subseteq Boxes, slot' \in Boxes \cup {None},
         tasks' \in [Workers -> Seq(Task)], updates' \in [Workers -> Seq(Update)],
         lists' \in 0 .. MaxLists, acts' \in 0 .. MaxActs, faults' = faults
  PROVE  Typed'
<1>1. /\ todo' \in [Workers -> Seq(Step)] /\ last' \in [Workers -> [Sides -> Paths]]
      /\ worker' \in [Workers -> {"none", "running", "gone"}] /\ dead' \in [Workers -> BOOLEAN]
      /\ files' \in [Sides -> SUBSET Dirs] /\ faults' \in 0 .. MaxFaults /\ cur' \in 0 .. MaxOpens
  BY DEF Typed, TypeOK
<1>2. TypeOK'
  BY <1>1, Zenon DEF TypeOK
<1>3. live' => cur' \in Workers
  BY DEF Typed
<1>4. (\A i \in DOMAIN stack : FrameFits(stack[i], i))'
  BY DEF FrameFits
<1> QED BY <1>2, <1>3, <1>4, Zenon DEF Typed

LEMMA Counters ==
  ASSUME FileManagerAssumption, TypeOK
  PROVE  /\ Act \/ UNCHANGED acts => acts' \in 0 .. MaxActs
         /\ Browse \/ UNCHANGED lists => lists' \in 0 .. MaxLists
<1>1. acts \in 0 .. MaxActs /\ lists \in 0 .. MaxLists
  BY DEF TypeOK
<1>2. Act \/ UNCHANGED acts => acts' \in 0 .. MaxActs
  BY <1>1, Bounds DEF Act
<1>3. Browse \/ UNCHANGED lists => lists' \in 0 .. MaxLists
  BY <1>1, Bounds DEF Browse
<1> QED BY <1>2, <1>3

\* What a press of a button starts from.
LEMMA EnabledMeans ==
  ASSUME Typed, Enabled
  PROVE  /\ live /\ stack # <<>> /\ ~quit /\ ~undefined /\ cur \in Workers /\ stack \in Seq(Frame)
         /\ Top.ans = "open" /\ Top.kind # "ask"
<1>1. live /\ stack # <<>> /\ ~quit /\ ~undefined /\ Top.ans = "open"
  BY Zenon DEF Enabled, Idle, Running
<1>2. Top = stack[Len(stack)] /\ Len(stack) \in DOMAIN stack
  BY <1>1, TopTyped
<1>3. Top.kind # "ask"
  BY <1>1, <1>2 DEF Enabled
<1> QED BY <1>1, <1>3 DEF Typed, TypeOK

\* The booleans of a state.
LEMMA Flags ==
  ASSUME TypeOK
  PROVE  /\ open_once \in BOOLEAN /\ live \in BOOLEAN /\ quit \in BOOLEAN /\ buttons \in BOOLEAN
         /\ undefined \in BOOLEAN /\ crossed \in BOOLEAN /\ overlapped \in BOOLEAN /\ orphaned \in BOOLEAN
  BY Zenon DEF TypeOK

\* What the window's thread does when it starts transfers.
LEMMA StartTyped ==
  ASSUME FileManagerAssumption, Typed, live, NEW s \in Sides, NEW n \in 1 .. MaxBatch, StartTransfers(s, n)
  PROVE  /\ pending' \in 0 .. MaxBatch /\ buttons' \in BOOLEAN /\ overlapped' \in BOOLEAN
         /\ tasks' \in [Workers -> Seq(Task)]
<1>1. pending' = n /\ buttons' = FALSE /\ overlapped' = (overlapped \/ pending > 0)
  BY Zenon DEF StartTransfers
<1>2. tasks' \in [Workers -> Seq(Task)]
  BY TransfersTyped, SendTyped DEF StartTransfers, Typed
<1>3. overlapped' \in BOOLEAN /\ buttons' \in BOOLEAN
  BY <1>1, Zenon
<1>4. pending' \in 0 .. MaxBatch
  BY <1>1, Bounds
<1> QED BY <1>2, <1>3, <1>4

LEMMA NextIndex ==
  ASSUME Typed, stack # <<>>
  PROVE  Len(stack) + 1 \in Nat /\ Len(stack) + 1 # 1
<1>1. Len(stack) \in Nat \ {0}
  BY TopTyped
<1> QED BY <1>1

\* What the person does keeps the types.
LEMMA PersonTyped ==
  ASSUME FileManagerAssumption, Typed, Person
  PROVE  Typed'
<1> USE Flags, Bounds DEF Typed
<1>0. TypeOK
  OBVIOUS
<1>1. CASE Open
  <2>1. /\ cur' = cur + 1 /\ cur' \in Workers /\ cur' \in 0 .. MaxOpens
        /\ open_once' = TRUE /\ live' = TRUE /\ quit' = FALSE /\ orphaned' = FALSE
        /\ stack' = <<Loop("loop", None, None)>>
        /\ UNCHANGED <<boxes, slot, tasks, updates, last, dead, files, undefined, agreed, crossed,
                       overlapped, lists, acts, faults>>
    BY <1>0, <1>1 DEF Open, TypeOK, Workers, bounds
  <2>2. todo' \in [Workers -> Seq(Step)]
    <3>1. List("remote", Root) \in Step /\ List("local", Home) \in Step
      BY DEF List, Step, Task, Sides
    <3>2. <<List("remote", Root), List("local", Home)>> \in Seq(Step)
      BY <3>1
    <3>3. todo' = [todo EXCEPT ![cur'] = <<List("remote", Root), List("local", Home)>>]
      BY <1>1 DEF Open
    <3> QED BY <1>0, <2>1, <3>2, <3>3 DEF TypeOK
  <2>3. worker' \in [Workers -> {"none", "running", "gone"}]
    BY <1>0, <1>1, <2>1 DEF Open, TypeOK
  <2>4. "remote" \in Sides
    BY DEF Sides
  <2>5. stack' \in Seq(Frame) /\ stack' # <<>> /\ Len(stack') = 1 /\ stack'[1] = Loop("loop", None, None)
    <3>1. Loop("loop", None, None) \in Frame
      BY <1>0, <2>4, FrameTypes
    <3> QED BY <2>1, <3>1
  <2>6. \A i \in DOMAIN stack' : FrameFits(stack'[i], i)
    BY <2>5 DEF Loop, FrameFits
  <2>7. /\ path' \in [Sides -> Paths] /\ shown' \in [Sides -> BOOLEAN] /\ pending' \in 0 .. MaxBatch
        /\ buttons' \in BOOLEAN
    BY <1>1 DEF Open, NewPanes
  <2>8. {open_once', live', quit', buttons', undefined', crossed', overlapped', orphaned'} \subseteq BOOLEAN
    BY <1>0, <2>1, <2>7, Zenon
  <2>9. TypeOK'
    BY <1>0, <2>1, <2>2, <2>3, <2>5, <2>7, <2>8 DEF TypeOK
  <2> QED BY <2>1, <2>5, <2>6, <2>9 DEF FrameFits
<1>2. CASE CloseWindow
  <2>1. /\ live' = FALSE /\ quit' = TRUE /\ boxes' = {} /\ agreed' = {} /\ crossed' = FALSE
        /\ overlapped' = FALSE /\ orphaned' = \E i \in DOMAIN stack : stack[i].kind = "box"
        /\ slot' = (IF boxes = {} THEN slot ELSE None)
        /\ updates' = [updates EXCEPT ![cur] = <<>>]
        /\ UNCHANGED <<open_once, cur, stack, tasks, todo, last, worker, dead, files, undefined,
                       lists, acts, faults>>
    BY <1>2 DEF CloseWindow, bounds
  <2>2. /\ path' \in [Sides -> Paths] /\ shown' \in [Sides -> BOOLEAN] /\ pending' \in 0 .. MaxBatch
        /\ buttons' \in BOOLEAN
    BY <1>2 DEF CloseWindow, NewPanes
  <2>3. orphaned' \in BOOLEAN /\ slot' \in Boxes \cup {None}
    BY <1>0, <2>1 DEF TypeOK
  <2>4. {open_once', live', quit', buttons', undefined', crossed', overlapped', orphaned'} \subseteq BOOLEAN
    BY <1>0, <2>1, <2>2, <2>3, Zenon
  <2>5. updates' \in [Workers -> Seq(Update)]
    <3>1. <<>> \in Seq(Update) /\ cur \in Workers
      BY <1>2, EnabledMeans DEF CloseWindow
    <3> QED BY <1>0, <2>1, <3>1 DEF TypeOK
  <2> QED BY <1>0, <2>1, <2>2, <2>3, <2>4, <2>5, ThreadKeepsTypes DEF TypeOK
<1>3. ASSUME NEW s \in Sides, NEW d \in Paths, navigate(s, d) PROVE Typed'
  <2>1. List(s, d) \in Task /\ <<List(s, d)>> \in Seq(Task) /\ cur \in Workers
    BY <1>3, EnabledMeans DEF List, Task, navigate
  <2>2. tasks' \in [Workers -> Seq(Task)]
    BY <1>0, <1>3, <2>1, SendTyped DEF navigate
  <2>3. lists' \in 0 .. MaxLists /\ faults' = faults
    BY <1>0, <1>3, Counters DEF navigate, Browse
  <2>4. /\ UNCHANGED <<open_once, cur, live, stack, quit, path, shown, pending, buttons, boxes, slot>>
        /\ UNCHANGED <<todo, updates, last, worker, dead, files>>
        /\ UNCHANGED <<undefined, agreed, crossed, overlapped, orphaned, acts>>
    BY <1>3 DEF navigate, thread, pane, history
  <2> QED BY <1>0, <2>2, <2>3, <2>4, ThreadKeepsTypes DEF TypeOK
<1>4. ASSUME NEW s \in Sides, NEW n \in 1 .. MaxBatch, Transfer(s, n) PROVE Typed'
  <2> DEFINE job == [op |-> "transfer", side |-> s, from |-> path[s], to |-> path[Other(s)], n |-> n]
  <2>1. Enabled /\ live /\ stack # <<>> /\ cur \in Workers
    BY <1>4, EnabledMeans DEF Transfer
  <2>2. acts' \in 0 .. MaxActs /\ lists' = lists /\ faults' = faults
    BY <1>0, <1>4, Counters DEF Transfer, Act
  <2>3. UNCHANGED <<open_once, cur, live, quit, path, shown, boxes, slot, todo, updates, last,
                    worker, dead, files, undefined, agreed, crossed, orphaned>>
    BY <1>4 DEF Transfer
  <2>4. CASE Overwrites(s)
    <3>1. Push(Loop("ask", job, None)) /\ UNCHANGED <<pending, buttons, tasks, overlapped>>
      BY <1>4, <2>4 DEF Transfer
    <3>2. Loop("ask", job, None) \in Frame /\ FrameFits(Loop("ask", job, None), Len(stack) + 1)
      BY <1>0, <2>1, FrameTypes, NextIndex
    <3>3. stack' \in Seq(Frame) /\ stack' # <<>> /\ \A i \in DOMAIN stack' : FrameFits(stack'[i], i)
      BY <2>1, <3>1, <3>2, PushTyped
    <3> QED BY <1>0, <2>1, <2>2, <2>3, <3>1, <3>3, ThreadKeepsTypes DEF TypeOK
  <2>5. CASE ~Overwrites(s)
    <3>1. StartTransfers(s, n) /\ stack' = stack
      BY <1>4, <2>5 DEF Transfer
    <3>2. /\ pending' \in 0 .. MaxBatch /\ buttons' \in BOOLEAN /\ overlapped' \in BOOLEAN
          /\ tasks' \in [Workers -> Seq(Task)]
      BY <2>1, <3>1, StartTyped
    <3> QED BY <1>0, <2>1, <2>2, <2>3, <3>1, <3>2, ThreadKeepsTypes DEF TypeOK
  <2> QED BY <2>4, <2>5
<1>5. ASSUME NEW s \in Sides, AskRemove(s) PROVE Typed'
  <2> DEFINE f == Loop("ask", [op |-> "remove", side |-> s, from |-> path[s]], None)
  <2>1. Enabled /\ live /\ stack # <<>> /\ Push(f)
    BY <1>5, EnabledMeans DEF AskRemove
  <2>2. f \in Frame /\ FrameFits(f, Len(stack) + 1)
    BY <1>0, <2>1, FrameTypes, NextIndex
  <2> HIDE DEF f
  <2>3. stack' \in Seq(Frame) /\ stack' # <<>> /\ \A i \in DOMAIN stack' : FrameFits(stack'[i], i)
    BY <2>1, <2>2, PushTyped
  <2>4. acts' \in 0 .. MaxActs /\ lists' = lists /\ faults' = faults
    BY <1>0, <1>5, Counters DEF AskRemove, Act
  <2>5. /\ UNCHANGED <<open_once, cur, live, quit, path, shown, pending, buttons, boxes, slot>>
        /\ UNCHANGED <<tasks, todo, updates, last, worker, dead, files>>
        /\ UNCHANGED <<undefined, agreed, crossed, overlapped, orphaned>>
    BY <1>5 DEF AskRemove, pane, work, history
  <2> QED BY <1>0, <2>3, <2>4, <2>5, ThreadKeepsTypes DEF TypeOK
<1>6. ASSUME NEW s \in Sides, Edit(s) PROVE Typed'
  <2>1. PICK b \in Boxes : /\ Push(Loop("box", [op |-> "edit", side |-> s, from |-> path[s]], b))
                           /\ boxes' = boxes \cup {b}
    BY <1>6 DEF Edit
  <2> DEFINE f == Loop("box", [op |-> "edit", side |-> s, from |-> path[s]], b)
  <2>2. Enabled /\ live /\ stack # <<>> /\ Push(f)
    BY <1>6, <2>1, EnabledMeans DEF Edit
  <2>3. f \in Frame /\ FrameFits(f, Len(stack) + 1)
    BY <1>0, <2>2, FrameTypes, NextIndex
  <2> HIDE DEF f
  <2>4. stack' \in Seq(Frame) /\ stack' # <<>> /\ \A i \in DOMAIN stack' : FrameFits(stack'[i], i)
    BY <2>2, <2>3, PushTyped
  <2>5. acts' \in 0 .. MaxActs /\ lists' \in 0 .. MaxLists /\ faults' = faults
    BY <1>0, <1>6, Counters DEF Edit, Act, Browse
  <2>6. crossed' \in BOOLEAN /\ boxes' \subseteq Boxes
    BY <1>0, <1>6, <2>1 DEF Edit, TypeOK
  <2>7. /\ UNCHANGED <<open_once, cur, live, quit, path, shown, pending, buttons, slot>>
        /\ UNCHANGED <<tasks, todo, updates, last, worker, dead, files>>
        /\ UNCHANGED <<undefined, agreed, overlapped, orphaned>>
    BY <1>6 DEF Edit, pane, work
  <2> QED BY <1>0, <2>4, <2>5, <2>6, <2>7, ThreadKeepsTypes DEF TypeOK
<1>7. ASSUME NEW i \in DOMAIN stack, NEW yes \in BOOLEAN, Answer(i, yes) PROVE Typed'
  <2> DEFINE ans == IF yes THEN "yes" ELSE "no"
  <2>1. /\ stack' = [stack EXCEPT ![i].ans = ans] /\ ans \in {"open", "yes", "no"}
        /\ stack \in Seq(Frame) /\ stack # <<>>
    BY <1>0, <1>7 DEF Answer, Idle, Running, TypeOK
  <2> HIDE DEF ans
  <2>2. [stack[i] EXCEPT !.ans = ans] \in Frame
    <3>1. stack[i] \in Frame
      BY <2>1
    <3> QED BY <2>1, <3>1 DEF Frame
  <2>3. /\ stack' \in Seq(Frame) /\ stack' # <<>> /\ DOMAIN stack' = DOMAIN stack
        /\ \A j \in DOMAIN stack : j # i => stack'[j] = stack[j]
        /\ stack'[i] = [stack[i] EXCEPT !.ans = ans]
    BY <2>1, <2>2
  <2>4. \A j \in DOMAIN stack' : FrameFits(stack'[j], j)
    BY <2>1, <2>3 DEF FrameFits, Frame
  <2>5. /\ UNCHANGED <<open_once, cur, live, quit, path, shown, pending, buttons, boxes, slot>>
        /\ UNCHANGED <<tasks, todo, updates, last, worker, dead, files>>
        /\ UNCHANGED <<undefined, agreed, crossed, overlapped, orphaned, lists, acts, faults>>
    BY <1>7 DEF Answer, pane, work, history, bounds
  <2> QED BY <1>0, <2>3, <2>4, <2>5, ThreadKeepsTypes DEF TypeOK
<1>8. ASSUME NEW b \in Boxes, PressOk(b) \/ PressCancel(b) PROVE Typed'
  <2>1. /\ UNCHANGED <<open_once, cur, live, stack, path, shown, pending, buttons>>
        /\ UNCHANGED <<tasks, todo, updates, last, worker, dead, files>>
        /\ UNCHANGED <<undefined, crossed, overlapped, orphaned, lists, acts, faults>>
        /\ boxes' = boxes \ {b} /\ slot' \in {b, None} /\ quit' = TRUE
        /\ agreed' \in {agreed, agreed \cup {b}}
    BY <1>8 DEF PressOk, PressCancel, pane, work, history, bounds
  <2>2. {open_once', live', quit', buttons', undefined', crossed', overlapped', orphaned'} \subseteq BOOLEAN
    BY <1>0, <2>1, Zenon
  <2> QED BY <1>0, <2>1, <2>2, ThreadKeepsTypes DEF TypeOK
<1> QED BY <1>1, <1>2, <1>3, <1>4, <1>5, <1>6, <1>7, <1>8 DEF Person

\* The handlers of the window's thread, once they are alone.
LEMMA WindowTyped ==
  ASSUME FileManagerAssumption, Typed, Window
  PROVE  Typed'
<1> USE Flags, Bounds DEF Typed
<1>0. TypeOK
  OBVIOUS
<1>1. CASE BoxReturns
  <2>1. /\ stack # <<>> /\ Top.kind \in {"ask", "alert"} /\ stack' = Below
        /\ UNCHANGED <<open_once, cur, live, quit, path, shown, boxes, slot, todo, updates, last,
                       worker, dead, files, agreed, crossed, orphaned, lists, acts, faults>>
    BY <1>1 DEF BoxReturns, Running, bounds
  <2>2. stack' \in Seq(Frame) /\ stack' # <<>> /\ \A i \in DOMAIN stack' : FrameFits(stack'[i], i)
    BY <2>1, TopTyped
  <2>3. undefined' \in BOOLEAN
    <3>1. undefined' = ((Top.ans = "yes" \/ Top.kind = "alert") /\ ~live)
      BY <1>1, Zenon DEF BoxReturns
    <3> QED BY <3>1, Zenon
  <2>4. /\ pending' \in 0 .. MaxBatch /\ buttons' \in BOOLEAN /\ overlapped' \in BOOLEAN
        /\ tasks' \in [Workers -> Seq(Task)]
    <3>1. CASE UNCHANGED <<pending, buttons, tasks, overlapped>>
      BY <1>0, <3>1 DEF TypeOK
    <3>2. CASE live /\ Top.kind = "ask" /\ Top.job.op = "transfer" /\ StartTransfers(Top.job.side, Top.job.n)
      <4>1. Top.job \in Job
        BY <2>1, <3>2, TopTyped DEF FrameFits
      <4>2. Top.job.side \in Sides /\ Top.job.n \in 1 .. MaxBatch
        BY <3>2, <4>1, JobTyped
      <4> QED BY <3>2, <4>2, StartTyped
    <3>3. CASE /\ live /\ Top.kind = "ask" /\ Top.job.op # "transfer"
               /\ Send(cur, <<RemoveTask(Top.job)>>) /\ UNCHANGED <<pending, buttons, overlapped>>
      <4>1. Top.job \in Job
        BY <2>1, <3>3, TopTyped DEF FrameFits
      <4>2. RemoveTask(Top.job) \in Task
        BY <4>1, JobTyped DEF RemoveTask, Task
      <4>3. <<RemoveTask(Top.job)>> \in Seq(Task)
        BY <4>2
      <4> QED BY <1>0, <3>3, <4>3, SendTyped DEF TypeOK
    <3>4. \/ UNCHANGED <<pending, buttons, tasks, overlapped>>
          \/ /\ live /\ Top.kind = "ask" /\ Top.job.op = "transfer"
             /\ StartTransfers(Top.job.side, Top.job.n)
          \/ /\ live /\ Top.kind = "ask" /\ Top.job.op # "transfer"
             /\ Send(cur, <<RemoveTask(Top.job)>>) /\ UNCHANGED <<pending, buttons, overlapped>>
      BY <1>1, Zenon DEF BoxReturns
    <3> QED BY <3>1, <3>2, <3>3, <3>4, Zenon
  <2>5. /\ UNCHANGED <<todo, last, worker, dead, files>>
        /\ cur' = cur /\ (live' => live) /\ faults' = faults
    BY <2>1
  <2>6. /\ path' \in [Sides -> Paths] /\ shown' \in [Sides -> BOOLEAN]
        /\ boxes' \subseteq Boxes /\ agreed' \subseteq Boxes /\ slot' \in Boxes \cup {None}
        /\ updates' \in [Workers -> Seq(Update)] /\ lists' \in 0 .. MaxLists /\ acts' \in 0 .. MaxActs
    BY <1>0, <2>1, Zenon DEF TypeOK
  <2>7. {open_once', live', quit', buttons', undefined', crossed', overlapped', orphaned'} \subseteq BOOLEAN
    BY <1>0, <2>1, <2>3, <2>4, Zenon DEF TypeOK
  <2> QED BY <2>2, <2>4, <2>5, <2>6, <2>7, ThreadKeepsTypes
<1>2. CASE InputReturns
  <2>1. /\ stack # <<>> /\ Top.kind = "box" /\ stack' = Below /\ quit' = FALSE /\ slot' = None
        /\ agreed' = agreed \ {slot} /\ undefined' = (slot # None /\ ~live)
        /\ UNCHANGED <<open_once, cur, live, path, shown, pending, buttons, boxes, todo, updates, last,
                       worker, dead, files, crossed, overlapped, orphaned, lists, acts, faults>>
    BY <1>2 DEF InputReturns, Running, bounds, pane
  <2>2. stack' \in Seq(Frame) /\ stack' # <<>> /\ \A i \in DOMAIN stack' : FrameFits(stack'[i], i)
    BY <2>1, TopTyped
  <2>3. tasks' \in [Workers -> Seq(Task)]
    <3>1. CASE UNCHANGED tasks
      BY <1>0, <3>1 DEF TypeOK
    <3>2. CASE live /\ Send(cur, <<[op |-> "edit", side |-> Top.job.side, from |-> Top.job.from]>>)
      <4>1. Top.job \in Job
        BY <2>1, TopTyped DEF FrameFits
      <4>2. [op |-> "edit", side |-> Top.job.side, from |-> Top.job.from] \in Task
        BY <4>1, JobTyped DEF Task
      <4>3. <<[op |-> "edit", side |-> Top.job.side, from |-> Top.job.from]>> \in Seq(Task)
        BY <4>2
      <4> QED BY <1>0, <3>2, <4>3, SendTyped
    <3> QED BY <1>2, <3>1, <3>2 DEF InputReturns
  <2>4. {open_once', live', quit', buttons', undefined', crossed', overlapped', orphaned'} \subseteq BOOLEAN
    BY <1>0, <2>1, Zenon
  <2> QED BY <1>0, <2>1, <2>2, <2>3, <2>4, ThreadKeepsTypes DEF TypeOK
<1>3. CASE LoopEnds
  <2>1. /\ stack' = <<>> /\ quit' = FALSE /\ open_once' = FALSE
        /\ UNCHANGED <<cur, live, path, shown, pending, buttons, boxes, slot>>
        /\ UNCHANGED <<tasks, todo, updates, last, worker, dead, files>>
        /\ UNCHANGED <<undefined, agreed, crossed, overlapped, orphaned, lists, acts, faults>>
    BY <1>3 DEF LoopEnds, pane, work, history, bounds
  <2>2. stack' \in Seq(Frame) /\ DOMAIN stack' = {}
    BY <2>1
  <2>3. {open_once', live', quit', buttons', undefined', crossed', overlapped', orphaned'} \subseteq BOOLEAN
    BY <1>0, <2>1, Zenon
  <2> QED BY <1>0, <2>1, <2>2, <2>3, ThreadKeepsTypes DEF TypeOK
<1>4. CASE TakeUpdate
  <2> DEFINE u == Head(updates[cur])
  <2>1. /\ live /\ stack # <<>> /\ cur \in Workers /\ updates[cur] # <<>>
        /\ updates' = [updates EXCEPT ![cur] = Tail(@)]
        /\ UNCHANGED <<open_once, cur, live, quit, boxes, slot, tasks, todo, last, worker, dead, files>>
        /\ UNCHANGED <<undefined, agreed, crossed, overlapped, orphaned, lists, acts, faults>>
    BY <1>4 DEF TakeUpdate, Idle, Running, history, bounds
  <2>2. u \in Update /\ updates' \in [Workers -> Seq(Update)]
    BY <1>0, <2>1, HeadTyped DEF TypeOK
  <2>3. stack \in Seq(Frame)
    BY <1>0 DEF TypeOK
  <2>4. CASE /\ u.what = "listing" /\ UNCHANGED <<pending, buttons>>
             /\ path' = [path EXCEPT ![u.side] = u.dir]
             /\ shown' = [shown EXCEPT ![u.side] = u.shown]
             /\ stack' = [i \in DOMAIN stack |-> [stack[i] EXCEPT !.moved = stack[i].kind = "ask"]]
    <3>1. u.side \in Sides /\ u.dir \in Paths /\ u.shown \in BOOLEAN
      BY <2>2, <2>4 DEF Update
    <3>2. path' \in [Sides -> Paths] /\ shown' \in [Sides -> BOOLEAN]
      BY <1>0, <2>4, <3>1, Zenon DEF TypeOK
    <3>3. \A i \in DOMAIN stack : [stack[i] EXCEPT !.moved = stack[i].kind = "ask"] \in Frame
      <4> TAKE i \in DOMAIN stack
      <4> DEFINE b == stack[i].kind = "ask"
      <4>1. stack[i] \in Frame /\ b \in BOOLEAN
        BY <2>3
      <4> HIDE DEF b
      <4>2. [stack[i] EXCEPT !.moved = b] \in Frame
        BY <4>1 DEF Frame
      <4> QED BY <4>2 DEF b
    <3>4. stack' \in Seq(Frame) /\ DOMAIN stack' = DOMAIN stack
      BY <2>3, <2>4, <3>3
    <3>5. \A i \in DOMAIN stack : /\ stack'[i].kind = stack[i].kind /\ stack'[i].job = stack[i].job
                                  /\ stack'[i].box = stack[i].box
      <4> TAKE i \in DOMAIN stack
      <4>1. stack[i] \in Frame
        BY <2>3
      <4>2. stack'[i] = [stack[i] EXCEPT !.moved = stack[i].kind = "ask"]
        BY <2>4
      <4> QED BY <4>1, <4>2 DEF Frame
    <3>6. \A i \in DOMAIN stack' : FrameFits(stack'[i], i)
      BY <3>4, <3>5 DEF FrameFits
    <3> QED BY <1>0, <2>1, <2>2, <2>4, <3>2, <3>4, <3>6, ThreadKeepsTypes DEF TypeOK
  <2>5. CASE /\ u.what = "done" /\ UNCHANGED <<path, shown, stack>>
             /\ pending' = (IF pending = 0 THEN 0 ELSE pending - 1)
             /\ buttons' = (buttons \/ pending' = 0)
    <3>1. pending' \in 0 .. MaxBatch
      BY <1>0, <2>5 DEF TypeOK
    <3>2. buttons' \in BOOLEAN
      BY <2>5, Zenon
    <3> QED BY <1>0, <2>1, <2>2, <2>5, <3>1, <3>2, ThreadKeepsTypes DEF TypeOK
  <2>6. CASE /\ u.what = "error" /\ Push(Loop("alert", None, None)) /\ UNCHANGED pane
    <3>1. Loop("alert", None, None) \in Frame /\ FrameFits(Loop("alert", None, None), Len(stack) + 1)
      BY <1>0, <2>1, FrameTypes, NextIndex DEF Sides
    <3>2. stack' \in Seq(Frame) /\ \A i \in DOMAIN stack' : FrameFits(stack'[i], i)
      BY <2>1, <2>6, <3>1, PushTyped
    <3> QED BY <1>0, <2>1, <2>2, <2>6, <3>2, ThreadKeepsTypes DEF TypeOK, pane
  <2> QED BY <1>4, <2>4, <2>5, <2>6, Zenon DEF TakeUpdate
<1> QED BY <1>1, <1>2, <1>3, <1>4 DEF Window

LEMMA TypesHold == Spec => []Typed
<1> FileManagerAssumption
  BY FileManagerAssumption
<1>1. Init => Typed
  <2> SUFFICES ASSUME Init PROVE Typed
    OBVIOUS
  <2>1. /\ {open_once, live, quit, buttons, undefined, crossed, overlapped, orphaned} \subseteq BOOLEAN
        /\ stack = <<>> /\ live = FALSE
    BY Zenon DEF Init
  <2>2. TypeOK
    BY <2>1, Bounds DEF Init, TypeOK
  <2>3. DOMAIN stack = {}
    BY <2>1
  <2> QED BY <2>1, <2>2, <2>3 DEF Typed
<1>2. Typed /\ [Next]_vars => Typed'
  <2> SUFFICES ASSUME Typed, [Next]_vars PROVE Typed'
    OBVIOUS
  <2>1. CASE UNCHANGED vars
    BY <2>1 DEF vars, thread, pane, work, history, bounds, Typed, TypeOK, FrameFits
  <2> QED BY <2>1, PersonTyped, WindowTyped, WorkTyped DEF Next
<1> QED BY <1>1, <1>2, PTL DEF Spec

\* The types of both threads, for any directories, boxes and bounds.
THEOREM TypeCorrect == Spec => []TypeOK
<1>1. Typed => TypeOK
  BY DEF Typed
<1> QED BY <1>1, TypesHold, PTL

-----------------------------------------------------------------------------
(* What is asked is what is done                                           *)

\* As long as no listing arrived, a question about a transfer is about the directories
\* that the panes show.
AskInv ==
  live => \A i \in DOMAIN stack :
    stack[i].kind = "ask" /\ ~stack[i].moved /\ stack[i].job.op = "transfer"
      => /\ stack[i].job.from = path[stack[i].job.side]
         /\ stack[i].job.to = path[Other(stack[i].job.side)]

\* The workers' steps, and those that leave the stack and the panes alone.
LEMMA AskInvStays ==
  ASSUME AskInv, UNCHANGED <<stack, path>>, live' => live
  PROVE  AskInv'
  BY DEF AskInv

\* A loop more, or one less.
LEMMA AskInvPushed ==
  ASSUME Typed, AskInv, stack # <<>>, NEW f \in Frame, Push(f), path' = path, live' = live,
         f.kind = "ask" /\ ~f.moved /\ f.job.op = "transfer"
           => f.job.from = path[f.job.side] /\ f.job.to = path[Other(f.job.side)]
  PROVE  AskInv'
<1>1. stack \in Seq(Frame) /\ stack' = Append(stack, f)
  BY DEF Typed, TypeOK, Push
<1>2. /\ stack'[Len(stack) + 1] = f
      /\ \A i \in DOMAIN stack : stack'[i] = stack[i]
      /\ \A i \in DOMAIN stack' : i \in DOMAIN stack \/ i = Len(stack) + 1
  BY <1>1
<1> QED BY <1>2 DEF AskInv

LEMMA AskInvPopped ==
  ASSUME Typed, AskInv, stack # <<>>, stack' = Below, path' = path, live' = live
  PROVE  AskInv'
  BY TopTyped DEF AskInv

LEMMA AskInvKept ==
  ASSUME FileManagerAssumption, Typed, AskInv, [Next]_vars
  PROVE  AskInv'
<1>0. TypeOK
  BY DEF Typed
<1>1. CASE Open
  <2>1. stack' = <<Loop("loop", None, None)>>
    BY <1>1 DEF Open
  <2>2. DOMAIN stack' = {1} /\ stack'[1].kind = "loop"
    BY <2>1 DEF Loop
  <2> QED BY <2>2 DEF AskInv
<1>2. CASE CloseWindow
  BY <1>2 DEF CloseWindow, AskInv
<1>3. ASSUME NEW s \in Sides, NEW d \in Paths, navigate(s, d) PROVE AskInv'
  BY <1>3, AskInvStays DEF navigate, thread, pane
<1>4. ASSUME NEW s \in Sides, NEW n \in 1 .. MaxBatch, Transfer(s, n) PROVE AskInv'
  <2> DEFINE job == [op |-> "transfer", side |-> s, from |-> path[s], to |-> path[Other(s)], n |-> n]
  <2>1. Enabled /\ stack # <<>> /\ UNCHANGED <<path, live>>
    BY <1>4, EnabledMeans DEF Transfer
  <2>2. CASE stack' = stack
    BY <2>1, <2>2, AskInvStays
  <2>3. CASE Push(Loop("ask", job, None))
    <3>1. Loop("ask", job, None) \in Frame
      BY <1>0, FrameTypes
    <3>2. Loop("ask", job, None).job = job
      BY DEF Loop
    <3> QED BY <2>1, <2>3, <3>1, <3>2, AskInvPushed
  <2> QED BY <1>4, <2>2, <2>3 DEF Transfer
<1>5. ASSUME NEW s \in Sides, AskRemove(s) PROVE AskInv'
  <2> DEFINE job == [op |-> "remove", side |-> s, from |-> path[s]]
  <2>1. Enabled /\ stack # <<>> /\ UNCHANGED <<path, live>> /\ Push(Loop("ask", job, None))
    BY <1>5, EnabledMeans DEF AskRemove, pane
  <2>2. Loop("ask", job, None) \in Frame
    BY <1>0, FrameTypes
  <2>3. Loop("ask", job, None).job = job
    BY DEF Loop
  <2> QED BY <2>1, <2>2, <2>3, AskInvPushed
<1>6. ASSUME NEW s \in Sides, Edit(s) PROVE AskInv'
  <2> DEFINE job == [op |-> "edit", side |-> s, from |-> path[s]]
  <2>1. PICK b \in Boxes : Push(Loop("box", job, b))
    BY <1>6 DEF Edit
  <2>2. Enabled /\ stack # <<>> /\ UNCHANGED <<path, live>>
    BY <1>6, EnabledMeans DEF Edit, pane
  <2>3. Loop("box", job, b) \in Frame
    BY <1>0, FrameTypes
  <2>4. Loop("box", job, b).kind = "box"
    BY DEF Loop
  <2> QED BY <2>1, <2>2, <2>3, <2>4, AskInvPushed
<1>7. ASSUME NEW i \in DOMAIN stack, NEW yes \in BOOLEAN, Answer(i, yes) PROVE AskInv'
  <2> DEFINE ans == IF yes THEN "yes" ELSE "no"
  <2>1. stack' = [stack EXCEPT ![i].ans = ans] /\ UNCHANGED <<path, live>> /\ stack \in Seq(Frame)
    BY <1>0, <1>7 DEF Answer, pane, TypeOK
  <2> HIDE DEF ans
  <2>2. /\ DOMAIN stack' = DOMAIN stack
        /\ \A j \in DOMAIN stack : j # i => stack'[j] = stack[j]
        /\ stack'[i] = [stack[i] EXCEPT !.ans = ans] /\ stack[i] \in Frame
    BY <2>1
  <2>3. /\ stack'[i].kind = stack[i].kind /\ stack'[i].job = stack[i].job
        /\ stack'[i].moved = stack[i].moved
    BY <2>2 DEF Frame
  <2> QED BY <2>1, <2>2, <2>3 DEF AskInv
<1>8. ASSUME NEW b \in Boxes, PressOk(b) \/ PressCancel(b) PROVE AskInv'
  BY <1>8, AskInvStays DEF PressOk, PressCancel, pane
<1>9. CASE BoxReturns \/ InputReturns
  BY <1>9, AskInvPopped DEF BoxReturns, InputReturns, Running, pane
<1>10. CASE LoopEnds
  BY <1>10 DEF LoopEnds, AskInv
<1>11. CASE TakeUpdate
  <2>1. stack # <<>> /\ live' = live /\ stack \in Seq(Frame)
    BY <1>0, <1>11 DEF TakeUpdate, Idle, Running, TypeOK
  <2>2. CASE stack' = [i \in DOMAIN stack |-> [stack[i] EXCEPT !.moved = stack[i].kind = "ask"]]
    <3>1. ASSUME NEW i \in DOMAIN stack' PROVE stack'[i].kind = "ask" => stack'[i].moved
      <4>1. i \in DOMAIN stack /\ stack[i] \in Frame /\ stack'[i] = [stack[i] EXCEPT !.moved = stack[i].kind = "ask"]
        BY <2>1, <2>2
      <4> DEFINE b == stack[i].kind = "ask"
      <4>2. stack'[i].kind = stack[i].kind /\ stack'[i].moved = b
        BY <4>1 DEF Frame
      <4> QED BY <4>2
    <3> QED BY <3>1 DEF AskInv
  <2>3. CASE UNCHANGED <<path, stack>>
    BY <2>1, <2>3, AskInvStays
  <2>4. CASE Push(Loop("alert", None, None)) /\ UNCHANGED pane
    <3>1. Loop("alert", None, None) \in Frame /\ Loop("alert", None, None).kind = "alert"
      BY <1>0, FrameTypes DEF Sides, Loop
    <3> QED BY <2>1, <2>4, <3>1, AskInvPushed DEF pane
  <2> QED BY <1>11, <2>2, <2>3, <2>4 DEF TakeUpdate
<1>12. ASSUME NEW w \in Workers, Work(w) \/ LoseConnection(w) PROVE AskInv'
  <2>1. UNCHANGED <<thread, pane>>
    BY <1>12 DEF Work, TakeTask, ListStep, TransferStep, ChangeStep, WorkerEnds, LoseConnection
  <2> QED BY <2>1, AskInvStays DEF thread, pane
<1>13. CASE UNCHANGED vars
  BY <1>13, AskInvStays DEF vars, thread, pane
<1> QED
  BY <1>1, <1>2, <1>3, <1>4, <1>5, <1>6, <1>7, <1>8, <1>9, <1>10, <1>11, <1>12, <1>13
     DEF Next, Person, Window

\* Only these handlers send tasks, and only to the window's own worker.
LEMMA WhoSends ==
  ASSUME Typed, [Next]_vars, NEW w \in Workers, Len(tasks'[w]) > Len(tasks[w])
  PROVE  \/ \E s \in Sides, d \in Paths : navigate(s, d)
         \/ \E s \in Sides, n \in 1 .. MaxBatch : Transfer(s, n)
         \/ BoxReturns \/ InputReturns
<1>1. tasks'[w] # tasks[w] /\ tasks[w] \in Seq(Task)
  BY DEF Typed, TypeOK
<1>2. ASSUME NEW v \in Workers, TakeTask(v) PROVE FALSE
  <2>1. v = w => Len(tasks'[w]) = Len(tasks[w]) - 1 /\ Len(tasks[w]) \in Nat
    BY <1>1, <1>2 DEF TakeTask, Typed, TypeOK
  <2>2. v # w => tasks'[w] = tasks[w]
    BY <1>2 DEF TakeTask, Typed, TypeOK
  <2> QED BY <1>1, <2>1, <2>2
<1> QED
  BY <1>1, <1>2 DEF Next, Person, Window, Work, Open, CloseWindow, AskRemove, Edit, Answer, PressOk,
     PressCancel, LoopEnds, TakeUpdate, ListStep, TransferStep, ChangeStep, WorkerEnds, LoseConnection,
     vars, work

\* A task is sent at the end of the channel.
LEMMA SentLast ==
  ASSUME Typed, NEW w \in Workers, NEW new \in Seq(Task), new # <<>>, live, Send(cur, new),
         Len(tasks'[w]) > Len(tasks[w])
  PROVE  w = cur /\ Last(tasks'[w]) = new[Len(new)]
<1>1. cur \in Workers /\ tasks \in [Workers -> Seq(Task)]
  BY DEF Typed, TypeOK
<1>2. tasks' = [tasks EXCEPT ![cur] = tasks[cur] \o new]
  BY <1>1 DEF Send
<1>3. w = cur
  BY <1>1, <1>2
<1>4. tasks'[w] = tasks[w] \o new
  BY <1>1, <1>2, <1>3
<1>5. Len(tasks'[w]) = Len(tasks[w]) + Len(new) /\ tasks'[w][Len(tasks[w]) + Len(new)] = new[Len(new)]
  BY <1>1, <1>4
<1> QED BY <1>3, <1>5 DEF Last

\* What a question was about is done when it is answered, although the question lets
\* listings in: a deletion is of the directory it was asked about, and so is a transfer
\* if neither pane changed meanwhile.
THEOREM DoneAsAsked == Spec => AsAsked
<1> FileManagerAssumption
  BY FileManagerAssumption
<1>1. Init => AskInv
  BY DEF Init, AskInv
<1>2. ASSUME Typed, AskInv, [Next]_vars, NEW w \in Workers,
             Len(tasks'[w]) > Len(tasks[w]), Top.kind = "ask"
      PROVE  LET t == Last(tasks'[w]) job == Top.job IN
               /\ t.op = job.op /\ t.side = job.side
               /\ t.op = "remove" => t.from = job.from
               /\ t.op = "transfer" => Top.moved \/ <<t.from, t.to>> = <<job.from, job.to>>
  <2>1. BoxReturns
    <3>1. ~Enabled
      BY <1>2, EnabledMeans
    <3>2. ~InputReturns
      BY <1>2 DEF InputReturns
    <3> QED BY <1>2, <3>1, <3>2, WhoSends DEF navigate, Transfer
  <2>2. stack # <<>> /\ path' = path
    BY <2>1 DEF BoxReturns, Running
  <2>3. /\ Top.job \in Job /\ Top.job.op \in {"transfer", "remove"} /\ Len(stack) \in DOMAIN stack
        /\ Top = stack[Len(stack)]
    BY <1>2, <2>2, TopTyped DEF FrameFits
  <2>4. tasks'[w] # tasks[w]
    BY <1>2 DEF Typed, TypeOK
  <2>5. CASE live /\ Top.job.op = "transfer" /\ StartTransfers(Top.job.side, Top.job.n)
    <3> DEFINE s == Top.job.side
    <3> DEFINE n == Top.job.n
    <3>1. s \in Sides /\ n \in 1 .. MaxBatch
      BY <2>3, <2>5, JobTyped
    <3>2. /\ Transfers(s, n) \in Seq(Task) /\ Len(Transfers(s, n)) = n /\ n \in Nat \ {0}
          /\ Transfers(s, n)[n] = [op |-> "transfer", side |-> s, from |-> path[s], to |-> path[Other(s)]]
      BY <1>2, <3>1, TransfersTyped, Bounds DEF Typed
    <3>3. Transfers(s, n) # <<>> /\ Send(cur, Transfers(s, n))
      BY <2>5, <3>2 DEF StartTransfers
    <3>4. Last(tasks'[w]) = [op |-> "transfer", side |-> s, from |-> path[s], to |-> path[Other(s)]]
      BY <1>2, <2>5, <3>2, <3>3, SentLast
    <3>5. Top.moved \/ <<path[s], path[Other(s)]>> = <<Top.job.from, Top.job.to>>
      BY <1>2, <2>3, <2>5 DEF AskInv
    <3> QED BY <2>5, <3>4, <3>5
  <2>6. CASE live /\ Top.job.op # "transfer" /\ Send(cur, <<RemoveTask(Top.job)>>)
    <3>1. RemoveTask(Top.job) \in Task
      BY <2>3, JobTyped DEF RemoveTask, Task
    <3>2. /\ <<RemoveTask(Top.job)>> \in Seq(Task) /\ <<RemoveTask(Top.job)>> # <<>>
          /\ <<RemoveTask(Top.job)>>[Len(<<RemoveTask(Top.job)>>)] = RemoveTask(Top.job)
      BY <3>1
    <3>3. Last(tasks'[w]) = RemoveTask(Top.job)
      BY <1>2, <2>6, <3>2, SentLast
    <3> QED BY <2>3, <2>6, <3>3 DEF RemoveTask
  <2>7. CASE UNCHANGED tasks
    BY <2>4, <2>7
  <2> QED BY <2>1, <2>5, <2>6, <2>7, Zenon DEF BoxReturns
<1>3. Typed /\ AskInv /\ [Next]_vars =>
        [\A w \in Workers :
           Len(tasks'[w]) > Len(tasks[w]) /\ Top.kind = "ask"
             => LET t == Last(tasks'[w]) job == Top.job IN
                /\ t.op = job.op /\ t.side = job.side
                /\ t.op = "remove" => t.from = job.from
                /\ t.op = "transfer" => Top.moved \/ <<t.from, t.to>> = <<job.from, job.to>>]_vars
  BY <1>2, Zenon
<1> QED
  BY <1>1, <1>3, TypesHold, AskInvKept, PTL DEF Spec, AsAsked

-----------------------------------------------------------------------------
(* An answer belongs to its operation                                      *)

(* Every input box posts one quit when it goes, and every loop that waits  *)
(* for one takes one: while the window lives there are as many such loops  *)
(* as boxes on the screen and quits on their way.  So a quit that a box    *)
(* posted never ends the window's own loop, and a text in the slot always  *)
(* finds a loop that waits for it.                                         *)
BoxFrames == {i \in DOMAIN stack : stack[i].kind = "box"}

OneLoopEach ==
  live => Cardinality(BoxFrames) = Cardinality(boxes) + (IF quit THEN 1 ELSE 0)

\* Without two boxes at once there is one loop, and it is that of the box.
Single ==
  live /\ ~crossed =>
    /\ \A i, j \in BoxFrames : i = j
    /\ \A b \in boxes : \E i \in BoxFrames : stack[i].box = b

SlotAwaited ==
  slot # None => /\ live /\ quit /\ slot \in agreed
                 /\ ~crossed => \E i \in BoxFrames : stack[i].box = slot

BoxInv ==
  /\ IsFiniteSet(boxes) /\ OneLoopEach /\ Single /\ SlotAwaited
  /\ live => open_once /\ stack # <<>>
  /\ ~live => boxes = {}

\* The loops of boxes are finitely many, and above the window's own.
LEMMA BoxFramesFinite ==
  ASSUME Typed
  PROVE  IsFiniteSet(BoxFrames) /\ Cardinality(BoxFrames) \in Nat /\ 1 \notin BoxFrames
<1>1. stack \in Seq(Frame) /\ Len(stack) \in Nat
  BY DEF Typed, TypeOK
<1>2. IsFiniteSet(1 .. Len(stack))
  BY <1>1, FS_Interval
<1>3. BoxFrames \in SUBSET (1 .. Len(stack))
  BY <1>1 DEF BoxFrames
<1>4. IsFiniteSet(BoxFrames)
  BY <1>2, <1>3, FS_Subset
<1>5. 1 \notin BoxFrames
  BY DEF BoxFrames, Typed, FrameFits
<1> QED BY <1>4, <1>5, FS_CardinalityType

\* The same loops wait for the same boxes.
LEMMA SameBoxes ==
  ASSUME BoxInv, {i \in DOMAIN stack' : stack'[i].kind = "box"} = BoxFrames,
         \A i \in BoxFrames : stack'[i].box = stack[i].box, stack # <<>> => stack' # <<>>,
         UNCHANGED <<open_once, live, quit, boxes, slot, crossed, agreed>>
  PROVE  BoxInv'
<1>1. BoxFrames' = BoxFrames
  BY DEF BoxFrames
<1>2. \A i \in BoxFrames' : stack'[i].box = stack[i].box
  BY <1>1
<1> QED BY <1>1, <1>2 DEF BoxInv, OneLoopEach, Single, SlotAwaited

\* A question or an error comes up.
LEMMA BoxesPushed ==
  ASSUME Typed, BoxInv, stack # <<>>, NEW f \in Frame, Push(f), f.kind # "box",
         UNCHANGED <<open_once, live, quit, boxes, slot, crossed, agreed>>
  PROVE  BoxInv'
<1>1. stack \in Seq(Frame) /\ stack' = Append(stack, f)
  BY DEF Typed, TypeOK, Push
<1>2. /\ stack'[Len(stack) + 1] = f /\ stack' # <<>>
      /\ \A i \in DOMAIN stack : i \in DOMAIN stack' /\ stack'[i] = stack[i]
      /\ \A i \in DOMAIN stack' : i \in DOMAIN stack \/ i = Len(stack) + 1
  BY <1>1
<1>3. {i \in DOMAIN stack' : stack'[i].kind = "box"} = BoxFrames
  BY <1>2 DEF BoxFrames
<1>4. \A i \in BoxFrames : stack'[i].box = stack[i].box
  BY <1>2 DEF BoxFrames
<1> QED BY <1>2, <1>3, <1>4, SameBoxes

LEMMA BoxInvKept ==
  ASSUME FileManagerAssumption, Typed, BoxInv, [Next]_vars
  PROVE  BoxInv'
<1>0. TypeOK
  BY DEF Typed
<1>1. CASE Open
  <2>1. ~live /\ boxes = {} /\ slot = None
    BY <1>1 DEF Open, BoxInv, SlotAwaited
  <2>2. /\ stack' = <<Loop("loop", None, None)>> /\ live' = TRUE /\ open_once' = TRUE /\ quit' = FALSE
        /\ UNCHANGED <<boxes, slot, crossed, agreed>>
    BY <1>1 DEF Open
  <2>3. DOMAIN stack' = {1} /\ stack'[1].kind = "loop" /\ stack' # <<>>
    BY <2>2 DEF Loop
  <2>4. BoxFrames' = {}
    BY <2>3 DEF BoxFrames
  <2>5. Cardinality({}) = 0 /\ IsFiniteSet({})
    BY FS_EmptySet
  <2> QED BY <2>1, <2>2, <2>3, <2>4, <2>5 DEF BoxInv, OneLoopEach, Single, SlotAwaited
<1>2. CASE CloseWindow
  <2>1. ~quit /\ slot = None
    BY <1>2, EnabledMeans DEF CloseWindow, BoxInv, SlotAwaited
  <2>2. live' = FALSE /\ boxes' = {} /\ slot' = None
    BY <1>2, <2>1 DEF CloseWindow
  <2>3. IsFiniteSet({})
    BY FS_EmptySet
  <2> QED BY <2>2, <2>3 DEF BoxInv, OneLoopEach, Single, SlotAwaited
<1>3. ASSUME NEW s \in Sides, NEW d \in Paths, navigate(s, d) PROVE BoxInv'
  <2>1. UNCHANGED <<open_once, live, quit, stack, boxes, slot, crossed, agreed>>
    BY <1>3 DEF navigate, thread, history
  <2> QED BY <2>1, SameBoxes DEF BoxFrames
<1>4. ASSUME NEW s \in Sides, NEW n \in 1 .. MaxBatch, Transfer(s, n) PROVE BoxInv'
  <2> DEFINE job == [op |-> "transfer", side |-> s, from |-> path[s], to |-> path[Other(s)], n |-> n]
  <2>1. Enabled /\ stack # <<>> /\ UNCHANGED <<open_once, live, quit, boxes, slot, crossed, agreed>>
    BY <1>4, EnabledMeans DEF Transfer
  <2>2. CASE stack' = stack
    BY <2>1, <2>2, SameBoxes DEF BoxFrames
  <2>3. CASE Push(Loop("ask", job, None))
    <3>1. Loop("ask", job, None) \in Frame /\ Loop("ask", job, None).kind = "ask"
      BY <1>0, FrameTypes DEF Loop
    <3> QED BY <2>1, <2>3, <3>1, BoxesPushed
  <2> QED BY <1>4, <2>2, <2>3 DEF Transfer
<1>5. ASSUME NEW s \in Sides, AskRemove(s) PROVE BoxInv'
  <2> DEFINE job == [op |-> "remove", side |-> s, from |-> path[s]]
  <2>1. /\ Enabled /\ stack # <<>> /\ UNCHANGED <<open_once, live, quit, boxes, slot, crossed, agreed>>
        /\ Push(Loop("ask", job, None))
    BY <1>5, EnabledMeans DEF AskRemove, history
  <2>2. Loop("ask", job, None) \in Frame /\ Loop("ask", job, None).kind = "ask"
    BY <1>0, FrameTypes DEF Loop
  <2> QED BY <2>1, <2>2, BoxesPushed
<1>6. ASSUME NEW s \in Sides, Edit(s) PROVE BoxInv'
  <2> DEFINE job == [op |-> "edit", side |-> s, from |-> path[s]]
  <2>1. PICK b \in Boxes \ boxes : Push(Loop("box", job, b)) /\ boxes' = boxes \cup {b}
    <3> DEFINE free == {b \in Boxes \ boxes : \A i \in DOMAIN stack : stack[i].box # b}
    <3> DEFINE b == CHOOSE x \in free : TRUE
    <3>1. free # {} /\ Push(Loop("box", job, b)) /\ boxes' = boxes \cup {b}
      BY <1>6 DEF Edit
    <3>2. b \in free
      BY <3>1
    <3> QED BY <3>1, <3>2
  <2> DEFINE f == Loop("box", job, b)
  <2>2. /\ Enabled /\ stack # <<>> /\ ~quit /\ UNCHANGED <<open_once, live, quit, slot, agreed>>
        /\ crossed' = (crossed \/ \E i \in DOMAIN stack : stack[i].kind = "box")
    BY <1>6, EnabledMeans DEF Edit
  <2>3. f \in Frame /\ f.kind = "box" /\ f.box = b
    BY <1>0, FrameTypes DEF Loop
  <2>4. stack' = Append(stack, f) /\ stack \in Seq(Frame)
    BY <1>0, <2>1 DEF Push, TypeOK
  <2> HIDE DEF f, job
  <2>5. /\ stack'[Len(stack) + 1] = f /\ stack' # <<>> /\ Len(stack) + 1 \notin DOMAIN stack
        /\ Len(stack) + 1 \in DOMAIN stack'
        /\ \A i \in DOMAIN stack : i \in DOMAIN stack' /\ stack'[i] = stack[i]
        /\ \A i \in DOMAIN stack' : i \in DOMAIN stack \/ i = Len(stack) + 1
    BY <2>4
  <2>6. BoxFrames' = BoxFrames \cup {Len(stack) + 1} /\ Len(stack) + 1 \notin BoxFrames
    BY <2>3, <2>5 DEF BoxFrames
  <2>7. IsFiniteSet(BoxFrames) /\ Cardinality(BoxFrames) \in Nat
    BY BoxFramesFinite
  <2>8. IsFiniteSet(boxes) /\ Cardinality(boxes) \in Nat
    BY FS_CardinalityType DEF BoxInv
  <2>9. Cardinality(BoxFrames') = Cardinality(BoxFrames) + 1
    BY <2>6, <2>7, FS_AddElement
  <2>10. IsFiniteSet(boxes') /\ Cardinality(boxes') = Cardinality(boxes) + 1
    BY <2>1, <2>8, FS_AddElement
  <2>11. OneLoopEach'
    BY <2>2, <2>7, <2>8, <2>9, <2>10 DEF BoxInv, OneLoopEach
  <2>12. Single'
    <3> SUFFICES ASSUME live, ~crossed' PROVE Single'
      BY <2>2 DEF Single
    <3>1. BoxFrames = {} /\ ~crossed
      BY <2>2 DEF BoxFrames
    <3>2. boxes = {} /\ BoxFrames' = {Len(stack) + 1}
      BY <2>6, <3>1 DEF BoxInv, Single
    <3> QED BY <2>1, <2>3, <2>5, <3>2 DEF Single
  <2>13. SlotAwaited' /\ (live => open_once /\ stack # <<>>)' /\ (~live => boxes = {})'
    BY <1>6, <2>2, <2>5, EnabledMeans DEF BoxInv, SlotAwaited, Edit
  <2> QED BY <2>10, <2>11, <2>12, <2>13 DEF BoxInv
<1>7. ASSUME NEW i \in DOMAIN stack, NEW yes \in BOOLEAN, Answer(i, yes) PROVE BoxInv'
  <2> DEFINE ans == IF yes THEN "yes" ELSE "no"
  <2>1. /\ stack' = [stack EXCEPT ![i].ans = ans] /\ stack \in Seq(Frame)
        /\ UNCHANGED <<open_once, live, quit, boxes, slot, crossed, agreed>>
    BY <1>0, <1>7 DEF Answer, history, TypeOK
  <2> HIDE DEF ans
  <2>2. /\ DOMAIN stack' = DOMAIN stack /\ stack' # <<>>
        /\ \A j \in DOMAIN stack : j # i => stack'[j] = stack[j]
        /\ stack'[i] = [stack[i] EXCEPT !.ans = ans] /\ stack[i] \in Frame
    BY <2>1
  <2>3. stack'[i].kind = stack[i].kind /\ stack'[i].box = stack[i].box
    BY <2>2 DEF Frame
  <2> QED BY <2>1, <2>2, <2>3, SameBoxes DEF BoxFrames
<1>8. ASSUME NEW b \in Boxes, PressOk(b) \/ PressCancel(b) PROVE BoxInv'
  <2>1. /\ UNCHANGED <<open_once, live, stack, crossed>> /\ b \in boxes /\ boxes' = boxes \ {b}
        /\ quit' = TRUE /\ ~quit /\ BoxFrames' = BoxFrames /\ live
        /\ slot' \in {b, None} /\ (slot' = b => b \in agreed')
    BY <1>8, Bounds DEF PressOk, PressCancel, Idle, history, BoxFrames, BoxInv
  <2>2. IsFiniteSet(boxes') /\ Cardinality(boxes') = Cardinality(boxes) - 1 /\ Cardinality(boxes) \in Nat
    BY <2>1, FS_RemoveElement, FS_CardinalityType DEF BoxInv
  <2>3. OneLoopEach'
    BY <2>1, <2>2 DEF BoxInv, OneLoopEach
  <2>4. Single'
    BY <2>1 DEF BoxInv, Single
  <2>5. SlotAwaited'
    BY <2>1 DEF BoxInv, Single, SlotAwaited
  <2> QED BY <2>1, <2>2, <2>3, <2>4, <2>5 DEF BoxInv
<1>9. CASE BoxReturns
  <2>1. /\ stack # <<>> /\ Top.kind \in {"ask", "alert"} /\ stack' = Below
        /\ UNCHANGED <<open_once, live, quit, boxes, slot, crossed, agreed>>
    BY <1>9 DEF BoxReturns, Running
  <2>2. stack' # <<>> /\ {i \in DOMAIN stack' : stack'[i].kind = "box"} = BoxFrames
    BY <2>1, TopTyped DEF BoxFrames
  <2>3. \A i \in BoxFrames : stack'[i].box = stack[i].box
    BY <2>1, <2>2, TopTyped DEF BoxFrames
  <2> QED BY <2>1, <2>2, <2>3, SameBoxes
<1>10. CASE InputReturns
  <2>1. /\ stack # <<>> /\ Top.kind = "box" /\ stack' = Below /\ quit /\ quit' = FALSE /\ slot' = None
        /\ UNCHANGED <<open_once, live, boxes, crossed>>
    BY <1>10 DEF InputReturns, Running
  <2>2. /\ stack' # <<>> /\ BoxFrames' = BoxFrames \ {Len(stack)} /\ Len(stack) \in BoxFrames
        /\ \A i \in BoxFrames' : stack'[i] = stack[i]
    BY <2>1, TopTyped DEF BoxFrames
  <2>3. /\ IsFiniteSet(BoxFrames) /\ Cardinality(BoxFrames) \in Nat
        /\ IsFiniteSet(boxes) /\ Cardinality(boxes) \in Nat
    BY BoxFramesFinite, FS_CardinalityType DEF BoxInv
  <2>4. Cardinality(BoxFrames') = Cardinality(BoxFrames) - 1 /\ IsFiniteSet(BoxFrames')
    BY <2>2, <2>3, FS_RemoveElement
  <2>5. OneLoopEach'
    BY <2>1, <2>3, <2>4 DEF BoxInv, OneLoopEach
  <2>6. Single'
    <3> SUFFICES ASSUME live, ~crossed PROVE Single'
      BY <2>1 DEF Single
    <3>1. BoxFrames' = {}
      BY <2>2 DEF BoxInv, Single
    <3>2. Cardinality(boxes) = 0
      BY <2>1, <2>3, <2>5, <3>1, FS_EmptySet DEF OneLoopEach
    <3>3. boxes = {}
      BY <2>3, <3>2, FS_EmptySet
    <3> QED BY <2>1, <3>1, <3>3 DEF Single
  <2>7. SlotAwaited' /\ (live => open_once /\ stack # <<>>)' /\ (~live => boxes = {})' /\ IsFiniteSet(boxes')
    BY <2>1, <2>2, <2>3 DEF BoxInv, SlotAwaited
  <2> QED BY <2>5, <2>6, <2>7 DEF BoxInv
<1>11. CASE LoopEnds
  <2>1. stack # <<>> /\ quit /\ Top.kind = "loop" /\ UNCHANGED <<live, boxes, slot>>
    BY <1>11 DEF LoopEnds, Running
  <2>2. Len(stack) = 1 /\ stack \in Seq(Frame)
    BY <2>1, TopTyped DEF FrameFits
  <2>3. BoxFrames = {}
    BY <2>2, BoxFramesFinite DEF BoxFrames
  <2>4. ~live
    <3> SUFFICES ASSUME live PROVE FALSE
      OBVIOUS
    <3>1. Cardinality(boxes) \in Nat /\ Cardinality({}) = 0
      BY FS_CardinalityType, FS_EmptySet DEF BoxInv
    <3> QED BY <2>1, <2>3, <3>1 DEF BoxInv, OneLoopEach
  <2> QED BY <2>1, <2>4 DEF BoxInv, OneLoopEach, Single, SlotAwaited
<1>12. CASE TakeUpdate
  <2>1. /\ stack # <<>> /\ stack \in Seq(Frame)
        /\ UNCHANGED <<open_once, live, quit, boxes, slot, crossed, agreed>>
    BY <1>0, <1>12 DEF TakeUpdate, Idle, Running, history, TypeOK
  <2>2. CASE stack' = [i \in DOMAIN stack |-> [stack[i] EXCEPT !.moved = stack[i].kind = "ask"]]
    <3>1. DOMAIN stack' = DOMAIN stack /\ stack' # <<>>
      BY <2>1, <2>2
    <3>2. ASSUME NEW i \in DOMAIN stack PROVE stack'[i].kind = stack[i].kind /\ stack'[i].box = stack[i].box
      <4>1. stack[i] \in Frame /\ stack'[i] = [stack[i] EXCEPT !.moved = stack[i].kind = "ask"]
        BY <2>1, <2>2
      <4> QED BY <4>1 DEF Frame
    <3> QED BY <2>1, <3>1, <3>2, SameBoxes DEF BoxFrames
  <2>3. CASE stack' = stack
    BY <2>1, <2>3, SameBoxes DEF BoxFrames
  <2>4. CASE Push(Loop("alert", None, None))
    <3>1. Loop("alert", None, None) \in Frame /\ Loop("alert", None, None).kind = "alert"
      BY <1>0, FrameTypes DEF Sides, Loop
    <3> QED BY <2>1, <2>4, <3>1, BoxesPushed
  <2> QED BY <1>12, <2>2, <2>3, <2>4 DEF TakeUpdate
<1>13. ASSUME NEW w \in Workers, Work(w) \/ LoseConnection(w) PROVE BoxInv'
  <2>1. UNCHANGED <<thread, boxes, slot, history>>
    BY <1>13 DEF Work, TakeTask, ListStep, TransferStep, ChangeStep, WorkerEnds, LoseConnection
  <2> QED BY <2>1, SameBoxes DEF thread, history, BoxFrames
<1>14. CASE UNCHANGED vars
  BY <1>14, SameBoxes DEF vars, thread, history, BoxFrames
<1> QED
  BY <1>1, <1>2, <1>3, <1>4, <1>5, <1>6, <1>7, <1>8, <1>9, <1>10, <1>11, <1>12, <1>13, <1>14
     DEF Next, Person, Window

\* While a file manager lives, no quit of an input box ends its window's loop, and no text
\* waits in the slot for an operation that nobody waits in.
THEOREM EachBoxHasItsLoop == Spec => []BoxInv
<1> FileManagerAssumption
  BY FileManagerAssumption
<1>1. Init => BoxInv
  <2>1. IsFiniteSet({})
    BY FS_EmptySet
  <2> QED BY <2>1 DEF Init, BoxInv, OneLoopEach, Single, SlotAwaited
<1>2. Typed /\ BoxInv /\ [Next]_vars => BoxInv'
  BY BoxInvKept
<1> QED BY <1>1, <1>2, TypesHold, PTL DEF Spec

\* A directory is made or a name changed only with a text that somebody pressed OK for and
\* that no operation took before; it is that of the operation's own box, unless two were
\* on the screen at once.
THEOREM AnswersAreOnesOwn == Spec => AnswersBelong
<1> FileManagerAssumption
  BY FileManagerAssumption
<1>1. ASSUME Typed, BoxInv, [Next]_vars, NEW w \in Workers,
             Len(tasks'[w]) > Len(tasks[w]), Last(tasks'[w]).op = "edit"
      PROVE  slot \in agreed /\ (crossed \/ slot = Top.box)
  <2>0. tasks'[w] # tasks[w]
    BY <1>1 DEF Typed, TypeOK
  <2>1. ASSUME NEW s \in Sides, NEW d \in Paths, navigate(s, d) PROVE FALSE
    <3>1. List(s, d) \in Task /\ live
      BY <1>1, <2>1, EnabledMeans DEF List, Task, navigate
    <3>2. <<List(s, d)>> \in Seq(Task) /\ <<List(s, d)>> # <<>> /\ <<List(s, d)>>[Len(<<List(s, d)>>)] = List(s, d)
      BY <3>1
    <3>3. Last(tasks'[w]) = List(s, d)
      BY <1>1, <2>1, <3>1, <3>2, SentLast DEF navigate
    <3> QED BY <1>1, <3>3 DEF List
  <2>2. ASSUME NEW s \in Sides, NEW n \in 1 .. MaxBatch, live, StartTransfers(s, n) PROVE FALSE
    <3>1. /\ Transfers(s, n) \in Seq(Task) /\ Len(Transfers(s, n)) = n /\ n \in Nat \ {0}
          /\ Transfers(s, n)[n] = [op |-> "transfer", side |-> s, from |-> path[s], to |-> path[Other(s)]]
      BY <1>1, TransfersTyped, Bounds DEF Typed
    <3>2. Transfers(s, n) # <<>> /\ Send(cur, Transfers(s, n))
      BY <2>2, <3>1 DEF StartTransfers
    <3>3. Last(tasks'[w]) = [op |-> "transfer", side |-> s, from |-> path[s], to |-> path[Other(s)]]
      BY <1>1, <2>2, <3>1, <3>2, SentLast
    <3> QED BY <1>1, <3>3
  <2>3. ASSUME NEW s \in Sides, NEW n \in 1 .. MaxBatch, Transfer(s, n) PROVE FALSE
    BY <1>1, <2>0, <2>2, <2>3, EnabledMeans DEF Transfer
  <2>4. ASSUME BoxReturns PROVE FALSE
    <3>1. stack # <<>>
      BY <2>4 DEF BoxReturns, Running
    <3>2. Top.kind = "ask" => Top.job \in Job
      BY <1>1, <3>1, TopTyped DEF FrameFits
    <3>3. CASE live /\ Top.kind = "ask" /\ Top.job.op = "transfer" /\ StartTransfers(Top.job.side, Top.job.n)
      <4>1. Top.job.side \in Sides /\ Top.job.n \in 1 .. MaxBatch
        BY <3>2, <3>3, JobTyped
      <4> QED BY <2>2, <3>3, <4>1
    <3>4. CASE live /\ Top.kind = "ask" /\ Send(cur, <<RemoveTask(Top.job)>>)
      <4> DEFINE t == RemoveTask(Top.job)
      <4>1. t \in Task /\ t.op = "remove"
        BY <3>2, <3>4, JobTyped DEF RemoveTask, Task
      <4> HIDE DEF t
      <4>2. <<t>> \in Seq(Task) /\ <<t>> # <<>> /\ <<t>>[Len(<<t>>)] = t
        BY <4>1
      <4>3. Send(cur, <<t>>)
        BY <3>4 DEF t
      <4>4. Last(tasks'[w]) = t
        BY <1>1, <3>4, <4>2, <4>3, SentLast
      <4> QED BY <1>1, <4>1, <4>4
    <3>5. CASE UNCHANGED tasks
      BY <2>0, <3>5
    <3> QED BY <2>4, <3>3, <3>4, <3>5, Zenon DEF BoxReturns
  <2>5. InputReturns
    BY <1>1, <2>1, <2>3, <2>4, WhoSends
  <2>6. slot # None /\ live /\ stack # <<>> /\ Top.kind = "box"
    BY <2>0, <2>5 DEF InputReturns, Running
  <2>7. Top = stack[Len(stack)] /\ Len(stack) \in BoxFrames
    BY <1>1, <2>6, TopTyped DEF BoxFrames
  <2>8. ~crossed => Top.box = slot
    BY <1>1, <2>6, <2>7 DEF BoxInv, Single, SlotAwaited
  <2> QED BY <1>1, <2>6, <2>8 DEF BoxInv, SlotAwaited
<1>2. Typed /\ BoxInv /\ [Next]_vars =>
        [\A w \in Workers :
           Len(tasks'[w]) > Len(tasks[w]) /\ Last(tasks'[w]).op = "edit"
             => slot \in agreed /\ (crossed \/ slot = Top.box)]_vars
  BY <1>1, Zenon
<1> QED
  BY <1>2, TypesHold, EachBoxHasItsLoop, PTL DEF Spec, AnswersBelong

-----------------------------------------------------------------------------
(* The count of transfers                                                  *)

(* Count is of indices: of those of a concatenation, the second part's are *)
(* shifted by the length of the first.                                     *)
LEMMA CountType ==
  ASSUME NEW S, NEW s \in Seq(S), NEW Of
  PROVE  /\ IsFiniteSet({i \in DOMAIN s : s[i] \in Of})
         /\ Count(s, Of) = Cardinality({i \in DOMAIN s : s[i] \in Of})
         /\ Count(s, Of) \in Nat
<1>1. IsFiniteSet(1 .. Len(s)) /\ DOMAIN s = 1 .. Len(s)
  BY FS_Interval
<1>2. IsFiniteSet({i \in DOMAIN s : s[i] \in Of})
  BY <1>1, FS_Subset
<1> QED BY <1>2, FS_CardinalityType DEF Count

LEMMA CountConcat ==
  ASSUME NEW S, NEW s \in Seq(S), NEW t \in Seq(S), NEW Of
  PROVE  Count(s \o t, Of) = Count(s, Of) + Count(t, Of)
<1> DEFINE n == Len(s)
           A == {i \in DOMAIN s : s[i] \in Of}
           B == {i \in DOMAIN t : t[i] \in Of}
           C == {i \in DOMAIN (s \o t) : (s \o t)[i] \in Of}
           D == {i \in C : i > n}
           f == [i \in B |-> i + n]
<1>1. /\ n \in Nat /\ Len(t) \in Nat /\ DOMAIN s = 1 .. n /\ DOMAIN t = 1 .. Len(t)
      /\ DOMAIN (s \o t) = 1 .. n + Len(t)
      /\ \A i \in 1 .. n : (s \o t)[i] = s[i]
      /\ \A i \in 1 .. Len(t) : (s \o t)[i + n] = t[i]
  OBVIOUS
<1>2. C = A \cup D /\ A \cap D = {}
  BY <1>1
<1>3. f \in Bijection(B, D)
  <2>1. \A i \in B : f[i] \in D
    BY <1>1
  <2>2. \A i, j \in B : f[i] = f[j] => i = j
    BY <1>1
  <2>3. ASSUME NEW d \in D PROVE \E i \in B : f[i] = d
    <3>1. d - n \in 1 .. Len(t) /\ (d - n) + n = d
      BY <1>1
    <3>2. d - n \in B
      BY <1>1, <3>1
    <3> QED BY <3>1, <3>2
  <2> HIDE DEF B, D, f
  <2>4. f \in [B -> D]
    BY <2>1 DEF f
  <2> QED BY <2>2, <2>3, <2>4 DEF Bijection, Injection, Surjection, IsInjective
<1> HIDE DEF f
<1>4. IsFiniteSet(A) /\ Count(s, Of) = Cardinality(A)
  BY CountType
<1>5. IsFiniteSet(B) /\ Count(t, Of) = Cardinality(B)
  BY CountType
<1>6. Count(s \o t, Of) = Cardinality(C)
  BY DEF Count
<1> HIDE DEF A, B, C, D
<1>7. IsFiniteSet(D) /\ Cardinality(D) = Cardinality(B)
  BY <1>3, <1>5, FS_Bijection DEF ExistsBijection
<1>8. Cardinality(C) = Cardinality(A) + Cardinality(D) - Cardinality(A \cap D)
  BY <1>2, <1>4, <1>7, FS_Union
<1>9. Cardinality(A \cap D) = 0 /\ Cardinality(A) \in Nat /\ Cardinality(B) \in Nat
  BY <1>2, <1>4, <1>5, FS_EmptySet, FS_CardinalityType
<1> QED BY <1>4, <1>5, <1>6, <1>7, <1>8, <1>9

LEMMA CountOne ==
  ASSUME NEW x, NEW Of
  PROVE  Count(<<x>>, Of) = IF x \in Of THEN 1 ELSE 0
<1>1. DOMAIN <<x>> = {1} /\ <<x>>[1] = x
  OBVIOUS
<1>2. {i \in DOMAIN <<x>> : <<x>>[i] \in Of} = IF x \in Of THEN {1} ELSE {}
  BY <1>1
<1> QED BY <1>2, FS_EmptySet, FS_Singleton DEF Count

LEMMA CountNone == ASSUME NEW Of PROVE Count(<<>>, Of) = 0
<1>1. {i \in DOMAIN <<>> : <<>>[i] \in Of} = {}
  OBVIOUS
<1> QED BY <1>1, FS_EmptySet DEF Count

LEMMA CountAll ==
  ASSUME NEW Of, NEW s \in Seq(Of)
  PROVE  Count(s, Of) = Len(s)
<1> DEFINE n == Len(s)
<1>1. {i \in DOMAIN s : s[i] \in Of} = 1 .. n /\ n \in Nat
  OBVIOUS
<1> HIDE DEF n
<1>2. Cardinality(1 .. n) = IF 1 > n THEN 0 ELSE n - 1 + 1
  BY <1>1, FS_Interval
<1>3. Cardinality(1 .. n) = n
  BY <1>1, <1>2
<1>4. Count(s, Of) = n
  BY <1>1, <1>3 DEF Count
<1> QED BY <1>4 DEF n

LEMMA CountHead ==
  ASSUME NEW S, NEW s \in Seq(S), s # <<>>, NEW Of
  PROVE  Count(s, Of) = Count(Tail(s), Of) + IF Head(s) \in Of THEN 1 ELSE 0
<1>1. /\ Head(s) \in S /\ Tail(s) \in Seq(S) /\ Head(s) = s[1]
      /\ Len(Tail(s)) = Len(s) - 1 /\ Len(s) \in Nat \ {0}
      /\ \A i \in 1 .. Len(s) - 1 : Tail(s)[i] = s[i + 1]
  OBVIOUS
<1>2. <<Head(s)>> \in Seq(S)
  BY <1>1
<1>3. s = <<Head(s)>> \o Tail(s)
  <2> DEFINE r == <<Head(s)>> \o Tail(s)
  <2>1. /\ r \in Seq(S) /\ Len(r) = Len(s) /\ r[1] = s[1]
        /\ \A i \in 1 .. Len(s) - 1 : r[i + 1] = Tail(s)[i]
    BY <1>1, <1>2
  <2> HIDE DEF r
  <2>2. ASSUME NEW i \in 1 .. Len(s) PROVE r[i] = s[i]
    <3>1. i = 1 \/ (i - 1 \in 1 .. Len(s) - 1 /\ (i - 1) + 1 = i)
      BY <1>1
    <3> QED BY <1>1, <2>1, <3>1
  <2>3. r = s
    BY <1>1, <2>1, <2>2
  <2> QED BY <2>3 DEF r
<1> DEFINE h == <<Head(s)>>
           r == Tail(s)
<1>4. Count(s, Of) = Count(h, Of) + Count(r, Of)
  <2>1. h \in Seq(S) /\ r \in Seq(S) /\ s = h \o r
    BY <1>1, <1>2, <1>3
  <2> HIDE DEF h, r
  <2>2. Count(h \o r, Of) = Count(h, Of) + Count(r, Of)
    BY <2>1, CountConcat
  <2> QED BY <2>1, <2>2
<1>5. Count(Tail(s), Of) \in Nat
  BY <1>1, CountType
<1> QED BY <1>4, <1>5, CountOne

\* Workers that no window had yet have nothing to do.
Unused == \A w \in Workers : w > cur =>
            tasks[w] = <<>> /\ todo[w] = <<>> /\ updates[w] = <<>> /\ ~dead[w]

PendInv == Unused /\ PendingCounts

LEMMA UnderWayType ==
  ASSUME TypeOK, NEW w \in Workers
  PROVE  /\ Count(tasks[w], TransferTasks) \in Nat /\ Count(todo[w], TransferTasks) \in Nat
         /\ Count(updates[w], {Done}) \in Nat /\ UnderWay(w) \in Nat
         /\ UnderWay(w) = Count(tasks[w], TransferTasks) + Count(todo[w], TransferTasks)
                            + Count(updates[w], {Done})
<1>1. tasks[w] \in Seq(Task) /\ todo[w] \in Seq(Step) /\ updates[w] \in Seq(Update)
  BY HeadTyped
<1>2. /\ Count(tasks[w], TransferTasks) \in Nat /\ Count(todo[w], TransferTasks) \in Nat
      /\ Count(updates[w], {Done}) \in Nat
  BY <1>1, CountType
<1> QED BY <1>2 DEF UnderWay

\* What is under way for the window, after a step.
LEMMA UnderWayNext ==
  ASSUME NEW w, cur' = w
  PROVE  UnderWay(cur)' = Count(tasks'[w], TransferTasks) + Count(todo'[w], TransferTasks)
                            + Count(updates'[w], {Done})
  BY DEF UnderWay

\* A step that leaves as much under way as there was.
LEMMA PendingStays ==
  ASSUME PendingCounts, UNCHANGED <<cur, pending, buttons, overlapped>>, live' => live,
         live' /\ ~dead'[cur] => ~dead[cur] /\ UnderWay(cur)' = UnderWay(cur)
  PROVE  PendingCounts'
  BY Zenon DEF PendingCounts

\* Tasks that are sent to the worker are under way if they are transfers.
LEMMA SentCounts ==
  ASSUME TypeOK, cur \in Workers, NEW new \in Seq(Task), Send(cur, new),
         UNCHANGED <<cur, todo, updates>>
  PROVE  UnderWay(cur)' = UnderWay(cur) + Count(new, TransferTasks)
<1>1. tasks[cur] \in Seq(Task) /\ tasks'[cur] = tasks[cur] \o new
  BY DEF TypeOK, Send
<1>2. Count(tasks'[cur], TransferTasks) = Count(tasks[cur], TransferTasks) + Count(new, TransferTasks)
  BY <1>1, CountConcat
<1>3. Count(new, TransferTasks) \in Nat
  BY CountType
<1>4. UnderWay(cur)' = Count(tasks'[cur], TransferTasks) + Count(todo[cur], TransferTasks)
                         + Count(updates[cur], {Done})
  BY UnderWayNext
<1>5. /\ Count(tasks[cur], TransferTasks) \in Nat /\ Count(todo[cur], TransferTasks) \in Nat
      /\ Count(updates[cur], {Done}) \in Nat
      /\ UnderWay(cur) = Count(tasks[cur], TransferTasks) + Count(todo[cur], TransferTasks)
                           + Count(updates[cur], {Done})
  BY UnderWayType
<1> QED BY <1>2, <1>3, <1>4, <1>5

\* What the window starts while nothing is pending is counted from the beginning; started
\* on top of others it is remembered as such.
LEMMA StartCounts ==
  ASSUME FileManagerAssumption, Typed, PendingCounts, live, NEW s \in Sides, NEW n \in 1 .. MaxBatch,
         StartTransfers(s, n), UNCHANGED <<cur, live, todo, updates, dead>>
  PROVE  PendingCounts'
<1> SUFFICES ASSUME ~dead[cur], ~overlapped' PROVE pending' = UnderWay(cur)' /\ (buttons' <=> pending' = 0)
  BY DEF PendingCounts
<1>1. TypeOK /\ cur \in Workers /\ pending \in Nat /\ n \in Nat \ {0}
  <2>1. TypeOK
    BY DEF Typed
  <2>2. pending \in 0 .. MaxBatch
    BY <2>1, Zenon DEF TypeOK
  <2>3. cur \in Workers
    BY DEF Typed
  <2> QED BY <2>1, <2>2, <2>3, Bounds
<1>2. ~overlapped /\ ~(pending > 0) /\ pending' = n /\ ~buttons' /\ Send(cur, Transfers(s, n))
  BY Zenon DEF StartTransfers
<1>3. pending = UnderWay(cur)
  BY <1>2 DEF PendingCounts
<1>4. UnderWay(cur) = 0
  BY <1>1, <1>2, <1>3
<1>5. Transfers(s, n) \in Seq(Task) /\ Count(Transfers(s, n), TransferTasks) = n
  BY <1>1, TransfersTyped, CountAll
<1>6. UnderWay(cur)' = UnderWay(cur) + n
  BY <1>1, <1>2, <1>5, SentCounts
<1>7. pending' = UnderWay(cur)' /\ pending' # 0
  BY <1>1, <1>2, <1>4, <1>6
<1> QED BY <1>2, <1>7

\* Anything else that is sent is no transfer.
LEMMA OtherCounts ==
  ASSUME Typed, PendingCounts, live, NEW t \in Task, t.op # "transfer", Send(cur, <<t>>),
         UNCHANGED <<cur, live, pending, buttons, overlapped, todo, updates, dead>>
  PROVE  PendingCounts'
<1>1. TypeOK /\ cur \in Workers
  BY DEF Typed
<1>2. t \notin TransferTasks
  BY DEF TransferTasks
<1>3. <<t>> \in Seq(Task) /\ Count(<<t>>, TransferTasks) = 0
  BY <1>2, CountOne
<1>4. UnderWay(cur)' = UnderWay(cur) + 0
  BY <1>1, <1>3, SentCounts
<1>5. UnderWay(cur)' = UnderWay(cur)
  BY <1>1, <1>4, UnderWayType
<1> QED BY <1>5, PendingStays

\* An update is taken, and counted if it is the end of a transfer.
LEMMA TakenCounts ==
  ASSUME Typed, PendingCounts, TakeUpdate
  PROVE  PendingCounts'
<1> DEFINE u == Head(updates[cur])
<1>1. /\ TypeOK /\ live /\ cur \in Workers /\ updates[cur] # <<>> /\ updates' = [updates EXCEPT ![cur] = Tail(@)]
      /\ UNCHANGED <<cur, live, tasks, todo, dead, overlapped>>
  BY DEF TakeUpdate, Typed, history
<1>2. updates[cur] \in Seq(Update) /\ updates'[cur] = Tail(updates[cur])
  BY <1>1 DEF TypeOK
<1>3. Count(updates[cur], {Done}) = Count(updates'[cur], {Done}) + IF u = Done THEN 1 ELSE 0
  BY <1>1, <1>2, CountHead
<1>4. UnderWay(cur)' = Count(tasks[cur], TransferTasks) + Count(todo[cur], TransferTasks)
                         + Count(updates'[cur], {Done})
  BY <1>1, UnderWayNext
<1>5. /\ Count(tasks[cur], TransferTasks) \in Nat /\ Count(todo[cur], TransferTasks) \in Nat
      /\ UnderWay(cur) = Count(tasks[cur], TransferTasks) + Count(todo[cur], TransferTasks)
                           + Count(updates[cur], {Done})
  BY <1>1, UnderWayType
<1>6. Count(updates'[cur], {Done}) \in Nat
  <2>1. updates'[cur] \in Seq(Update)
    BY <1>1, <1>2
  <2> QED BY <2>1, CountType
<1>7. CASE u.what # "done" /\ UNCHANGED <<pending, buttons>>
  <2>1. u # Done
    BY <1>7 DEF Done
  <2>2. UnderWay(cur)' = UnderWay(cur)
    BY <1>3, <1>4, <1>5, <1>6, <2>1
  <2> QED BY <1>1, <1>7, <2>2, PendingStays
<1>8. CASE /\ u.what = "done" /\ pending' = (IF pending = 0 THEN 0 ELSE pending - 1)
           /\ buttons' = (buttons \/ pending' = 0)
  <2>1. u = Done
    <3>1. u \in Update
      BY <1>1, HeadTyped
    <3> QED BY <1>8, <3>1 DEF Update, Done
  <2>2. UnderWay(cur) = UnderWay(cur)' + 1 /\ UnderWay(cur)' \in Nat
    BY <1>3, <1>4, <1>5, <1>6, <2>1
  <2> SUFFICES ASSUME ~dead[cur], ~overlapped
               PROVE  pending' = UnderWay(cur)' /\ (buttons' <=> pending' = 0)
    BY <1>1 DEF PendingCounts
  <2>3. pending = UnderWay(cur) /\ (buttons <=> pending = 0)
    BY <1>1, Zenon DEF PendingCounts
  <2>4. pending # 0 /\ pending' = UnderWay(cur)'
    BY <1>8, <2>2, <2>3
  <2>5. buttons' <=> pending' = 0
    BY <1>8, <2>3, <2>4, Zenon
  <2> QED BY <2>4, <2>5
<1> QED BY <1>1, <1>7, <1>8, Zenon DEF TakeUpdate, pane

\* A task counts as long as its steps hold the transfer.
LEMMA StepsCount ==
  ASSUME NEW t \in Task
  PROVE  Count(Steps(t), TransferTasks) = IF t \in TransferTasks THEN 1 ELSE 0
<1>1. \A s : [op |-> "refresh", side |-> s] \notin TransferTasks
  BY DEF TransferTasks
<1>2. {i \in DOMAIN Steps(t) : Steps(t)[i] \in TransferTasks} = IF t \in TransferTasks THEN {1} ELSE {}
  <2>1. CASE t.op = "list"
    <3>1. Steps(t) = <<t>>
      BY <2>1 DEF Steps
    <3> QED BY <3>1
  <2>2. CASE t.op = "transfer"
    <3>1. Steps(t) = <<t, [op |-> "refresh", side |-> "remote"], [op |-> "refresh", side |-> "local"]>>
      BY <2>2 DEF Steps
    <3> QED BY <1>1, <3>1
  <2>3. CASE t.op # "list" /\ t.op # "transfer"
    <3>1. Steps(t) = <<t, [op |-> "refresh", side |-> t.side]>>
      BY <2>3 DEF Steps
    <3> QED BY <1>1, <3>1
  <2> QED BY <2>1, <2>2, <2>3
<1> QED BY <1>2, FS_EmptySet, FS_Singleton DEF Count

\* What the window's worker tells it is the end of a transfer or is not.
LEMMA ReportCounts ==
  ASSUME TypeOK, live, cur \in Workers, NEW u \in Update, Report(cur, <<u>>)
  PROVE  Count(updates'[cur], {Done}) = Count(updates[cur], {Done}) + IF u = Done THEN 1 ELSE 0
<1>1. updates[cur] \in Seq(Update) /\ updates'[cur] = updates[cur] \o <<u>> /\ <<u>> \in Seq(Update)
  BY DEF TypeOK, Report, Linked
<1> DEFINE s == updates[cur]
           r == <<u>>
<1>2. Count(updates'[cur], {Done}) = Count(s, {Done}) + Count(r, {Done})
  <2>1. s \in Seq(Update) /\ r \in Seq(Update) /\ updates'[cur] = s \o r
    BY <1>1
  <2> HIDE DEF s, r
  <2>2. Count(s \o r, {Done}) = Count(s, {Done}) + Count(r, {Done})
    BY <2>1, CountConcat
  <2> QED BY <2>1, <2>2
<1>3. Count(<<u>>, {Done}) = IF u = Done THEN 1 ELSE 0
  BY CountOne
<1> QED BY <1>2, <1>3

LEMMA TodoCounts ==
  ASSUME TypeOK, NEW w \in Workers, todo[w] # <<>>, todo' = [todo EXCEPT ![w] = Tail(@)]
  PROVE  /\ Count(todo[w], TransferTasks)
              = Count(todo'[w], TransferTasks) + IF Head(todo[w]) \in TransferTasks THEN 1 ELSE 0
         /\ Count(todo'[w], TransferTasks) \in Nat
<1>1. todo[w] \in Seq(Step) /\ todo'[w] = Tail(todo[w]) /\ Tail(todo[w]) \in Seq(Step)
  BY HeadTyped DEF TypeOK
<1>2. Count(todo[w], TransferTasks)
        = Count(Tail(todo[w]), TransferTasks) + IF Head(todo[w]) \in TransferTasks THEN 1 ELSE 0
  BY <1>1, CountHead
<1>3. Count(Tail(todo[w]), TransferTasks) \in Nat
  BY <1>1, CountType
<1> QED BY <1>1, <1>2, <1>3

\* The worker moves transfers along and drops none: a transfer under way is a task, then
\* a step, then an update.
LEMMA WorkCounts ==
  ASSUME FileManagerAssumption, Typed, PendingCounts, NEW w \in Workers, Work(w) \/ LoseConnection(w)
  PROVE  PendingCounts'
<1>1. TypeOK /\ UNCHANGED <<cur, live, pending, buttons, overlapped>>
  BY DEF Work, TakeTask, ListStep, TransferStep, ChangeStep, WorkerEnds, LoseConnection, Typed,
         thread, pane, history
<1> SUFFICES ASSUME live, ~dead'[cur] PROVE ~dead[cur] /\ UnderWay(cur)' = UnderWay(cur)
  BY <1>1, PendingStays
<1>2. cur \in Workers
  BY DEF Typed
<1>3. ~dead[cur]
  <2>1. CASE dead' = dead
    BY <2>1
  <2>2. CASE LoseConnection(w)
    BY <1>1, <1>2, <2>2 DEF LoseConnection, Linked, TypeOK
  <2> QED BY <2>1, <2>2 DEF Work, TakeTask, ListStep, TransferStep, ChangeStep, WorkerEnds
<1>4. /\ Count(tasks[cur], TransferTasks) \in Nat /\ Count(todo[cur], TransferTasks) \in Nat
      /\ Count(updates[cur], {Done}) \in Nat
      /\ UnderWay(cur) = Count(tasks[cur], TransferTasks) + Count(todo[cur], TransferTasks)
                           + Count(updates[cur], {Done})
  BY <1>1, <1>2, UnderWayType
<1>5. UnderWay(cur)' = Count(tasks'[cur], TransferTasks) + Count(todo'[cur], TransferTasks)
                         + Count(updates'[cur], {Done})
  BY <1>1, UnderWayNext
<1>6. CASE UNCHANGED <<tasks, todo, updates>>
  BY <1>3, <1>4, <1>5, <1>6
<1>7. CASE w # cur
  <2>1. tasks'[cur] = tasks[cur] /\ todo'[cur] = todo[cur]
    BY <1>1, <1>2, <1>7 DEF Work, TakeTask, ListStep, TransferStep, ChangeStep, WorkerEnds, LoseConnection, TypeOK
  <2>2. \A new : Report(w, new) => updates'[cur] = updates[cur]
    BY <1>1, <1>2, <1>7 DEF Report, TypeOK
  <2>3. updates' = updates \/ \E new : Report(w, new)
    BY DEF Work, TakeTask, ListStep, ListDir, TransferStep, ChangeStep, WorkerEnds, LoseConnection
  <2>4. updates'[cur] = updates[cur]
    BY <2>2, <2>3
  <2> QED BY <1>3, <1>4, <1>5, <2>1, <2>4
<1>8. CASE w = cur /\ TakeTask(w)
  <2>1. /\ todo[cur] = <<>> /\ tasks[cur] # <<>> /\ tasks'[cur] = Tail(tasks[cur])
        /\ todo'[cur] = Steps(Head(tasks[cur])) /\ updates' = updates
    BY <1>1, <1>2, <1>3, <1>8 DEF TakeTask, TypeOK
  <2>2. tasks[cur] \in Seq(Task) /\ Head(tasks[cur]) \in Task /\ Tail(tasks[cur]) \in Seq(Task)
    BY <1>1, <1>2, <2>1, HeadTyped
  <2>3. Count(tasks[cur], TransferTasks) = Count(tasks'[cur], TransferTasks)
          + IF Head(tasks[cur]) \in TransferTasks THEN 1 ELSE 0
    BY <2>1, <2>2, CountHead
  <2>4. Count(todo'[cur], TransferTasks) = IF Head(tasks[cur]) \in TransferTasks THEN 1 ELSE 0
    BY <2>1, <2>2, StepsCount
  <2>5. Count(todo[cur], TransferTasks) = 0
    BY <2>1, CountNone
  <2>6. Count(tasks'[cur], TransferTasks) \in Nat
    BY <2>1, <2>2, CountType
  <2> QED BY <1>3, <1>4, <1>5, <2>1, <2>3, <2>4, <2>5, <2>6
<1>9. CASE w = cur /\ TransferStep(w)
  <2>1. /\ todo[cur] # <<>> /\ Head(todo[cur]).op = "transfer" /\ tasks' = tasks
        /\ todo' = [todo EXCEPT ![cur] = Tail(@)] /\ Report(cur, <<Done>>)
    BY <1>9 DEF TransferStep, Done
  <2>2. Head(todo[cur]) \in TransferTasks
    <3>1. Head(todo[cur]) \in Step
      BY <1>1, <1>2, <2>1, HeadTyped
    <3> QED BY <2>1, <3>1 DEF Step, Task, TransferTasks
  <2>3. Count(updates'[cur], {Done}) = Count(updates[cur], {Done}) + 1
    BY <1>1, <1>2, <2>1, UpdatesTyped, ReportCounts
  <2>4. Count(todo[cur], TransferTasks) = Count(todo'[cur], TransferTasks) + 1
        /\ Count(todo'[cur], TransferTasks) \in Nat
    BY <1>1, <1>2, <2>1, <2>2, TodoCounts
  <2> QED BY <1>3, <1>4, <1>5, <2>1, <2>3, <2>4
<1>10. CASE w = cur /\ (ListStep(w) \/ ChangeStep(w))
  <2>1. /\ todo[cur] # <<>> /\ Head(todo[cur]).op \in {"list", "refresh", "remove", "edit"}
        /\ tasks' = tasks /\ todo' = [todo EXCEPT ![cur] = Tail(@)]
    BY <1>10 DEF ListStep, ChangeStep
  <2>2. Head(todo[cur]) \notin TransferTasks
    BY <2>1 DEF TransferTasks
  <2>3. Count(todo[cur], TransferTasks) = Count(todo'[cur], TransferTasks) + 0
        /\ Count(todo'[cur], TransferTasks) \in Nat
    BY <1>1, <1>2, <2>1, <2>2, TodoCounts
  <2>4. updates' = updates \/ \E u \in Update : u # Done /\ Report(cur, <<u>>)
    <3>1. Error \in Update /\ Error # Done
      BY <1>1, UpdatesTyped DEF Error, Done
    <3>2. ASSUME NEW s \in Sides, NEW d \in Paths, ListDir(cur, s, d)
          PROVE  updates' = updates \/ \E u \in Update : u # Done /\ Report(cur, <<u>>)
      <4>1. Listing(s, d) \in Update /\ Listing(s, d) # Done
        BY <1>1, UpdatesTyped DEF Listing, Done
      <4> QED BY <3>1, <3>2, <4>1, Zenon DEF ListDir
    <3>3. CASE ListStep(w)
      <4> DEFINE t == Head(todo[cur])
      <4>1. t \in Step /\ t.side \in Sides /\ (t.op = "list" => t.from \in Paths)
        BY <1>1, <1>2, <2>1, HeadTyped, StepTyped
      <4>2. last[cur][t.side] \in Paths
        <5>1. last \in [Workers -> [Sides -> Paths]]
          BY <1>1 DEF TypeOK
        <5> HIDE DEF t
        <5> QED BY <1>2, <4>1, <5>1
      <4>3. \/ t.op = "list" /\ ListDir(cur, t.side, t.from)
            \/ ListDir(cur, t.side, last[cur][t.side])
        BY <1>10, <3>3, Zenon DEF ListStep
      <4> QED BY <3>2, <4>1, <4>2, <4>3
    <3>4. CASE ChangeStep(w)
      BY <1>10, <3>1, <3>4, Zenon DEF ChangeStep
    <3> QED BY <1>10, <3>3, <3>4
  <2>5. Count(updates'[cur], {Done}) = Count(updates[cur], {Done})
    <3>1. ASSUME NEW u \in Update, u # Done, Report(cur, <<u>>)
          PROVE  Count(updates'[cur], {Done}) = Count(updates[cur], {Done})
      <4>1. Count(updates'[cur], {Done}) = Count(updates[cur], {Done}) + 0
        BY <1>1, <1>2, <3>1, ReportCounts
      <4> QED BY <1>4, <4>1
    <3>2. CASE updates' = updates
      BY <3>2
    <3> QED BY <2>4, <3>1, <3>2
  <2> QED BY <1>3, <1>4, <1>5, <2>1, <2>3, <2>5
<1> QED
  BY <1>3, <1>6, <1>7, <1>8, <1>9, <1>10 DEF Work, WorkerEnds, LoseConnection

\* Only the window's own worker is sent anything, and a worker without tasks has no steps.
LEMMA UnusedKept ==
  ASSUME Typed, Unused, [Next]_vars
  PROVE  Unused'
<1>1. TypeOK
  BY DEF Typed
<1>2. CASE Open
  BY <1>2 DEF Open, Unused, TypeOK, Typed, Workers
<1>3. ASSUME NEW w \in Workers, Work(w) \/ LoseConnection(w) PROVE Unused'
  <2>1. cur' = cur /\ (w <= cur \/ UNCHANGED <<tasks, todo, updates, dead>>)
    BY <1>1, <1>3 DEF Work, TakeTask, ListStep, TransferStep, ChangeStep, WorkerEnds, LoseConnection, Linked,
       Unused, Typed, TypeOK, Workers, thread
  <2>2. ASSUME NEW v \in Workers, v # w
        PROVE  tasks'[v] = tasks[v] /\ todo'[v] = todo[v] /\ dead'[v] = dead[v]
    BY <1>1, <1>3, <2>2 DEF Work, TakeTask, ListStep, TransferStep, ChangeStep, WorkerEnds, LoseConnection, TypeOK
  <2>3. ASSUME NEW v \in Workers, v # w PROVE updates'[v] = updates[v]
    <3>1. \A new : Report(w, new) => updates'[v] = updates[v]
      BY <1>1, <2>3 DEF Report, TypeOK
    <3>2. updates' = updates \/ \E new : Report(w, new)
      BY <1>3 DEF Work, TakeTask, ListStep, ListDir, TransferStep, ChangeStep, WorkerEnds, LoseConnection
    <3> QED BY <3>1, <3>2
  <2>4. CASE UNCHANGED <<tasks, todo, updates, dead>>
    BY <2>1, <2>4 DEF Unused
  <2>5. CASE w <= cur
    <3>1. \A v \in Workers : v > cur => v # w
      BY <1>1, <2>5 DEF Workers, TypeOK
    <3> QED BY <2>1, <2>2, <2>3, <3>1 DEF Unused
  <2> QED BY <2>1, <2>4, <2>5
<1>4. ASSUME Person \/ Window, ~Open PROVE Unused'
  <2>1. UNCHANGED <<cur, todo, dead>>
    BY <1>4 DEF Person, Window, CloseWindow, navigate, Transfer, AskRemove, Edit, Answer, PressOk, PressCancel,
       BoxReturns, InputReturns, LoopEnds, TakeUpdate, thread, work
  <2>2. tasks' = tasks \/ \E new : tasks' = [tasks EXCEPT ![cur] = @ \o new]
    BY <1>4 DEF Person, Window, CloseWindow, navigate, Transfer, AskRemove, Edit, Answer, PressOk, PressCancel,
       BoxReturns, InputReturns, LoopEnds, TakeUpdate, StartTransfers, Send, work
  <2>3. updates' = updates \/ updates' = [updates EXCEPT ![cur] = <<>>] \/ updates' = [updates EXCEPT ![cur] = Tail(@)]
    BY <1>4 DEF Person, Window, CloseWindow, navigate, Transfer, AskRemove, Edit, Answer, PressOk, PressCancel,
       BoxReturns, InputReturns, LoopEnds, TakeUpdate, work
  <2>4. ASSUME NEW w \in Workers, w > cur PROVE w # cur /\ tasks'[w] = tasks[w] /\ updates'[w] = updates[w]
    <3>1. cur \in Nat /\ w # cur
      BY <1>1, <2>4 DEF TypeOK, Workers
    <3> QED BY <1>1, <2>2, <2>3, <3>1 DEF TypeOK
  <2> QED BY <2>1, <2>4 DEF Unused
<1>5. CASE UNCHANGED vars
  BY <1>5 DEF vars, thread, work, Unused
<1> QED BY <1>2, <1>3, <1>4, <1>5 DEF Next

\* Every step keeps the count.
LEMMA PendingKept ==
  ASSUME FileManagerAssumption, Typed, PendInv, [Next]_vars
  PROVE  PendingCounts'
<1> USE DEF PendInv
<1>0. TypeOK
  BY DEF Typed
<1>1. CASE Open
  <2>1. /\ cur' \in Workers /\ cur' > cur /\ pending' = 0 /\ tasks' = tasks /\ updates' = updates
        /\ todo'[cur'] = <<List("remote", Root), List("local", Home)>>
    <3>1. /\ cur < MaxOpens /\ cur' = cur + 1 /\ pending' = 0 /\ tasks' = tasks /\ updates' = updates
          /\ todo' = [todo EXCEPT ![cur'] = <<List("remote", Root), List("local", Home)>>]
      BY <1>1 DEF Open, NewPanes
    <3>2. cur \in 0 .. MaxOpens /\ MaxOpens \in Nat
      BY <1>0, Bounds, Zenon DEF TypeOK
    <3>3. cur' \in Workers /\ cur' > cur
      BY <3>1, <3>2 DEF Workers
    <3>4. todo \in [Workers -> Seq(Step)]
      BY <1>0, Zenon DEF TypeOK
    <3> QED BY <3>1, <3>3, <3>4
  <2>2. buttons' = TRUE
    BY <1>1 DEF Open, NewPanes
  <2>3. Count(todo'[cur'], TransferTasks) = 0
    <3>1. List("remote", Root) \notin TransferTasks /\ List("local", Home) \notin TransferTasks
      BY DEF List, TransferTasks
    <3>2. {i \in DOMAIN todo'[cur'] : todo'[cur'][i] \in TransferTasks} = {}
      BY <2>1, <3>1
    <3> QED BY <3>2, FS_EmptySet DEF Count
  <2>4. Count(tasks'[cur'], TransferTasks) = 0 /\ Count(updates'[cur'], {Done}) = 0
    BY <2>1, CountNone DEF Unused
  <2>5. UnderWay(cur)' = 0
    BY <2>3, <2>4 DEF UnderWay
  <2> QED BY <2>1, <2>2, <2>5 DEF PendingCounts
<1>2. CASE CloseWindow
  BY <1>2 DEF CloseWindow, PendingCounts
<1>3. ASSUME NEW s \in Sides, NEW d \in Paths, navigate(s, d) PROVE PendingCounts'
  <2>1. List(s, d) \in Task /\ List(s, d).op # "transfer" /\ live
    BY <1>3, EnabledMeans DEF List, Task, navigate
  <2> QED BY <1>3, <2>1, OtherCounts DEF navigate, thread, pane, history
<1>4. ASSUME NEW s \in Sides, NEW n \in 1 .. MaxBatch, Transfer(s, n) PROVE PendingCounts'
  <2>1. live /\ UNCHANGED <<cur, live, todo, updates, dead>>
    BY <1>4, EnabledMeans DEF Transfer
  <2>2. CASE StartTransfers(s, n)
    BY <2>1, <2>2, StartCounts
  <2>3. CASE UNCHANGED <<pending, buttons, tasks, overlapped>>
    BY <2>1, <2>3, PendingStays DEF UnderWay
  <2> QED BY <1>4, <2>2, <2>3 DEF Transfer
<1>5. CASE BoxReturns
  <2>1. stack # <<>> /\ UNCHANGED <<cur, live, todo, updates, dead>>
    BY <1>5 DEF BoxReturns, Running
  <2>2. Top.kind = "ask" => Top.job \in Job /\ Top.job.op \in {"transfer", "remove"}
    BY <2>1, TopTyped DEF FrameFits
  <2>3. CASE live /\ Top.kind = "ask" /\ Top.job.op = "transfer" /\ StartTransfers(Top.job.side, Top.job.n)
    <3>1. Top.job.side \in Sides /\ Top.job.n \in 1 .. MaxBatch
      BY <2>2, <2>3, JobTyped
    <3> QED BY <2>1, <2>3, <3>1, StartCounts
  <2>4. CASE /\ live /\ Top.kind = "ask" /\ Send(cur, <<RemoveTask(Top.job)>>)
             /\ UNCHANGED <<pending, buttons, overlapped>>
    <3>1. RemoveTask(Top.job) \in Task /\ RemoveTask(Top.job).op # "transfer"
      BY <2>2, <2>4, JobTyped DEF RemoveTask, Task
    <3> QED BY <2>1, <2>4, <3>1, OtherCounts
  <2>5. CASE UNCHANGED <<pending, buttons, tasks, overlapped>>
    BY <2>1, <2>5, PendingStays DEF UnderWay
  <2> QED BY <1>5, <2>3, <2>4, <2>5, Zenon DEF BoxReturns
<1>6. CASE InputReturns
  <2>1. stack # <<>> /\ Top.kind = "box" /\ UNCHANGED <<cur, live, pending, buttons, overlapped, todo, updates, dead>>
    BY <1>6 DEF InputReturns, Running, pane
  <2>2. Top.job \in Job
    BY <2>1, TopTyped DEF FrameFits
  <2> DEFINE t == [op |-> "edit", side |-> Top.job.side, from |-> Top.job.from]
  <2>3. t \in Task /\ t.op # "transfer"
    BY <2>2, JobTyped DEF Task
  <2>4. (live /\ Send(cur, <<t>>)) \/ tasks' = tasks
    BY <1>6 DEF InputReturns
  <2> HIDE DEF t
  <2>5. CASE live /\ Send(cur, <<t>>)
    BY <2>1, <2>3, <2>5, OtherCounts
  <2>6. CASE tasks' = tasks
    BY <2>1, <2>6, PendingStays DEF UnderWay
  <2> QED BY <2>4, <2>5, <2>6
<1>7. CASE TakeUpdate
  BY <1>7, TakenCounts
<1>8. ASSUME NEW w \in Workers, Work(w) \/ LoseConnection(w) PROVE PendingCounts'
  BY <1>8, WorkCounts
<1>9. CASE UNCHANGED <<cur, live, pending, buttons, overlapped, tasks, todo, updates, dead>>
  BY <1>9, PendingStays DEF UnderWay
<1>10. ASSUME \/ \E s \in Sides : AskRemove(s) \/ Edit(s)
              \/ \E i \in DOMAIN stack, yes \in BOOLEAN : Answer(i, yes)
              \/ \E b \in Boxes : PressOk(b) \/ PressCancel(b)
              \/ LoopEnds \/ UNCHANGED vars
       PROVE  UNCHANGED <<cur, live, pending, buttons, overlapped, tasks, todo, updates, dead>>
  BY <1>10 DEF AskRemove, Edit, Answer, PressOk, PressCancel, LoopEnds, vars, thread, pane, work, history
<1> QED
  BY <1>1, <1>2, <1>3, <1>4, <1>5, <1>6, <1>7, <1>8, <1>9, <1>10 DEF Next, Person, Window

\* As long as the connection lives and no transfers were started on top of others, the
\* number on which the buttons rest is that of the transfers that the window has still to
\* hear of, wherever they are: in the channel, in the worker's hands or in the channel back.
THEOREM PendingIsUnderWay == Spec => []PendingCounts
<1> FileManagerAssumption
  BY FileManagerAssumption
<1>1. Init => PendInv
  BY DEF Init, PendInv, Unused, PendingCounts
<1>2. Typed /\ PendInv /\ [Next]_vars => PendInv'
  BY UnusedKept, PendingKept DEF PendInv
<1>3. PendInv => PendingCounts
  BY DEF PendInv
<1> QED BY <1>1, <1>2, <1>3, TypesHold, PTL DEF Spec
=============================================================================
