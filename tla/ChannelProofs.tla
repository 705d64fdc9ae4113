---------------------------- MODULE ChannelProofs ----------------------------
(***************************************************************************)
(* The encrypted connection, for any number of threads and messages and    *)
(* any capacities: the counters of both ends go together, and it is a      *)
(* Delivery.                                                               *)
(***************************************************************************)
EXTENDS Channel, SequenceTheorems, TLAPS

-----------------------------------------------------------------------------
(* Sequences                                                               *)

\* A queue at whose end an element is put.
LEMMA Pushed ==
  ASSUME NEW S, NEW s \in Seq(S), NEW e \in S
  PROVE  /\ Append(s, e) \in Seq(S) /\ Len(s) \in Nat /\ Len(Append(s, e)) = Len(s) + 1
         /\ \A i \in 1 .. Len(s) : Append(s, e)[i] = s[i]
         /\ Append(s, e)[Len(s) + 1] = e
OBVIOUS

\* A queue whose first element is taken.
LEMMA Popped ==
  ASSUME NEW S, NEW s \in Seq(S), s # <<>>
  PROVE  /\ Tail(s) \in Seq(S) /\ Len(s) \in Nat \ {0} /\ Len(Tail(s)) = Len(s) - 1
         /\ Head(s) = s[1] /\ s[1] \in S
         /\ \A i \in 1 .. Len(s) - 1 : Tail(s)[i] = s[i + 1]
OBVIOUS

\* A queue that is cut off.
LEMMA CutAt ==
  ASSUME NEW S, NEW s \in Seq(S), NEW k \in 0 .. Len(s)
  PROVE  /\ SubSeq(s, 1, k) \in Seq(S) /\ Len(SubSeq(s, 1, k)) = k /\ Len(s) \in Nat
         /\ \A i \in 1 .. k : SubSeq(s, 1, k)[i] = s[i]
OBVIOUS

\* A queue of two or more.
LEMMA AtLeastTwo ==
  ASSUME NEW S, NEW s \in Seq(S), Len(s) >= 2
  PROVE  /\ s # <<>> /\ Tail(s) \in Seq(S) /\ Tail(s) # <<>>
         /\ Tail(s)[1] = s[2] /\ s[1] \in S /\ s[2] \in S
         /\ Tail(Tail(s)) \in Seq(S)
<1> DEFINE t == Tail(s)
<1>1. Len(s) \in Nat /\ Len(s) >= 2 /\ s # <<>>
  OBVIOUS
<1>2. t \in Seq(S) /\ Len(t) = Len(s) - 1 /\ \A i \in 1 .. Len(s) - 1 : t[i] = s[i + 1]
  BY <1>1, Popped
<1>3. s[1] \in S /\ s[2] \in S
  BY <1>1
<1> HIDE DEF t
<1>4. t # <<>>
  BY <1>1, <1>2
<1>5. t[1] = s[2]
  BY <1>1, <1>2
<1>6. Tail(t) \in Seq(S)
  BY <1>2, <1>4, Popped
<1> QED BY <1>1, <1>2, <1>3, <1>4, <1>5, <1>6 DEF t

-----------------------------------------------------------------------------
(* Types                                                                   *)

\* Messages go one way: from threads up, from sources and the server itself down.
UpMsgs == {m \in Msgs : m.from \in Threads}
DownMsgs == {m \in Msgs : m.from \notin Threads}
FramesOf(msgs) == [ctr : Nat, msg : msgs]
PartsOf(msgs) == [part : {"len", "body"}, ctr : Nat, msg : msgs]

UpTypes ==
  /\ up \in BOOLEAN
  /\ stream \in Threads \cup {None}
  /\ frame \in [Threads -> FramesOf(UpMsgs) \cup {None}]
  /\ lenSent \in [Threads -> BOOLEAN]
  /\ sealUp \in Nat /\ openUp \in Nat
  /\ wireUp \in Seq(PartsOf(UpMsgs))
  /\ sent \in [Senders -> 0 .. Messages]
  /\ delivered \in [Senders -> 0 .. Messages]
  /\ garbled \in BOOLEAN

DownTypes ==
  /\ writer \in BOOLEAN /\ reader \in BOOLEAN
  /\ sealDown \in Nat /\ openDown \in Nat
  /\ prio \in Seq(DownMsgs) /\ Len(prio) <= PRIO
  /\ video \in Seq({VideoFrame}) /\ Len(video) <= VIDEO
  /\ captured \in 0 .. Captures
  /\ writing \in FramesOf(DownMsgs) \cup {None}
  /\ wireDown \in Seq(FramesOf(DownMsgs))

Types == UpTypes /\ DownTypes

LEMMA MsgFacts ==
  /\ \A m \in UpMsgs : m.from \in Threads /\ m.n \in 1 .. Messages
  /\ \A m \in DownMsgs : m.from \in Sources \cup {None}
  /\ \A m \in DownMsgs : m.from # None => m.from \in Sources /\ m.n \in 1 .. Messages
  /\ PongFrame \in DownMsgs /\ VideoFrame \in DownMsgs
  /\ None \notin Senders
BY ChannelAssumption DEF UpMsgs, DownMsgs, Msgs, PongFrame, VideoFrame, Senders

LEMMA FrameFacts ==
  /\ None \notin FramesOf(UpMsgs) /\ None \notin FramesOf(DownMsgs)
  /\ FramesOf(UpMsgs) \subseteq Frames /\ FramesOf(DownMsgs) \subseteq Frames
  /\ PartsOf(UpMsgs) \subseteq Parts
<1>1. Msgs \subseteq [from : Threads \cup Sources \cup {None}, n : Nat]
  BY ChannelAssumption DEF Msgs, Senders, PongFrame, VideoFrame
<1>2. UpMsgs \subseteq Msgs /\ DownMsgs \subseteq Msgs
  BY DEF UpMsgs, DownMsgs
<1>3. Frames \subseteq [ctr : Nat, msg : [from : Threads \cup Sources \cup {None}, n : Nat]]
  BY <1>1 DEF Frames
<1> QED BY <1>2, <1>3, ChannelAssumption DEF FramesOf, PartsOf, Frames, Parts

LEMMA TypesImply == Types => TypeOK
<1> SUFFICES ASSUME Types PROVE TypeOK
  OBVIOUS
<1>1. DownMsgs \subseteq Msgs
  BY DEF DownMsgs
<1>2. prio \in Seq(Msgs)
  BY <1>1 DEF Types, DownTypes
<1>3. wireUp \in Seq(Parts) /\ wireDown \in Seq(Frames)
  BY FrameFacts DEF Types, UpTypes, DownTypes
<1> QED BY <1>2, <1>3, FrameFacts DEF Types, UpTypes, DownTypes, TypeOK

\* The next message of a sender, when it hands one over.
LEMMA HandedType ==
  ASSUME Types, NEW s \in Senders, Handed(s)
  PROVE  /\ sent' \in [Senders -> 0 .. Messages] /\ sent[s] \in Nat
         /\ sent' = [sent EXCEPT ![s] = sent[s] + 1]
         /\ NextOf(s) \in Msgs /\ NextOf(s).from = s /\ NextOf(s).n = sent[s] + 1
         /\ s \in Threads => NextOf(s) \in UpMsgs
         /\ s \in Sources => NextOf(s) \in DownMsgs
<1>1. sent[s] \in 0 .. Messages /\ Messages \in Nat
  BY ChannelAssumption DEF Types, UpTypes
<1>2. sent[s] + 1 \in 1 .. Messages
  BY <1>1 DEF Handed
<1> QED BY <1>1, <1>2, ChannelAssumption
        DEF Handed, NextOf, Msgs, UpMsgs, DownMsgs, Types, UpTypes, Senders

LEMMA TrySendType ==
  ASSUME NEW S, NEW q \in Seq(S), NEW cap \in Nat, Len(q) <= cap, NEW m \in S
  PROVE  TrySend(q, cap, m) \in Seq(S) /\ Len(TrySend(q, cap, m)) <= cap
<1>1. CASE Len(q) < cap
  BY <1>1, Pushed DEF TrySend
<1>2. CASE ~(Len(q) < cap)
  BY <1>2 DEF TrySend
<1> QED BY <1>1, <1>2

LEMMA InitTypes == Init => Types
<1> SUFFICES ASSUME Init PROVE Types
  OBVIOUS
<1>1. 0 \in 0 .. Messages /\ 0 \in 0 .. Captures /\ PRIO >= 0 /\ VIDEO >= 0
  BY ChannelAssumption
<1>2. /\ wireUp \in Seq(PartsOf(UpMsgs)) /\ prio \in Seq(DownMsgs) /\ Len(prio) = 0
      /\ video \in Seq({VideoFrame}) /\ Len(video) = 0 /\ wireDown \in Seq(FramesOf(DownMsgs))
  BY DEF Init
<1> QED BY <1>1, <1>2 DEF Init, Types, UpTypes, DownTypes

\* A thread of the client.
LEMMA ThreadTypes ==
  ASSUME Types, NEW t \in Threads, LockAndSeal(t) \/ Writes(t)
  PROVE  Types'
<1> USE DEF serverVars
<1>0. t \in Senders /\ None \notin FramesOf(UpMsgs)
  BY FrameFacts DEF Senders
<1>1. CASE LockAndSeal(t)
  <2>1. Sealed(sealUp, NextOf(t)) \in FramesOf(UpMsgs)
    BY <1>0, <1>1, HandedType DEF LockAndSeal, Sealed, FramesOf, Types, UpTypes
  <2>2. sent' \in [Senders -> 0 .. Messages]
    BY <1>0, <1>1, HandedType DEF LockAndSeal
  <2> QED BY <1>1, <2>1, <2>2 DEF LockAndSeal, Types, UpTypes, DownTypes
<1>2. CASE WriteLen(t)
  <2>1. frame[t] \in FramesOf(UpMsgs)
    BY <1>2 DEF WriteLen, Types, UpTypes
  <2>2. Part("len", frame[t]) \in PartsOf(UpMsgs)
    BY <2>1 DEF Part, FramesOf, PartsOf
  <2>3. wireUp' \in Seq(PartsOf(UpMsgs))
    BY <1>2, <2>2 DEF WriteLen, Types, UpTypes
  <2> QED BY <1>2, <2>3 DEF WriteLen, Types, UpTypes, DownTypes
<1>3. CASE WriteBody(t)
  <2>1. frame[t] \in FramesOf(UpMsgs)
    BY <1>3 DEF WriteBody, Types, UpTypes
  <2>2. Part("body", frame[t]) \in PartsOf(UpMsgs)
    BY <2>1 DEF Part, FramesOf, PartsOf
  <2>3. wireUp' \in Seq(PartsOf(UpMsgs))
    BY <1>3, <2>2 DEF WriteBody, Types, UpTypes
  <2> QED BY <1>3, <2>3 DEF WriteBody, Released, Types, UpTypes, DownTypes
<1>4. CASE SendFails(t)
  BY <1>4 DEF SendFails, Released, Types, UpTypes, DownTypes
<1> QED BY <1>1, <1>2, <1>3, <1>4 DEF Writes

\* The server's read loop.
LEMMA ServerReadsTypes == ASSUME Types, ServerReads PROVE Types'
<1> USE DEF clientVars
<1> DEFINE body == wireUp[2]
<1>1. /\ wireUp \in Seq(PartsOf(UpMsgs)) /\ body \in PartsOf(UpMsgs)
      /\ wireUp' \in Seq(PartsOf(UpMsgs))
  BY AtLeastTwo DEF ServerReads, Types, UpTypes
<1>2. body.msg.from \in Threads /\ body.msg.n \in 0 .. Messages
  BY <1>1, MsgFacts, ChannelAssumption DEF PartsOf
<1>3. TrySend(prio, PRIO, PongFrame) \in Seq(DownMsgs) /\ Len(TrySend(prio, PRIO, PongFrame)) <= PRIO
  BY TrySendType, MsgFacts, ChannelAssumption DEF Types, DownTypes
<1>4. CASE Whole(wireUp[1], body) /\ Opens(body, openUp)
  <2>1. delivered' \in [Senders -> 0 .. Messages]
    <3>1. delivered' = [delivered EXCEPT ![body.msg.from] = body.msg.n]
      BY <1>4 DEF ServerReads
    <3> HIDE DEF body
    <3> QED BY <1>2, <3>1 DEF Types, UpTypes
  <2>2. prio' \in Seq(DownMsgs) /\ Len(prio') <= PRIO
    <3>1. prio' = TrySend(prio, PRIO, PongFrame) \/ prio' = prio
      BY <1>4 DEF ServerReads
    <3> QED BY <1>3, <3>1 DEF Types, DownTypes
  <2>3. openUp' \in Nat /\ garbled' = garbled
    BY <1>4 DEF ServerReads, Types, UpTypes
  <2> QED BY <1>1, <2>1, <2>2, <2>3 DEF ServerReads, Types, UpTypes, DownTypes
<1>5. CASE ~(Whole(wireUp[1], body) /\ Opens(body, openUp))
  BY <1>1, <1>5 DEF ServerReads, Types, UpTypes, DownTypes
<1> QED BY <1>4, <1>5

\* The server's senders.
LEMMA SourceTypes ==
  ASSUME Types, CaptureFrame \/ \E s \in Sources : RespondBlocking(s)
  PROVE  Types'
<1> USE DEF clientVars
<1>1. ASSUME NEW s \in Sources, RespondBlocking(s) PROVE Types'
  <2>1. s \in Senders
    BY DEF Senders
  <2>2. sent' \in [Senders -> 0 .. Messages] /\ NextOf(s) \in DownMsgs
    BY <1>1, <2>1, HandedType DEF RespondBlocking
  <2>3. prio' \in Seq(DownMsgs) /\ Len(prio') <= PRIO
    <3>1. CASE Len(prio) < PRIO /\ prio' = Append(prio, NextOf(s))
      BY <2>2, <3>1, Pushed, ChannelAssumption DEF Types, DownTypes
    <3>2. CASE UNCHANGED prio
      BY <3>2 DEF Types, DownTypes
    <3> QED BY <1>1, <3>1, <3>2 DEF RespondBlocking
  <2> QED BY <1>1, <2>2, <2>3 DEF RespondBlocking, Types, UpTypes, DownTypes
<1>2. CASE CaptureFrame
  <2>1. TrySend(video, VIDEO, VideoFrame) \in Seq({VideoFrame}) /\ Len(TrySend(video, VIDEO, VideoFrame)) <= VIDEO
    BY TrySendType, ChannelAssumption DEF Types, DownTypes
  <2>2. video' \in Seq({VideoFrame}) /\ Len(video') <= VIDEO
    BY <1>2, <2>1 DEF CaptureFrame, Types, DownTypes
  <2>3. captured' \in 0 .. Captures
    BY <1>2, ChannelAssumption DEF CaptureFrame, Types, DownTypes
  <2> QED BY <1>2, <2>2, <2>3 DEF CaptureFrame, Types, UpTypes, DownTypes
<1> QED BY <1>1, <1>2

\* The writer task.
LEMMA WriterTypes == ASSUME Types, Writer PROVE Types'
<1> USE DEF clientVars
<1>1. CASE WriterTakes
  <2>1. CASE prio # <<>> /\ writing' = Sealed(sealDown, Head(prio)) /\ prio' = Tail(prio) /\ UNCHANGED video
    <3>1. /\ prio' \in Seq(DownMsgs) /\ Head(prio) \in DownMsgs /\ Len(prio') <= PRIO
      BY <2>1, Popped, ChannelAssumption DEF Types, DownTypes
    <3>2. writing' \in FramesOf(DownMsgs) /\ sealDown' \in Nat
      BY <1>1, <2>1, <3>1 DEF WriterTakes, Sealed, FramesOf, Types, DownTypes
    <3> QED BY <1>1, <2>1, <3>1, <3>2 DEF WriterTakes, Types, UpTypes, DownTypes
  <2>2. CASE video # <<>> /\ writing' = Sealed(sealDown, Head(video)) /\ video' = Tail(video) /\ UNCHANGED prio
    <3>1. /\ video' \in Seq({VideoFrame}) /\ Head(video) \in DownMsgs /\ Len(video') <= VIDEO
      BY <2>2, Popped, MsgFacts, ChannelAssumption DEF Types, DownTypes
    <3>2. writing' \in FramesOf(DownMsgs) /\ sealDown' \in Nat
      BY <1>1, <2>2, <3>1 DEF WriterTakes, Sealed, FramesOf, Types, DownTypes
    <3> QED BY <1>1, <2>2, <3>1, <3>2 DEF WriterTakes, Types, UpTypes, DownTypes
  <2> QED BY <1>1, <2>1, <2>2 DEF WriterTakes
<1>2. CASE WriterWrites
  <2>1. writing \in FramesOf(DownMsgs)
    BY <1>2 DEF WriterWrites, Types, DownTypes
  <2>2. wireDown' \in Seq(FramesOf(DownMsgs))
    BY <1>2, <2>1 DEF WriterWrites, Types, DownTypes
  <2> QED BY <1>2, <2>2 DEF WriterWrites, Types, UpTypes, DownTypes
<1>3. CASE WriterBreaks
  <2>1. prio' \in Seq(DownMsgs) /\ video' \in Seq({VideoFrame}) /\ Len(prio') <= PRIO /\ Len(video') <= VIDEO
    BY <1>3, ChannelAssumption DEF WriterBreaks
  <2> QED BY <1>3, <2>1 DEF WriterBreaks, Types, UpTypes, DownTypes
<1> QED BY <1>1, <1>2, <1>3 DEF Writer

\* The client's reader, and the connection.
LEMMA ReaderTypes == ASSUME Types, ClientReads \/ ReaderTimesOut \/ Disconnect PROVE Types'
<1> USE DEF clientVars, serverVars
<1>1. CASE ClientReads
  <2> DEFINE f == Head(wireDown)
  <2>1. /\ f \in FramesOf(DownMsgs) /\ wireDown' \in Seq(FramesOf(DownMsgs))
    <3>1. /\ wireDown \in Seq(FramesOf(DownMsgs)) /\ wireDown # <<>>
          /\ wireDown' = Tail(wireDown) \/ wireDown' = wireDown
      BY <1>1 DEF ClientReads, Types, DownTypes
    <3> QED BY <3>1, Popped
  <2>2. f.msg \in DownMsgs
    BY <2>1 DEF FramesOf
  <2>0. CASE reader' = FALSE /\ UNCHANGED <<openDown, delivered, garbled>>
    BY <1>1, <2>0, <2>1 DEF ClientReads, Types, UpTypes, DownTypes
  <2>3. CASE Opens(f, openDown) /\ UNCHANGED <<reader, garbled>>
    <3>1. delivered' \in [Senders -> 0 .. Messages]
      <4>1. delivered' = delivered \/ (f.msg.from # None /\ delivered' = [delivered EXCEPT ![f.msg.from] = f.msg.n])
        BY <1>1, <2>3 DEF ClientReads
      <4>2. f.msg.from # None => f.msg.n \in 0 .. Messages
        BY <2>2, MsgFacts, ChannelAssumption
      <4> HIDE DEF f
      <4> QED BY <4>1, <4>2 DEF Types, UpTypes
    <3>2. openDown' \in Nat /\ UNCHANGED <<reader, garbled>>
      BY <1>1, <2>3 DEF ClientReads, Types, DownTypes
    <3> QED BY <1>1, <2>1, <3>1, <3>2 DEF ClientReads, Types, UpTypes, DownTypes
  <2>4. CASE ~Opens(f, openDown) /\ garbled' = TRUE
    BY <1>1, <2>1, <2>4 DEF ClientReads, Types, UpTypes, DownTypes
  <2> QED BY <1>1, <2>0, <2>3, <2>4 DEF ClientReads
<1>2. CASE ReaderTimesOut
  BY <1>2 DEF ReaderTimesOut, Types, UpTypes, DownTypes
<1>3. CASE Disconnect
  <2>1. wireUp' \in Seq(PartsOf(UpMsgs)) /\ wireDown' \in Seq(FramesOf(DownMsgs))
    BY <1>3, CutAt DEF Disconnect, Types, UpTypes, DownTypes
  <2> QED BY <1>3, <2>1 DEF Disconnect, Types, UpTypes, DownTypes
<1> QED BY <1>1, <1>2, <1>3

LEMMA NextTypes == Types /\ [Next]_vars => Types'
<1> SUFFICES ASSUME Types, [Next]_vars PROVE Types'
  OBVIOUS
<1>1. CASE UNCHANGED vars
  BY <1>1 DEF vars, clientVars, serverVars, Types, UpTypes, DownTypes
<1> QED BY <1>1, ThreadTypes, ServerReadsTypes, SourceTypes, WriterTypes, ReaderTypes DEF Next

\* The types of both ends and of what is under way between them.
THEOREM TypeCorrect == Spec => []TypeOK
BY InitTypes, NextTypes, TypesImply, PTL DEF Spec

-----------------------------------------------------------------------------
(* The counters                                                            *)

\* What comes after a part of a frame: the body of a length, the length of the next frame.
After(p) == IF p.part = "len" THEN [part |-> "body", ctr |-> p.ctr]
            ELSE [part |-> "len", ctr |-> p.ctr + 1]

Fits(p, due) == p.part = due.part /\ p.ctr = due.ctr

\* Parts that follow one another, the first of them "due"; what follows the last.
Chained(s, due) ==
  /\ s # <<>> => Fits(s[1], due)
  /\ \A i \in 1 .. Len(s) - 1 : Fits(s[i + 1], After(s[i]))

End(s, due) == IF s = <<>> THEN due ELSE After(s[Len(s)])

LEMMA PushChained ==
  ASSUME NEW S, NEW s \in Seq(S), NEW p \in S, NEW due, Chained(s, due), Fits(p, End(s, due))
  PROVE  Chained(Append(s, p), due) /\ End(Append(s, p), due) = After(p)
<1> DEFINE t == Append(s, p)
<1>1. /\ t \in Seq(S) /\ Len(s) \in Nat /\ Len(t) = Len(s) + 1 /\ t[Len(s) + 1] = p
      /\ \A i \in 1 .. Len(s) : t[i] = s[i]
  BY Pushed
<1>0. (s = <<>>) <=> (Len(s) = 0)
  BY EmptySeq
<1> HIDE DEF t
<1>2. Fits(t[1], due)
  BY <1>0, <1>1 DEF Chained, End, Fits
<1>3. ASSUME NEW i \in 1 .. Len(t) - 1 PROVE Fits(t[i + 1], After(t[i]))
  <2>1. CASE i = Len(s)
    <3>1. s # <<>> /\ t[i + 1] = p /\ t[i] = s[Len(s)]
      BY <1>0, <1>1, <1>3, <2>1
    <3> QED BY <3>1 DEF End
  <2>2. CASE i # Len(s)
    <3>1. i \in 1 .. Len(s) - 1 /\ i + 1 \in 1 .. Len(s) /\ i \in 1 .. Len(s)
      BY <1>1, <1>3, <2>2
    <3> QED BY <1>1, <3>1 DEF Chained
  <2> QED BY <2>1, <2>2
<1>4. End(t, due) = After(p)
  <2>1. t # <<>> /\ t[Len(t)] = p
    BY <1>1
  <2> QED BY <2>1 DEF End
<1> QED BY <1>2, <1>3, <1>4 DEF Chained, t

LEMMA PopChained ==
  ASSUME NEW S, NEW s \in Seq(S), s # <<>>, NEW due, Chained(s, due)
  PROVE  /\ Fits(s[1], due)
         /\ Chained(Tail(s), After(s[1])) /\ End(Tail(s), After(s[1])) = End(s, due)
<1> DEFINE t == Tail(s)
<1>1. /\ t \in Seq(S) /\ Len(s) \in Nat \ {0} /\ Len(t) = Len(s) - 1
      /\ \A i \in 1 .. Len(t) : t[i] = s[i + 1]
  BY Popped
<1> HIDE DEF t
<1>0. (t = <<>>) <=> (Len(t) = 0)
  BY <1>1, EmptySeq
<1>2. Fits(s[1], due)
  BY DEF Chained
<1>3. t # <<>> => Fits(t[1], After(s[1]))
  <2> SUFFICES ASSUME t # <<>> PROVE Fits(t[1], After(s[1]))
    OBVIOUS
  <2>1. 1 \in 1 .. Len(s) - 1 /\ t[1] = s[1 + 1]
    BY <1>0, <1>1
  <2> QED BY <2>1 DEF Chained
<1>4. ASSUME NEW i \in 1 .. Len(t) - 1 PROVE Fits(t[i + 1], After(t[i]))
  <2>1. i + 1 \in 1 .. Len(s) - 1 /\ t[i + 1] = s[i + 1 + 1] /\ t[i] = s[i + 1]
    BY <1>1, <1>4
  <2> QED BY <2>1 DEF Chained
<1>5. End(t, After(s[1])) = End(s, due)
  BY <1>0, <1>1 DEF End
<1> QED BY <1>2, <1>3, <1>4, <1>5 DEF Chained, t

LEMMA CutChained ==
  ASSUME NEW S, NEW s \in Seq(S), NEW k \in 0 .. Len(s), NEW due, Chained(s, due)
  PROVE  Chained(SubSeq(s, 1, k), due)
<1> DEFINE t == SubSeq(s, 1, k)
<1>1. /\ Len(t) = k /\ Len(s) \in Nat /\ \A i \in 1 .. k : t[i] = s[i]
      /\ t # <<>> => s # <<>> /\ k >= 1
  BY CutAt
<1> HIDE DEF t
<1>2. \A i \in 1 .. k - 1 : i \in 1 .. Len(s) - 1 /\ i + 1 \in 1 .. k /\ i \in 1 .. k
  BY <1>1
<1> QED BY <1>1, <1>2 DEF Chained, t

\* Up: what is under way are whole frames, each part followed by the next, the first of them
\* the length of the frame the server will open next.  As long as the connection stands,
\* the thread that holds the lock goes on from where the others ended.
Due == [part |-> "len", ctr |-> openUp]

OneHolder ==
  \A t \in Threads : /\ frame[t] # None => stream = t
                     /\ lenSent[t] => frame[t] # None

Complete ==
  up => /\ \A t \in Threads : frame[t] # None =>
             /\ frame[t].ctr + 1 = sealUp
             /\ End(wireUp, Due) = [part |-> IF lenSent[t] THEN "body" ELSE "len", ctr |-> frame[t].ctr]
        /\ (\A t \in Threads : frame[t] = None) =>
             End(wireUp, Due) = [part |-> "len", ctr |-> sealUp]

UpInv == OneHolder /\ Chained(wireUp, Due) /\ Complete

\* Down: one task writes whole frames.
DownInv ==
  /\ \A i \in 1 .. Len(wireDown) : wireDown[i].ctr = openDown + i - 1
  /\ up => IF writing = None THEN writer => sealDown = openDown + Len(wireDown)
           ELSE writing.ctr + 1 = sealDown /\ writing.ctr = openDown + Len(wireDown)

Together == UpInv /\ DownInv /\ ~garbled

\* A thread of the client.
LEMMA ThreadUp == ASSUME Types, UpInv, NEW t \in Threads, LockAndSeal(t) \/ Writes(t) PROVE UpInv'
<1>0. /\ None \notin FramesOf(UpMsgs) /\ None \notin Threads
      /\ wireUp \in Seq(PartsOf(UpMsgs)) /\ sealUp \in Nat /\ up \in BOOLEAN
      /\ frame \in [Threads -> FramesOf(UpMsgs) \cup {None}] /\ lenSent \in [Threads -> BOOLEAN]
      /\ frame[t] # None => frame[t].ctr \in Nat /\ frame[t] \in FramesOf(UpMsgs)
      /\ t \in Senders
  BY FrameFacts, ChannelAssumption DEF Types, UpTypes, FramesOf, Senders
<1>1. CASE LockAndSeal(t)
  <2>1. Sealed(sealUp, NextOf(t)) # None
    <3>1. Sealed(sealUp, NextOf(t)) \in FramesOf(UpMsgs)
      BY <1>0, <1>1, HandedType DEF LockAndSeal, Sealed, FramesOf
    <3> QED BY <1>0, <3>1
  <2>2. \A j \in Threads : frame[j] = None /\ ~lenSent[j]
    BY <1>0, <1>1 DEF LockAndSeal, UpInv, OneHolder
  <2>3. /\ frame'[t] = Sealed(sealUp, NextOf(t)) /\ \A j \in Threads \ {t} : frame'[j] = None
        /\ stream' = t /\ sealUp' = sealUp + 1 /\ UNCHANGED <<up, lenSent, wireUp, openUp>>
    BY <1>0, <1>1, <2>2 DEF LockAndSeal
  <2>4. frame'[t].ctr = sealUp
    BY <2>3 DEF Sealed
  <2>5. OneHolder'
    BY <2>1, <2>2, <2>3 DEF OneHolder
  <2>6. Due' = Due
    BY <2>3 DEF Due
  <2>7. Complete'
    BY <1>0, <2>1, <2>2, <2>3, <2>4, <2>6 DEF UpInv, Complete
  <2> QED BY <2>3, <2>5, <2>6, <2>7 DEF UpInv
<1>2. CASE WriteLen(t)
  <2> DEFINE part == Part("len", frame[t])
  <2>1. /\ up /\ frame[t] # None /\ ~lenSent[t] /\ frame[t].ctr \in Nat /\ stream = t
        /\ UNCHANGED <<up, frame, sealUp, openUp, stream>>
        /\ lenSent'[t] = TRUE /\ \A j \in Threads \ {t} : lenSent'[j] = lenSent[j]
        /\ \A j \in Threads \ {t} : frame[j] = None
    BY <1>0, <1>2 DEF WriteLen, UpInv, OneHolder
  <2>2. End(wireUp, Due) = [part |-> "len", ctr |-> frame[t].ctr] /\ frame[t].ctr + 1 = sealUp
    BY <2>1 DEF UpInv, Complete
  <2>3. part \in PartsOf(UpMsgs) /\ part.part = "len" /\ part.ctr = frame[t].ctr
    BY <1>0, <2>1 DEF Part, FramesOf, PartsOf
  <2>4. wireUp' = Append(wireUp, part) /\ Due' = Due
    BY <1>2 DEF WriteLen, Due
  <2> HIDE DEF part
  <2>5. Chained(wireUp', Due) /\ End(wireUp', Due) = After(part)
    BY <1>0, <2>2, <2>3, <2>4, PushChained DEF UpInv, Fits
  <2>6. After(part) = [part |-> "body", ctr |-> frame[t].ctr]
    BY <2>3 DEF After
  <2>7. Complete'
    BY <2>1, <2>2, <2>4, <2>5, <2>6 DEF Complete
  <2>8. OneHolder'
    BY <2>1 DEF UpInv, OneHolder
  <2> QED BY <2>4, <2>5, <2>7, <2>8 DEF UpInv
<1>3. CASE WriteBody(t)
  <2> DEFINE part == Part("body", frame[t])
  <2>1. /\ up /\ frame[t] # None /\ lenSent[t] /\ frame[t].ctr \in Nat /\ stream = t
        /\ UNCHANGED <<up, sealUp, openUp>>
        /\ \A j \in Threads : frame'[j] = None /\ lenSent'[j] = FALSE
    BY <1>0, <1>3 DEF WriteBody, Released, UpInv, OneHolder
  <2>2. End(wireUp, Due) = [part |-> "body", ctr |-> frame[t].ctr] /\ frame[t].ctr + 1 = sealUp
    BY <2>1 DEF UpInv, Complete
  <2>3. part \in PartsOf(UpMsgs) /\ part.part = "body" /\ part.ctr = frame[t].ctr
    BY <1>0, <2>1 DEF Part, FramesOf, PartsOf
  <2>4. wireUp' = Append(wireUp, part) /\ Due' = Due
    BY <1>3 DEF WriteBody, Due
  <2> HIDE DEF part
  <2>5. Chained(wireUp', Due) /\ End(wireUp', Due) = After(part)
    BY <1>0, <2>2, <2>3, <2>4, PushChained DEF UpInv, Fits
  <2>6. After(part) = [part |-> "len", ctr |-> sealUp]
    BY <2>2, <2>3 DEF After
  <2>7. Complete'
    BY <2>1, <2>4, <2>5, <2>6 DEF Complete
  <2>8. OneHolder'
    BY <2>1 DEF OneHolder
  <2> QED BY <2>4, <2>5, <2>7, <2>8 DEF UpInv
<1>4. CASE SendFails(t)
  <2>1. OneHolder'
    BY <1>0, <1>4 DEF SendFails, Released, UpInv, OneHolder
  <2>2. Complete' /\ Chained(wireUp, Due)' /\ Due' = Due
    BY <1>4 DEF SendFails, UpInv, Complete, Due
  <2> QED BY <2>1, <2>2 DEF UpInv
<1> QED BY <1>1, <1>2, <1>3, <1>4 DEF Writes

\* The server's read loop opens what it reads.
LEMMA ServerReadsOpens ==
  ASSUME Types, UpInv, ServerReads
  PROVE  /\ Whole(wireUp[1], wireUp[2]) /\ Opens(wireUp[2], openUp)
         /\ openUp' = openUp + 1 /\ UNCHANGED garbled
         /\ UpInv'
<1> DEFINE t == Tail(wireUp)
           mid == After(wireUp[1])
           last == After(wireUp[2])
<1>1. /\ wireUp \in Seq(PartsOf(UpMsgs)) /\ wireUp # <<>>
      /\ t \in Seq(PartsOf(UpMsgs)) /\ t # <<>> /\ t[1] = wireUp[2] /\ wireUp' = Tail(t)
  BY AtLeastTwo DEF ServerReads, Types, UpTypes
<1> HIDE DEF t
<1>2. Fits(wireUp[1], Due) /\ Chained(t, mid) /\ End(t, mid) = End(wireUp, Due)
  BY <1>1, PopChained DEF UpInv, t
<1>3. Fits(wireUp[2], mid) /\ Chained(wireUp', last) /\ End(wireUp', last) = End(wireUp, Due)
  BY <1>1, <1>2, PopChained
<1>4. wireUp[1].part = "len" /\ wireUp[2].part = "body" /\ wireUp[1].ctr = openUp /\ wireUp[2].ctr = openUp
  BY <1>2, <1>3 DEF Fits, After, Due
<1>5. Whole(wireUp[1], wireUp[2]) /\ Opens(wireUp[2], openUp)
  BY <1>4 DEF Whole, Opens
<1>6. openUp' = openUp + 1 /\ UNCHANGED <<garbled, up, stream, frame, lenSent, sealUp>>
  BY <1>5 DEF ServerReads, clientVars
<1>7. last = Due'
  BY <1>4, <1>6 DEF After, Due
<1> HIDE DEF last
<1>8. Complete'
  BY <1>3, <1>6, <1>7 DEF UpInv, Complete
<1>9. OneHolder'
  BY <1>6 DEF UpInv, OneHolder
<1> QED BY <1>3, <1>5, <1>6, <1>7, <1>8, <1>9 DEF UpInv

\* Cut off anywhere, what is left still follows one another.
LEMMA DisconnectTogether ==
  ASSUME Types, UpInv, DownInv, Disconnect PROVE UpInv' /\ DownInv'
<1>1. PICK i \in 0 .. Len(wireUp), j \in 0 .. Len(wireDown) :
        wireUp' = SubSeq(wireUp, 1, i) /\ wireDown' = SubSeq(wireDown, 1, j)
  BY DEF Disconnect
<1>2. /\ Chained(wireUp', Due)
      /\ Len(wireDown') = j /\ \A k \in 1 .. j : wireDown'[k] = wireDown[k]
      /\ Len(wireDown) \in Nat
  BY <1>1, CutAt, CutChained DEF Types, UpTypes, DownTypes, UpInv
<1>3. ~up' /\ UNCHANGED <<stream, frame, lenSent, openUp, openDown>>
  BY DEF Disconnect, clientVars
<1>4. OneHolder'
  BY <1>3 DEF UpInv, OneHolder
<1>5. Due' = Due
  BY <1>3 DEF Due
<1>6. UpInv'
  BY <1>2, <1>3, <1>4, <1>5 DEF UpInv, Complete
<1>7. DownInv'
  BY <1>2, <1>3 DEF DownInv
<1> QED BY <1>6, <1>7

\* The writer task.
LEMMA WriterDown == ASSUME Types, DownInv, Writer PROVE DownInv'
<1>0. /\ wireDown \in Seq(FramesOf(DownMsgs)) /\ Len(wireDown) \in Nat
      /\ openDown \in Nat /\ sealDown \in Nat
      /\ writing # None => writing \in FramesOf(DownMsgs) /\ writing.ctr \in Nat
  BY DEF Types, DownTypes, FramesOf
<1>1. CASE WriterTakes
  <2>1. PICK m : writing' = Sealed(sealDown, m)
    BY <1>1 DEF WriterTakes
  <2>2. writing'.ctr = sealDown /\ sealDown' = sealDown + 1
    BY <1>1, <2>1 DEF WriterTakes, Sealed
  <2>3. writing = None /\ writer /\ UNCHANGED <<up, wireDown, openDown, writer>>
    BY <1>1 DEF WriterTakes
  <2>4. writing' # None
    <3>1. Types'
      BY <1>1, WriterTypes DEF Writer
    <3>2. writing' \in FramesOf(DownMsgs)
      <4>1. \A q \in DownMsgs : Sealed(sealDown, q) \in FramesOf(DownMsgs)
        BY <1>0 DEF Sealed, FramesOf
      <4>2. (prio # <<>> => Head(prio) \in DownMsgs) /\ (video # <<>> => Head(video) \in DownMsgs)
        BY MsgFacts DEF Types, DownTypes
      <4> QED BY <1>1, <4>1, <4>2 DEF WriterTakes
    <3> QED BY <3>2, FrameFacts
  <2> QED BY <1>0, <2>2, <2>3, <2>4 DEF DownInv
<1>2. CASE WriterWrites
  <2>1. /\ up /\ writing # None /\ wireDown' = Append(wireDown, writing) /\ writing' = None
        /\ UNCHANGED <<up, writer, sealDown, openDown>>
    BY <1>2 DEF WriterWrites
  <2>2. writing.ctr + 1 = sealDown /\ writing.ctr = openDown + Len(wireDown)
    BY <2>1 DEF DownInv
  <2>3. /\ Len(wireDown') = Len(wireDown) + 1 /\ wireDown'[Len(wireDown) + 1] = writing
        /\ \A i \in 1 .. Len(wireDown) : wireDown'[i] = wireDown[i]
    BY <1>0, <2>1, Pushed
  <2>4. \A i \in 1 .. Len(wireDown') : wireDown'[i].ctr = openDown + i - 1
    <3> TAKE i \in 1 .. Len(wireDown')
    <3>1. CASE i = Len(wireDown) + 1
      BY <1>0, <2>2, <2>3, <3>1
    <3>2. CASE i \in 1 .. Len(wireDown)
      BY <2>3, <3>2 DEF DownInv
    <3> QED BY <1>0, <2>3, <3>1, <3>2
  <2>5. sealDown' = openDown' + Len(wireDown')
    BY <1>0, <2>1, <2>2, <2>3
  <2> QED BY <2>1, <2>4, <2>5 DEF DownInv
<1>3. CASE WriterBreaks
  BY <1>3 DEF WriterBreaks, DownInv
<1> QED BY <1>1, <1>2, <1>3 DEF Writer

\* The client's reader opens what it reads, or stops and takes nothing.
LEMMA ClientReadsOpens ==
  ASSUME Types, DownInv, ClientReads
  PROVE  /\ UNCHANGED garbled /\ DownInv'
         /\ \/ wireDown' = Tail(wireDown)
               /\ delivered' = IF Head(wireDown).msg.from = None THEN delivered
                               ELSE [delivered EXCEPT ![Head(wireDown).msg.from] = Head(wireDown).msg.n]
            \/ UNCHANGED <<wireDown, delivered>>
<1>1. /\ wireDown # <<>> /\ wireDown \in Seq(FramesOf(DownMsgs)) /\ openDown \in Nat
  BY DEF ClientReads, Types, DownTypes
<1>2. wireDown[1].ctr = openDown /\ Head(wireDown) = wireDown[1]
  BY <1>1 DEF DownInv
<1>3. Opens(Head(wireDown), openDown) /\ UNCHANGED <<garbled, up, writing, writer, sealDown>>
  BY <1>2 DEF Opens, ClientReads, serverVars
<1>4. CASE UNCHANGED <<wireDown, openDown, delivered>>
  BY <1>3, <1>4 DEF DownInv
<1>5. CASE ~UNCHANGED <<wireDown, openDown, delivered>>
  <2>1. /\ wireDown' = Tail(wireDown) /\ openDown' = openDown + 1
        /\ delivered' = IF Head(wireDown).msg.from = None THEN delivered
                        ELSE [delivered EXCEPT ![Head(wireDown).msg.from] = Head(wireDown).msg.n]
    BY <1>3, <1>5 DEF ClientReads
  <2>2. /\ Len(wireDown) \in Nat \ {0} /\ Len(wireDown') = Len(wireDown) - 1
        /\ \A i \in 1 .. Len(wireDown) - 1 : wireDown'[i] = wireDown[i + 1]
    BY <1>1, <2>1, Popped
  <2>3. \A i \in 1 .. Len(wireDown') : wireDown'[i].ctr = openDown' + i - 1
    <3> TAKE i \in 1 .. Len(wireDown')
    <3>1. i + 1 \in 1 .. Len(wireDown) /\ wireDown'[i] = wireDown[i + 1]
      BY <2>2
    <3>2. wireDown[i + 1].ctr = openDown + (i + 1) - 1
      BY <3>1 DEF DownInv
    <3> QED BY <1>1, <2>1, <3>1, <3>2
  <2>4. openDown + Len(wireDown) = openDown' + Len(wireDown')
    BY <1>1, <2>1, <2>2
  <2>5. DownInv'
    BY <1>3, <2>3, <2>4 DEF DownInv
  <2> QED BY <1>3, <2>1, <2>5
<1> QED BY <1>4, <1>5

LEMMA InitTogether == Init => Together
<1> SUFFICES ASSUME Init PROVE Together
  OBVIOUS
<1>1. Chained(wireUp, Due) /\ End(wireUp, Due) = [part |-> "len", ctr |-> sealUp]
  BY DEF Init, Chained, End, Due
<1>2. OneHolder /\ Complete
  BY <1>1 DEF Init, OneHolder, Complete
<1>3. DownInv
  BY DEF Init, DownInv
<1> QED BY <1>1, <1>2, <1>3 DEF Init, Together, UpInv

\* Who does not touch a direction leaves what holds of it.
LEMMA UpKept == ASSUME UpInv, UNCHANGED <<up, stream, frame, lenSent, sealUp, wireUp, openUp>> PROVE UpInv'
<1>1. Due' = Due
  BY DEF Due
<1> QED BY <1>1 DEF UpInv, OneHolder, Complete

LEMMA DownKept == ASSUME DownInv, UNCHANGED <<up, writing, writer, sealDown, wireDown, openDown>> PROVE DownInv'
BY DEF DownInv

LEMMA NextTogether == Types /\ Together /\ [Next]_vars => Together'
<1> SUFFICES ASSUME Types, Together, [Next]_vars PROVE Together'
  OBVIOUS
<1> USE DEF clientVars, serverVars
<1>1. ASSUME NEW t \in Threads, LockAndSeal(t) \/ Writes(t) PROVE Together'
  <2>1. UNCHANGED <<up, writing, writer, sealDown, wireDown, openDown, garbled>>
    BY <1>1 DEF LockAndSeal, Writes, WriteLen, WriteBody, SendFails
  <2> QED BY <1>1, <2>1, ThreadUp, DownKept DEF Together
<1>2. CASE ServerReads
  <2>1. UNCHANGED <<up, writing, writer, sealDown, wireDown, openDown>>
    BY <1>2 DEF ServerReads
  <2> QED BY <1>2, <2>1, ServerReadsOpens, DownKept DEF Together
<1>3. CASE ClientReads
  <2>1. UNCHANGED <<up, stream, frame, lenSent, sealUp, wireUp, openUp>>
    BY <1>3 DEF ClientReads
  <2> QED BY <1>3, <2>1, ClientReadsOpens, UpKept DEF Together
<1>4. CASE Writer
  <2>1. UNCHANGED <<up, stream, frame, lenSent, sealUp, wireUp, openUp, garbled>>
    BY <1>4 DEF Writer, WriterTakes, WriterWrites, WriterBreaks
  <2> QED BY <1>4, <2>1, WriterDown, UpKept DEF Together
<1>5. CASE CaptureFrame \/ ReaderTimesOut \/ (\E s \in Sources : RespondBlocking(s)) \/ UNCHANGED vars
  <2>1. /\ UNCHANGED <<up, stream, frame, lenSent, sealUp, wireUp, openUp, garbled>>
        /\ UNCHANGED <<writing, writer, sealDown, wireDown, openDown>>
    BY <1>5 DEF CaptureFrame, ReaderTimesOut, RespondBlocking, vars
  <2> QED BY <2>1, UpKept, DownKept DEF Together
<1>6. CASE Disconnect
  <2>1. UNCHANGED garbled
    BY <1>6 DEF Disconnect
  <2> QED BY <1>6, <2>1, DisconnectTogether DEF Together
<1> HIDE DEF clientVars, serverVars
<1> QED BY <1>1, <1>2, <1>3, <1>4, <1>5, <1>6 DEF Next

\* However threads interleave and wherever the connection is cut, every frame that is read
\* opens: the counters, which are never sent, go together for ever.
THEOREM CountersAgree == Spec => []NeverGarbled
<1>1. Init => Types /\ Together
  BY InitTypes, InitTogether
<1>2. Types /\ Together /\ [Next]_vars => Types' /\ Together'
  BY NextTypes, NextTogether
<1>3. Together => NeverGarbled
  BY DEF Together, NeverGarbled
<1> QED BY <1>1, <1>2, <1>3, PTL DEF Spec

-----------------------------------------------------------------------------
(* The order of a sender's messages                                        *)

\* What f says of the places 1 .. len: 0, or the number of a message of the sender.  The
\* numbers grow, start after a, leave none out and do not exceed b.
Ordered(f, len, a, b) ==
  /\ \A i \in 1 .. len : f[i] # 0 =>
       /\ a < f[i] /\ f[i] <= b
       /\ f[i] = a + 1 \/ \E j \in 1 .. len : f[j] = f[i] - 1
  /\ \A i, j \in 1 .. len : i < j /\ f[i] # 0 /\ f[j] # 0 => f[i] < f[j]

\* And they reach b.
Full(f, len, a, b) ==
  /\ Ordered(f, len, a, b)
  /\ a <= b /\ (b = a \/ \E i \in 1 .. len : f[i] = b)

LEMMA PushSilent ==
  ASSUME NEW len \in Nat, NEW f \in [1 .. len -> Nat], NEW g \in [1 .. len + 1 -> Nat],
         NEW a \in Nat, NEW b \in Nat,
         \A i \in 1 .. len : g[i] = f[i], g[len + 1] = 0
  PROVE  /\ Ordered(f, len, a, b) => Ordered(g, len + 1, a, b)
         /\ Full(f, len, a, b) => Full(g, len + 1, a, b)
<1>1. \A i \in 1 .. len + 1 : g[i] # 0 => i \in 1 .. len
  OBVIOUS
<1>2. \A i \in 1 .. len : i \in 1 .. len + 1
  OBVIOUS
<1>3. Ordered(f, len, a, b) => Ordered(g, len + 1, a, b)
  BY <1>1, <1>2 DEF Ordered
<1> QED BY <1>2, <1>3 DEF Full

LEMMA PushNext ==
  ASSUME NEW len \in Nat, NEW f \in [1 .. len -> Nat], NEW g \in [1 .. len + 1 -> Nat],
         NEW a \in Nat, NEW b \in Nat,
         \A i \in 1 .. len : g[i] = f[i], g[len + 1] = b + 1,
         Full(f, len, a, b)
  PROVE  Full(g, len + 1, a, b + 1)
<1>1. ASSUME NEW i \in 1 .. len + 1, g[i] # 0
      PROVE  /\ a < g[i] /\ g[i] <= b + 1
             /\ g[i] = a + 1 \/ \E j \in 1 .. len + 1 : g[j] = g[i] - 1
  <2>1. CASE i = len + 1
    <3>1. g[i] = b + 1 /\ a <= b
      BY <2>1 DEF Full
    <3>2. b = a \/ \E j \in 1 .. len : f[j] = b
      BY DEF Full
    <3>3. \A j \in 1 .. len : j \in 1 .. len + 1 /\ g[j] = f[j]
      OBVIOUS
    <3> QED BY <3>1, <3>2, <3>3
  <2>2. CASE i \in 1 .. len
    <3>1. g[i] = f[i] /\ f[i] \in Nat
      BY <2>2
    <3>2. a < f[i] /\ f[i] <= b /\ (f[i] = a + 1 \/ \E j \in 1 .. len : f[j] = f[i] - 1)
      BY <1>1, <2>2, <3>1 DEF Full, Ordered
    <3> QED BY <3>1, <3>2
  <2> QED BY <2>1, <2>2
<1>2. ASSUME NEW i \in 1 .. len + 1, NEW j \in 1 .. len + 1, i < j, g[i] # 0, g[j] # 0
      PROVE  g[i] < g[j]
  <2>1. i \in 1 .. len /\ g[i] = f[i] /\ f[i] \in Nat
    BY <1>2
  <2>2. CASE j = len + 1
    <3>1. f[i] <= b
      BY <1>2, <2>1 DEF Full, Ordered
    <3> QED BY <2>1, <2>2, <3>1
  <2>3. CASE j \in 1 .. len
    BY <1>2, <2>1, <2>3 DEF Full, Ordered
  <2> QED BY <2>2, <2>3
<1>3. len + 1 \in 1 .. len + 1 /\ a <= b + 1
  BY DEF Full
<1> QED BY <1>1, <1>2, <1>3 DEF Full, Ordered

\* The first place is taken: it is silent, or it holds the next number.
LEMMA PopSilent ==
  ASSUME NEW len \in Nat \ {0}, NEW f \in [1 .. len -> Nat], NEW g \in [1 .. len - 1 -> Nat],
         NEW a \in Nat, NEW b \in Nat,
         \A i \in 1 .. len - 1 : g[i] = f[i + 1], f[1] = 0
  PROVE  /\ Ordered(f, len, a, b) => Ordered(g, len - 1, a, b)
         /\ Full(f, len, a, b) => Full(g, len - 1, a, b)
<1>1. \A i \in 1 .. len - 1 : i + 1 \in 1 .. len /\ g[i] = f[i + 1] /\ f[i + 1] \in Nat
  OBVIOUS
<1>2. \A j \in 1 .. len : f[j] # 0 => j - 1 \in 1 .. len - 1 /\ g[j - 1] = f[j]
  <2> TAKE j \in 1 .. len
  <2> HAVE f[j] # 0
  <2>1. j # 1 /\ j - 1 \in 1 .. len - 1 /\ (j - 1) + 1 = j
    OBVIOUS
  <2> QED BY <1>1, <2>1
<1>3. ASSUME Ordered(f, len, a, b) PROVE Ordered(g, len - 1, a, b)
  <2>1. ASSUME NEW i \in 1 .. len - 1, g[i] # 0
        PROVE  /\ a < g[i] /\ g[i] <= b
               /\ g[i] = a + 1 \/ \E j \in 1 .. len - 1 : g[j] = g[i] - 1
    <3>1. /\ a < f[i + 1] /\ f[i + 1] <= b
          /\ f[i + 1] = a + 1 \/ \E j \in 1 .. len : f[j] = f[i + 1] - 1
      BY <1>1, <1>3, <2>1 DEF Ordered
    <3>2. CASE f[i + 1] # a + 1
      <4>1. PICK j \in 1 .. len : f[j] = f[i + 1] - 1
        BY <3>1, <3>2
      <4>2. f[j] # 0
        BY <1>1, <3>1, <3>2, <4>1
      <4> QED BY <1>1, <1>2, <3>1, <4>1, <4>2
    <3> QED BY <1>1, <3>1, <3>2
  <2>2. ASSUME NEW i \in 1 .. len - 1, NEW j \in 1 .. len - 1, i < j, g[i] # 0, g[j] # 0
        PROVE  g[i] < g[j]
    <3>1. i + 1 < j + 1
      BY <2>2
    <3> QED BY <1>1, <1>3, <2>2, <3>1 DEF Ordered
  <2> QED BY <2>1, <2>2 DEF Ordered
<1>4. ASSUME Full(f, len, a, b) PROVE Full(g, len - 1, a, b)
  <2>1. b = a \/ \E i \in 1 .. len - 1 : g[i] = b
    <3>1. CASE b # a
      <4>1. PICK j \in 1 .. len : f[j] = b
        BY <1>4, <3>1 DEF Full
      <4>2. b # 0
        BY <1>4, <3>1 DEF Full
      <4> QED BY <1>2, <4>1, <4>2
    <3> QED BY <3>1
  <2> QED BY <1>3, <1>4, <2>1 DEF Full
<1> QED BY <1>3, <1>4

LEMMA PopNext ==
  ASSUME NEW len \in Nat \ {0}, NEW f \in [1 .. len -> Nat], NEW g \in [1 .. len - 1 -> Nat],
         NEW a \in Nat, NEW b \in Nat,
         \A i \in 1 .. len - 1 : g[i] = f[i + 1], f[1] # 0, Ordered(f, len, a, b)
  PROVE  /\ f[1] = a + 1 /\ a < b
         /\ Ordered(g, len - 1, a + 1, b)
         /\ Full(f, len, a, b) => Full(g, len - 1, a + 1, b)
<1>1. \A i \in 1 .. len - 1 : i + 1 \in 1 .. len /\ 1 < i + 1 /\ g[i] = f[i + 1] /\ f[i + 1] \in Nat
  OBVIOUS
<1>2. \A j \in 1 .. len : j # 1 => j - 1 \in 1 .. len - 1 /\ g[j - 1] = f[j]
  <2> TAKE j \in 1 .. len
  <2> HAVE j # 1
  <2>1. j - 1 \in 1 .. len - 1 /\ (j - 1) + 1 = j
    OBVIOUS
  <2> QED BY <1>1, <2>1
<1>3. 1 \in 1 .. len /\ f[1] \in Nat /\ a < f[1] /\ f[1] <= b
  BY DEF Ordered
<1>4. f[1] = a + 1
  <2> SUFFICES ASSUME f[1] # a + 1 PROVE FALSE
    OBVIOUS
  <2>1. PICK j \in 1 .. len : f[j] = f[1] - 1
    BY <1>3 DEF Ordered
  <2>2. f[j] # 0 /\ f[j] < f[1] /\ j # 1 /\ 1 < j
    BY <1>3, <2>1
  <2> QED BY <1>3, <2>2 DEF Ordered
<1>5. \A i \in 1 .. len - 1 : g[i] # 0 => a + 1 < g[i]
  <2> TAKE i \in 1 .. len - 1
  <2> HAVE g[i] # 0
  <2>1. f[1] < f[i + 1]
    BY <1>1, <1>3 DEF Ordered
  <2> QED BY <1>1, <1>4, <2>1
<1>6. ASSUME NEW i \in 1 .. len - 1, g[i] # 0
      PROVE  /\ a + 1 < g[i] /\ g[i] <= b
             /\ g[i] = a + 1 + 1 \/ \E j \in 1 .. len - 1 : g[j] = g[i] - 1
  <2>1. /\ a + 1 < f[i + 1] /\ f[i + 1] <= b
        /\ f[i + 1] = a + 1 \/ \E j \in 1 .. len : f[j] = f[i + 1] - 1
    BY <1>1, <1>5, <1>6 DEF Ordered
  <2>2. PICK j \in 1 .. len : f[j] = f[i + 1] - 1
    BY <1>1, <2>1
  <2>3. CASE j = 1
    BY <1>1, <1>4, <2>1, <2>2, <2>3
  <2>4. CASE j # 1
    BY <1>1, <1>2, <2>1, <2>2, <2>4
  <2> QED BY <2>3, <2>4
<1>7. ASSUME NEW i \in 1 .. len - 1, NEW j \in 1 .. len - 1, i < j, g[i] # 0, g[j] # 0
      PROVE  g[i] < g[j]
  <2>1. i + 1 < j + 1
    BY <1>7
  <2> QED BY <1>1, <1>7, <2>1 DEF Ordered
<1>8. Ordered(g, len - 1, a + 1, b)
  BY <1>6, <1>7 DEF Ordered
<1>9. ASSUME Full(f, len, a, b) PROVE Full(g, len - 1, a + 1, b)
  <2>1. b = a + 1 \/ \E i \in 1 .. len - 1 : g[i] = b
    <3>1. CASE b # a + 1
      <4>1. PICK j \in 1 .. len : f[j] = b
        BY <1>3, <1>9 DEF Full
      <4>2. j # 1
        BY <1>4, <3>1, <4>1
      <4> QED BY <1>2, <4>1, <4>2
    <3> QED BY <3>1
  <2> QED BY <1>3, <1>8, <2>1 DEF Full
<1> QED BY <1>3, <1>4, <1>8, <1>9

\* Cut off behind any place.
LEMMA CutOrdered ==
  ASSUME NEW len \in Nat, NEW k \in 0 .. len, NEW f \in [1 .. len -> Nat],
         NEW g \in [1 .. k -> Nat], NEW a \in Nat, NEW b \in Nat,
         \A i \in 1 .. k : g[i] = f[i], Ordered(f, len, a, b)
  PROVE  Ordered(g, k, a, b)
<1>1. \A i \in 1 .. k : i \in 1 .. len /\ f[i] \in Nat
  OBVIOUS
<1>2. ASSUME NEW i \in 1 .. k, g[i] # 0
      PROVE  /\ a < g[i] /\ g[i] <= b
             /\ g[i] = a + 1 \/ \E j \in 1 .. k : g[j] = g[i] - 1
  <2>1. /\ a < f[i] /\ f[i] <= b
        /\ f[i] = a + 1 \/ \E j \in 1 .. len : f[j] = f[i] - 1
    BY <1>1, <1>2 DEF Ordered
  <2>2. CASE f[i] # a + 1
    <3>1. PICK j \in 1 .. len : f[j] = f[i] - 1
      BY <2>1, <2>2
    <3>2. f[j] # 0 /\ f[j] < f[i]
      BY <1>1, <2>1, <2>2, <3>1
    <3>3. ~(i < j)
      <4> SUFFICES ASSUME i < j PROVE FALSE
        OBVIOUS
      <4>1. f[i] < f[j]
        BY <1>1, <1>2, <3>2 DEF Ordered
      <4> QED BY <1>1, <3>2, <4>1
    <3>4. j \in 1 .. k
      BY <3>3
    <3> QED BY <2>1, <3>1, <3>4
  <2> QED BY <2>1, <2>2
<1>3. ASSUME NEW i \in 1 .. k, NEW j \in 1 .. k, i < j, g[i] # 0, g[j] # 0 PROVE g[i] < g[j]
  BY <1>1, <1>3 DEF Ordered
<1> QED BY <1>2, <1>3 DEF Ordered

\* More may have been handed over.
LEMMA MoreHanded ==
  ASSUME NEW len \in Nat, NEW f \in [1 .. len -> Nat], NEW a \in Nat, NEW b \in Nat,
         NEW c \in Nat, b <= c, Ordered(f, len, a, b)
  PROVE  Ordered(f, len, a, c)
BY DEF Ordered

\* The same of a queue, of whose elements mk says what number they carry.
Marks(mk, q) == [i \in 1 .. Len(q) |-> mk[q[i]]]
InOrder(mk, q, a, b) == Ordered(Marks(mk, q), Len(q), a, b)
AllInOrder(mk, q, a, b) == Full(Marks(mk, q), Len(q), a, b)

LEMMA PushInOrder ==
  ASSUME NEW S, NEW q \in Seq(S), NEW e \in S, NEW mk \in [S -> Nat], NEW a \in Nat, NEW b \in Nat
  PROVE  /\ mk[e] = 0 => /\ InOrder(mk, q, a, b) => InOrder(mk, Append(q, e), a, b)
                         /\ AllInOrder(mk, q, a, b) => AllInOrder(mk, Append(q, e), a, b)
         /\ mk[e] = b + 1 /\ AllInOrder(mk, q, a, b) => AllInOrder(mk, Append(q, e), a, b + 1)
<1> DEFINE len == Len(q)
           f == Marks(mk, q)
           g == Marks(mk, Append(q, e))
<1>1. /\ len \in Nat /\ Len(Append(q, e)) = len + 1
      /\ f \in [1 .. len -> Nat] /\ g \in [1 .. len + 1 -> Nat]
      /\ \A i \in 1 .. len : g[i] = f[i]
      /\ g[len + 1] = mk[e]
  BY Pushed DEF Marks
<1> HIDE DEF len, f, g
<1>2. mk[e] = 0 => /\ Ordered(f, len, a, b) => Ordered(g, len + 1, a, b)
                   /\ Full(f, len, a, b) => Full(g, len + 1, a, b)
  BY <1>1, PushSilent
<1>3. mk[e] = b + 1 /\ Full(f, len, a, b) => Full(g, len + 1, a, b + 1)
  BY <1>1, PushNext
<1> QED BY <1>1, <1>2, <1>3 DEF len, f, g, InOrder, AllInOrder

LEMMA PopInOrder ==
  ASSUME NEW S, NEW q \in Seq(S), q # <<>>, NEW mk \in [S -> Nat], NEW a \in Nat, NEW b \in Nat
  PROVE  /\ mk[q[1]] = 0 => /\ InOrder(mk, q, a, b) => InOrder(mk, Tail(q), a, b)
                            /\ AllInOrder(mk, q, a, b) => AllInOrder(mk, Tail(q), a, b)
         /\ mk[q[1]] # 0 /\ InOrder(mk, q, a, b) =>
              /\ mk[q[1]] = a + 1 /\ a < b
              /\ InOrder(mk, Tail(q), a + 1, b)
              /\ AllInOrder(mk, q, a, b) => AllInOrder(mk, Tail(q), a + 1, b)
<1> DEFINE len == Len(q)
           f == Marks(mk, q)
           g == Marks(mk, Tail(q))
<1>1. /\ len \in Nat \ {0} /\ Len(Tail(q)) = len - 1
      /\ f \in [1 .. len -> Nat] /\ g \in [1 .. len - 1 -> Nat]
      /\ \A i \in 1 .. len - 1 : g[i] = f[i + 1]
      /\ f[1] = mk[q[1]]
  BY Popped DEF Marks
<1> HIDE DEF len, f, g
<1>2. f[1] = 0 => /\ Ordered(f, len, a, b) => Ordered(g, len - 1, a, b)
                  /\ Full(f, len, a, b) => Full(g, len - 1, a, b)
  BY <1>1, PopSilent
<1>3. f[1] # 0 /\ Ordered(f, len, a, b) =>
        /\ f[1] = a + 1 /\ a < b
        /\ Ordered(g, len - 1, a + 1, b)
        /\ Full(f, len, a, b) => Full(g, len - 1, a + 1, b)
  BY <1>1, PopNext
<1> QED BY <1>1, <1>2, <1>3 DEF len, f, g, InOrder, AllInOrder

LEMMA CutInOrder ==
  ASSUME NEW S, NEW q \in Seq(S), NEW k \in 0 .. Len(q), NEW mk \in [S -> Nat],
         NEW a \in Nat, NEW b \in Nat, InOrder(mk, q, a, b)
  PROVE  InOrder(mk, SubSeq(q, 1, k), a, b)
<1> DEFINE len == Len(q)
           f == Marks(mk, q)
           r == SubSeq(q, 1, k)
           g == Marks(mk, r)
<1>1. r \in Seq(S) /\ Len(r) = k /\ len \in Nat /\ \A i \in 1 .. k : r[i] = q[i]
  BY CutAt
<1>2. \A i \in 1 .. k : i \in 1 .. len /\ q[i] \in S
  BY <1>1
<1> HIDE DEF r
<1>3. f \in [1 .. len -> Nat] /\ g \in [1 .. k -> Nat] /\ \A i \in 1 .. k : g[i] = f[i]
  BY <1>1, <1>2 DEF Marks
<1>4. Ordered(f, len, a, b)
  BY DEF InOrder
<1> HIDE DEF len, f, g
<1>5. k \in 0 .. len
  BY DEF len
<1>6. Ordered(g, k, a, b)
  BY <1>1, <1>3, <1>4, <1>5, CutOrdered
<1> QED BY <1>1, <1>6 DEF g, r, InOrder

LEMMA MoreInOrder ==
  ASSUME NEW S, NEW q \in Seq(S), NEW mk \in [S -> Nat], NEW a \in Nat, NEW b \in Nat,
         NEW c \in Nat, b <= c, InOrder(mk, q, a, b)
  PROVE  InOrder(mk, q, a, c)
<1>1. Len(q) \in Nat /\ Marks(mk, q) \in [1 .. Len(q) -> Nat]
  BY DEF Marks
<1> QED BY <1>1, MoreHanded DEF InOrder

LEMMA NoneInOrder ==
  ASSUME NEW mk, NEW a \in Nat
  PROVE  AllInOrder(mk, <<>>, a, a)
BY DEF AllInOrder, Full, Ordered

LEMMA AllIsInOrder ==
  ASSUME NEW mk, NEW q, NEW a, NEW b, AllInOrder(mk, q, a, b)
  PROVE  InOrder(mk, q, a, b)
BY DEF AllInOrder, InOrder, Full

\* The number an element carries, if it is of sender s: a part that is a body, a frame, a
\* message in the queue.
Mark(s, m) == IF m.from = s THEN m.n ELSE 0
UpMark(s) == [p \in PartsOf(UpMsgs) |-> IF p.part = "body" THEN Mark(s, p.msg) ELSE 0]
DownMark(s) == [f \in FramesOf(DownMsgs) |-> Mark(s, f.msg)]
PrioMark(s) == [m \in DownMsgs |-> Mark(s, m)]

LEMMA MarkTypes ==
  ASSUME NEW s \in Senders
  PROVE  /\ UpMark(s) \in [PartsOf(UpMsgs) -> Nat]
         /\ DownMark(s) \in [FramesOf(DownMsgs) -> Nat]
         /\ PrioMark(s) \in [DownMsgs -> Nat]
<1>1. \A m \in Msgs : m.n \in Nat
  BY DEF Msgs, PongFrame, VideoFrame
<1>2. \A m \in UpMsgs \cup DownMsgs : Mark(s, m) \in Nat
  BY <1>1 DEF Mark, UpMsgs, DownMsgs
<1> QED BY <1>2 DEF UpMark, DownMark, PrioMark, PartsOf, FramesOf

\* The messages of a thread under way, up to the one it has sealed and not written.
Written(t) == IF frame[t] = None THEN sent[t] ELSE sent[t] - 1

UpOrder ==
  \A t \in Threads :
    /\ frame[t] # None => frame[t].msg.from = t /\ frame[t].msg.n = sent[t]
    /\ InOrder(UpMark(t), wireUp, delivered[t], sent[t])
    /\ up => AllInOrder(UpMark(t), wireUp, delivered[t], Written(t))

\* The messages of a source: on the wire, then the one the writer has, then in the queue.
InHand(s) == IF writing = None THEN 0 ELSE DownMark(s)[writing]

DownOrder ==
  /\ ~writer => ~up
  /\ \A s \in Sources :
       /\ InOrder(DownMark(s), wireDown, delivered[s], sent[s])
       /\ up => \E b \in Nat :
            /\ AllInOrder(DownMark(s), wireDown, delivered[s], b)
            /\ InHand(s) \in {0, b + 1}
            /\ AllInOrder(PrioMark(s), prio, IF InHand(s) = 0 THEN b ELSE b + 1, sent[s])

OrderInv == UpOrder /\ DownOrder

LEMMA Counts ==
  ASSUME Types
  PROVE  /\ \A s \in Senders : sent[s] \in Nat /\ delivered[s] \in Nat
         /\ Threads \subseteq Senders /\ Sources \subseteq Senders
         /\ \A t \in Threads : t \notin Sources
         /\ \A t \in Threads : frame[t] # None => frame[t] \in FramesOf(UpMsgs) /\ frame[t].msg \in UpMsgs
BY ChannelAssumption DEF Types, UpTypes, Senders, FramesOf

\* Who does not touch a direction leaves the order of its messages.
LEMMA UpOrderKept ==
  ASSUME UpOrder, UNCHANGED <<up, frame, wireUp>>,
         \A t \in Threads : sent'[t] = sent[t] /\ delivered'[t] = delivered[t]
  PROVE  UpOrder'
BY DEF UpOrder, Written

LEMMA DownOrderKept ==
  ASSUME DownOrder, UNCHANGED <<up, writer, writing, wireDown, prio>>,
         \A s \in Sources : sent'[s] = sent[s] /\ delivered'[s] = delivered[s]
  PROVE  DownOrder'
<1>1. \A s \in Sources : InHand(s)' = InHand(s)
  BY DEF InHand
<1> QED BY <1>1 DEF DownOrder

\* What a thread's step does to its own frame and to the others'.
LEMMA ThreadOrder ==
  ASSUME Types, UpInv, OrderInv, NEW t \in Threads, LockAndSeal(t) \/ Writes(t)
  PROVE  OrderInv'
<1> USE DEF serverVars
<1>0. /\ wireUp \in Seq(PartsOf(UpMsgs)) /\ frame \in [Threads -> FramesOf(UpMsgs) \cup {None}]
      /\ sent \in [Senders -> 0 .. Messages] /\ t \in Senders
      /\ None \notin FramesOf(UpMsgs)
      /\ \A j \in Threads : j \in Senders /\ sent[j] \in Nat /\ delivered[j] \in Nat
      /\ \A j \in Threads : frame[j] # None => frame[j].msg.n \in 1 .. Messages
  BY Counts, MsgFacts, FrameFacts DEF Types, UpTypes
<1>a. \A j \in Threads : /\ frame[j] # None => frame[j].msg.from = j /\ frame[j].msg.n = sent[j]
                         /\ Written(j) \in Nat
  <2> TAKE j \in Threads
  <2>1. frame[j] # None => frame[j].msg.from = j /\ frame[j].msg.n = sent[j]
    BY DEF OrderInv, UpOrder
  <2>2. /\ sent[j] \in Nat
        /\ frame[j] # None => frame[j].msg.n \in 1 .. Messages
    BY <1>0
  <2>3. Written(j) \in Nat
    BY <2>1, <2>2 DEF Written
  <2> QED BY <2>1, <2>3
<1>1. CASE LockAndSeal(t)
  <2>1. /\ frame[t] = None /\ frame' = [frame EXCEPT ![t] = Sealed(sealUp, NextOf(t))]
        /\ UNCHANGED <<up, wireUp, delivered>>
        /\ sent' = [sent EXCEPT ![t] = sent[t] + 1]
        /\ NextOf(t).from = t /\ NextOf(t).n = sent[t] + 1
        /\ Sealed(sealUp, NextOf(t)) \in FramesOf(UpMsgs)
    <3>1. t # None
      BY ChannelAssumption
    <3>2. NextOf(t) \in UpMsgs /\ sealUp \in Nat
      BY <1>0, <1>1, HandedType DEF LockAndSeal, Types, UpTypes
    <3>3. Sealed(sealUp, NextOf(t)) \in FramesOf(UpMsgs)
      BY <3>2 DEF Sealed, FramesOf
    <3> QED BY <1>0, <1>1, <3>1, <3>3, HandedType DEF LockAndSeal, UpInv, OneHolder
  <2>2. ASSUME NEW j \in Threads
        PROVE  /\ frame'[j] # None => frame'[j].msg.from = j /\ frame'[j].msg.n = sent'[j]
               /\ InOrder(UpMark(j), wireUp, delivered[j], sent'[j])
               /\ up => AllInOrder(UpMark(j), wireUp, delivered[j], Written(j)')
    <3>1. CASE j = t
      <4>1. frame'[t] = Sealed(sealUp, NextOf(t)) /\ frame'[t] # None /\ sent'[t] = sent[t] + 1
        BY <1>0, <2>1
      <4>2. frame'[t].msg = NextOf(t)
        BY <4>1 DEF Sealed
      <4>3. Written(t)' = sent[t] /\ Written(t) = sent[t]
        BY <1>0, <2>1, <4>1 DEF Written
      <4>4. InOrder(UpMark(t), wireUp, delivered[t], sent[t] + 1)
        <5>1. InOrder(UpMark(t), wireUp, delivered[t], sent[t])
          BY DEF OrderInv, UpOrder
        <5>2. sent[t] <= sent[t] + 1 /\ sent[t] + 1 \in Nat
          BY <1>0
        <5>3. UpMark(t) \in [PartsOf(UpMsgs) -> Nat]
          BY <1>0, MarkTypes
        <5> QED BY <1>0, <5>1, <5>2, <5>3, MoreInOrder
      <4>5. up => AllInOrder(UpMark(t), wireUp, delivered[t], sent[t])
        BY <4>3 DEF OrderInv, UpOrder
      <4> QED BY <2>1, <3>1, <4>1, <4>2, <4>3, <4>4, <4>5
    <3>2. CASE j # t
      <4>1. frame'[j] = frame[j] /\ sent'[j] = sent[j]
        BY <1>0, <2>1, <3>2
      <4>2. Written(j)' = Written(j)
        BY <4>1 DEF Written
      <4> QED BY <4>1, <4>2 DEF OrderInv, UpOrder
    <3> QED BY <3>1, <3>2
  <2>3. UpOrder'
    BY <2>1, <2>2 DEF UpOrder
  <2>4. UNCHANGED <<up, writer, writing, wireDown, prio>> /\ \A s \in Sources : sent'[s] = sent[s] /\ delivered'[s] = delivered[s]
    BY <1>0, <1>1, <2>1, Counts DEF LockAndSeal
  <2> QED BY <2>3, <2>4, DownOrderKept DEF OrderInv
<1>2. CASE WriteLen(t)
  <2> DEFINE part == Part("len", frame[t])
  <2>1. frame[t] \in FramesOf(UpMsgs)
    BY <1>0, <1>2 DEF WriteLen
  <2>2. part \in PartsOf(UpMsgs) /\ part.part = "len"
    BY <2>1 DEF Part, FramesOf, PartsOf
  <2>3. wireUp' = Append(wireUp, part) /\ UNCHANGED <<up, frame, sent, delivered>>
    BY <1>2 DEF WriteLen
  <2> HIDE DEF part
  <2>4. ASSUME NEW j \in Threads
        PROVE  /\ InOrder(UpMark(j), wireUp', delivered[j], sent[j])
               /\ up => AllInOrder(UpMark(j), wireUp', delivered[j], Written(j))
    <3>1. UpMark(j)[part] = 0
      BY <2>2 DEF UpMark
    <3>2. Written(j) \in Nat
      BY <1>a
    <3> QED BY <1>0, <2>2, <2>3, <3>1, <3>2, PushInOrder, MarkTypes DEF OrderInv, UpOrder
  <2>5. UpOrder'
    BY <2>3, <2>4 DEF OrderInv, UpOrder, Written
  <2>6. UNCHANGED <<up, writer, writing, wireDown, prio, sent, delivered>>
    BY <1>2 DEF WriteLen
  <2> QED BY <2>5, <2>6, DownOrderKept DEF OrderInv
<1>3. CASE WriteBody(t)
  <2> DEFINE part == Part("body", frame[t])
  <2>1. frame[t] \in FramesOf(UpMsgs) /\ frame[t] # None
    BY <1>0, <1>3 DEF WriteBody
  <2>2. part \in PartsOf(UpMsgs) /\ part.part = "body" /\ part.msg = frame[t].msg
    BY <2>1 DEF Part, FramesOf, PartsOf
  <2>3. /\ wireUp' = Append(wireUp, part) /\ UNCHANGED <<up, sent, delivered>> /\ up
        /\ frame' = [frame EXCEPT ![t] = None]
    BY <1>3 DEF WriteBody, Released
  <2> HIDE DEF part
  <2>4. ASSUME NEW j \in Threads
        PROVE  /\ frame'[j] # None => frame'[j].msg.from = j /\ frame'[j].msg.n = sent[j]
               /\ InOrder(UpMark(j), wireUp', delivered[j], sent[j])
               /\ AllInOrder(UpMark(j), wireUp', delivered[j], Written(j)')
    <3>1. CASE j = t
      <4>1. UpMark(t)[part] = sent[t] /\ sent[t] - 1 \in Nat /\ sent[t] = sent[t] - 1 + 1
        <5>1. part.msg.from = t /\ part.msg.n = sent[t] /\ sent[t] \in 1 .. Messages
          BY <1>0, <1>a, <2>1, <2>2
        <5> QED BY <2>2, <5>1 DEF UpMark, Mark
      <4>2. AllInOrder(UpMark(t), wireUp, delivered[t], sent[t] - 1)
        BY <2>1, <2>3 DEF OrderInv, UpOrder, Written
      <4>3. AllInOrder(UpMark(t), wireUp', delivered[t], sent[t])
        <5> DEFINE b == sent[t] - 1
        <5>1. b \in Nat /\ UpMark(t)[part] = b + 1 /\ AllInOrder(UpMark(t), wireUp, delivered[t], b) /\ sent[t] = b + 1
          BY <4>1, <4>2
        <5> HIDE DEF b
        <5> QED BY <1>0, <2>2, <2>3, <5>1, PushInOrder, MarkTypes
      <4>4. Written(t)' = sent[t] /\ frame'[t] = None
        BY <1>0, <2>3 DEF Written
      <4> QED BY <3>1, <4>3, <4>4, AllIsInOrder
    <3>2. CASE j # t
      <4>1. UpMark(j)[part] = 0
        BY <1>a, <2>1, <2>2, <3>2 DEF UpMark, Mark
      <4>2. frame'[j] = frame[j] /\ Written(j)' = Written(j) /\ Written(j) \in Nat
        <5>1. frame'[j] = frame[j]
          BY <1>0, <2>3, <3>2
        <5> QED BY <1>a, <2>3, <5>1 DEF Written
      <4>3. /\ InOrder(UpMark(j), wireUp, delivered[j], sent[j])
            /\ AllInOrder(UpMark(j), wireUp, delivered[j], Written(j))
            /\ frame[j] # None => frame[j].msg.from = j /\ frame[j].msg.n = sent[j]
        BY <2>3 DEF OrderInv, UpOrder
      <4> QED BY <1>0, <2>2, <2>3, <4>1, <4>2, <4>3, PushInOrder, MarkTypes
    <3> QED BY <3>1, <3>2
  <2>5. UpOrder'
    BY <2>3, <2>4 DEF UpOrder
  <2>6. UNCHANGED <<up, writer, writing, wireDown, prio, sent, delivered>>
    BY <1>3 DEF WriteBody
  <2> QED BY <2>5, <2>6, DownOrderKept DEF OrderInv
<1>4. CASE SendFails(t)
  <2>1. /\ ~up /\ UNCHANGED <<up, wireUp, sent, delivered>> /\ frame' = [frame EXCEPT ![t] = None]
        /\ UNCHANGED <<writer, writing, wireDown, prio>>
    BY <1>4 DEF SendFails, Released
  <2>2. \A j \in Threads : frame'[j] # None => frame'[j] = frame[j]
    BY <1>0, <2>1
  <2>3. UpOrder'
    BY <2>1, <2>2 DEF OrderInv, UpOrder
  <2> QED BY <2>1, <2>3, DownOrderKept DEF OrderInv
<1> QED BY <1>1, <1>2, <1>3, <1>4 DEF Writes

\* A message arrives: the next one of its sender.
LEMMA ServerReadsOrder ==
  ASSUME Types, UpInv, OrderInv, ServerReads
  PROVE  /\ UpOrder'
         /\ \E t \in Threads : delivered[t] < sent[t] /\ delivered' = [delivered EXCEPT ![t] = @ + 1]
         /\ UNCHANGED sent
<1> DEFINE len == wireUp[1]
           body == wireUp[2]
           rest == Tail(wireUp)
           t == body.msg.from
<1>1. /\ wireUp \in Seq(PartsOf(UpMsgs)) /\ wireUp # <<>> /\ len \in PartsOf(UpMsgs)
      /\ rest \in Seq(PartsOf(UpMsgs)) /\ rest # <<>> /\ rest[1] = body
      /\ body \in PartsOf(UpMsgs) /\ wireUp' = Tail(rest)
  BY AtLeastTwo DEF ServerReads, Types, UpTypes
<1>2. len.part = "len" /\ body.part = "body"
  BY ServerReadsOpens DEF Whole
<1>3. /\ UNCHANGED <<up, frame, sent>> /\ delivered' = [delivered EXCEPT ![t] = body.msg.n]
      /\ delivered \in [Senders -> 0 .. Messages]
  BY ServerReadsOpens DEF ServerReads, clientVars, Types, UpTypes
<1>4. t \in Threads /\ body.msg.n \in 1 .. Messages /\ t \in Senders
  BY <1>1, MsgFacts, Counts DEF PartsOf
<1> HIDE DEF len, body, rest
<1>5. ASSUME NEW j \in Threads
      PROVE  /\ j \in Senders /\ sent[j] \in Nat /\ delivered[j] \in Nat /\ Written(j) \in Nat
             /\ UpMark(j) \in [PartsOf(UpMsgs) -> Nat]
             /\ UpMark(j)[len] = 0 /\ UpMark(j)[body] = IF j = t THEN body.msg.n ELSE 0
  <2>1. j \in Senders /\ sent[j] \in Nat /\ delivered[j] \in Nat /\ (frame[j] # None => frame[j].msg.n \in 1 .. Messages)
    BY Counts, MsgFacts
  <2>2. Written(j) \in Nat
    BY <2>1 DEF Written, OrderInv, UpOrder
  <2>3. UpMark(j)[len] = 0 /\ UpMark(j)[body] = IF j = t THEN body.msg.n ELSE 0
    BY <1>1, <1>2 DEF UpMark, Mark
  <2> QED BY <2>1, <2>2, <2>3, MarkTypes
<1>6. ASSUME NEW j \in Threads
      PROVE  /\ InOrder(UpMark(j), rest, delivered[j], sent[j])
             /\ up => AllInOrder(UpMark(j), rest, delivered[j], Written(j))
  <2>1. UpMark(j)[wireUp[1]] = 0
    BY <1>5 DEF len
  <2>2. /\ InOrder(UpMark(j), wireUp, delivered[j], sent[j])
        /\ up => AllInOrder(UpMark(j), wireUp, delivered[j], Written(j))
    BY DEF OrderInv, UpOrder
  <2> QED BY <1>1, <1>5, <2>1, <2>2, PopInOrder DEF rest
<1>7. /\ body.msg.n = delivered[t] + 1 /\ delivered[t] < sent[t]
      /\ InOrder(UpMark(t), wireUp', delivered[t] + 1, sent[t])
      /\ up => AllInOrder(UpMark(t), wireUp', delivered[t] + 1, Written(t))
  <2>1. UpMark(t)[rest[1]] = body.msg.n /\ body.msg.n # 0
    BY <1>1, <1>4, <1>5
  <2> DEFINE mk == UpMark(t)  a == delivered[t]  b == sent[t]  w == Written(t)
  <2>2. mk \in [PartsOf(UpMsgs) -> Nat] /\ a \in Nat /\ b \in Nat /\ w \in Nat
    BY <1>4, <1>5
  <2>3. InOrder(mk, rest, a, b) /\ (up => AllInOrder(mk, rest, a, w))
    BY <1>4, <1>6
  <2>4. mk[rest[1]] = body.msg.n /\ mk[rest[1]] # 0
    BY <2>1
  <2> HIDE DEF mk, a, b, w
  <2>5. mk[rest[1]] = a + 1 /\ a < b /\ InOrder(mk, Tail(rest), a + 1, b)
    BY <1>1, <2>2, <2>3, <2>4, PopInOrder
  <2>6. up => AllInOrder(mk, Tail(rest), a + 1, w)
    <3> SUFFICES ASSUME up PROVE AllInOrder(mk, Tail(rest), a + 1, w)
      OBVIOUS
    <3>1. AllInOrder(mk, rest, a, w) /\ InOrder(mk, rest, a, w)
      BY <2>3, AllIsInOrder
    <3> QED BY <1>1, <2>2, <2>4, <3>1, PopInOrder
  <2> QED BY <1>1, <2>4, <2>5, <2>6 DEF mk, a, b, w
<1>8. ASSUME NEW j \in Threads, j # t
      PROVE  /\ InOrder(UpMark(j), wireUp', delivered[j], sent[j])
             /\ up => AllInOrder(UpMark(j), wireUp', delivered[j], Written(j))
  <2>1. UpMark(j)[rest[1]] = 0
    BY <1>1, <1>5, <1>8
  <2> QED BY <1>1, <1>5, <1>6, <2>1, PopInOrder
<1>9. delivered' = [delivered EXCEPT ![t] = delivered[t] + 1]
  BY <1>3, <1>7
<1>10. \A j \in Threads : /\ Written(j)' = Written(j)
                          /\ delivered'[j] = IF j = t THEN delivered[t] + 1 ELSE delivered[j]
  BY <1>3, <1>5, <1>9 DEF Written
<1>11. UpOrder'
  BY <1>3, <1>7, <1>8, <1>10 DEF OrderInv, UpOrder
<1> QED BY <1>3, <1>4, <1>7, <1>9, <1>11

\* The queue of the server takes a message nobody counts.
LEMMA PrioSilent ==
  ASSUME Types, DownOrder, NEW m \in DownMsgs, m.from \notin Sources,
         prio' = Append(prio, m) \/ prio' = prio,
         UNCHANGED <<up, writer, writing, wireDown>>,
         \A s \in Sources : sent'[s] = sent[s] /\ delivered'[s] = delivered[s]
  PROVE  DownOrder'
<1>1. ASSUME NEW s \in Sources, up
      PROVE  \E b \in Nat : /\ AllInOrder(DownMark(s), wireDown, delivered[s], b)
                            /\ InHand(s) \in {0, b + 1}
                            /\ AllInOrder(PrioMark(s), prio', IF InHand(s) = 0 THEN b ELSE b + 1, sent[s])
  <2>1. PICK b \in Nat : /\ AllInOrder(DownMark(s), wireDown, delivered[s], b)
                         /\ InHand(s) \in {0, b + 1}
                         /\ AllInOrder(PrioMark(s), prio, IF InHand(s) = 0 THEN b ELSE b + 1, sent[s])
    BY <1>1 DEF DownOrder
  <2> DEFINE a == IF InHand(s) = 0 THEN b ELSE b + 1
  <2>2. PrioMark(s)[m] = 0
    BY DEF PrioMark, Mark
  <2>3. /\ a \in Nat /\ sent[s] \in Nat /\ prio \in Seq(DownMsgs) /\ PrioMark(s) \in [DownMsgs -> Nat]
        /\ AllInOrder(PrioMark(s), prio, a, sent[s])
    BY <2>1, Counts, MarkTypes DEF Types, DownTypes
  <2> HIDE DEF a
  <2>4. AllInOrder(PrioMark(s), prio', a, sent[s])
    BY <2>2, <2>3, PushInOrder
  <2> QED BY <2>1, <2>4 DEF a
<1>2. \A s \in Sources : InHand(s)' = InHand(s)
  BY DEF InHand
<1> QED BY <1>1, <1>2 DEF DownOrder

\* A response, waited for.
LEMMA RespondOrder ==
  ASSUME Types, OrderInv, NEW s \in Sources, RespondBlocking(s)
  PROVE  OrderInv'
<1>1. /\ s \in Senders /\ sent \in [Senders -> 0 .. Messages] /\ sent[s] \in Nat
      /\ sent' = [sent EXCEPT ![s] = sent[s] + 1]
      /\ NextOf(s) \in DownMsgs /\ NextOf(s).from = s /\ NextOf(s).n = sent[s] + 1
      /\ UNCHANGED <<up, frame, wireUp, writer, writing, wireDown, delivered>>
      /\ prio \in Seq(DownMsgs)
  BY HandedType, Counts DEF RespondBlocking, clientVars, Types, UpTypes, DownTypes
<1>2. (writer /\ prio' = Append(prio, NextOf(s))) \/ ~writer
  BY DEF RespondBlocking
<1>3. UpOrder'
  <2>1. \A t \in Threads : sent'[t] = sent[t] /\ delivered'[t] = delivered[t]
    BY <1>1, Counts
  <2> QED BY <1>1, <2>1, UpOrderKept DEF OrderInv
<1>4. ASSUME NEW r \in Sources
      PROVE  /\ InOrder(DownMark(r), wireDown, delivered[r], sent'[r])
             /\ up => \E b \in Nat : /\ AllInOrder(DownMark(r), wireDown, delivered[r], b)
                                     /\ InHand(r) \in {0, b + 1}
                                     /\ AllInOrder(PrioMark(r), prio', IF InHand(r) = 0 THEN b ELSE b + 1, sent'[r])
  <2>1. /\ r \in Senders /\ delivered[r] \in Nat /\ sent[r] \in Nat /\ sent'[r] \in Nat /\ sent[r] <= sent'[r]
        /\ sent'[r] = IF r = s THEN sent[r] + 1 ELSE sent[r]
    BY <1>1, Counts
  <2>2. InOrder(DownMark(r), wireDown, delivered[r], sent'[r])
    <3>1. InOrder(DownMark(r), wireDown, delivered[r], sent[r])
      BY DEF OrderInv, DownOrder
    <3>2. wireDown \in Seq(FramesOf(DownMsgs)) /\ DownMark(r) \in [FramesOf(DownMsgs) -> Nat]
      BY <2>1, MarkTypes DEF Types, DownTypes
    <3> DEFINE c == sent'[r]  mk == DownMark(r)
    <3> HIDE DEF c, mk
    <3> QED BY <2>1, <3>1, <3>2, MoreInOrder DEF c, mk
  <2>3. ASSUME up
        PROVE  \E b \in Nat : /\ AllInOrder(DownMark(r), wireDown, delivered[r], b)
                              /\ InHand(r) \in {0, b + 1}
                              /\ AllInOrder(PrioMark(r), prio', IF InHand(r) = 0 THEN b ELSE b + 1, sent'[r])
    <3>1. PICK b \in Nat : /\ AllInOrder(DownMark(r), wireDown, delivered[r], b)
                           /\ InHand(r) \in {0, b + 1}
                           /\ AllInOrder(PrioMark(r), prio, IF InHand(r) = 0 THEN b ELSE b + 1, sent[r])
      BY <2>3 DEF OrderInv, DownOrder
    <3>2. prio' = Append(prio, NextOf(s))
      BY <1>2, <2>3 DEF OrderInv, DownOrder
    <3> DEFINE a == IF InHand(r) = 0 THEN b ELSE b + 1
    <3>3. a \in Nat /\ PrioMark(r) \in [DownMsgs -> Nat] /\ AllInOrder(PrioMark(r), prio, a, sent[r])
      BY <2>1, <3>1, MarkTypes
    <3>4. PrioMark(r)[NextOf(s)] = IF r = s THEN sent[r] + 1 ELSE 0
      BY <1>1 DEF PrioMark, Mark
    <3> HIDE DEF a
    <3>5. CASE r = s
      <4>1. PrioMark(r)[NextOf(s)] = sent[r] + 1 /\ sent'[r] = sent[r] + 1
        BY <2>1, <3>4, <3>5
      <4>2. AllInOrder(PrioMark(r), Append(prio, NextOf(s)), a, sent[r] + 1)
        BY <1>1, <2>1, <3>3, <4>1, PushInOrder
      <4> QED BY <3>1, <3>2, <4>1, <4>2 DEF a
    <3>6. CASE r # s
      <4>1. PrioMark(r)[NextOf(s)] = 0 /\ sent'[r] = sent[r]
        BY <2>1, <3>4, <3>6
      <4>2. AllInOrder(PrioMark(r), Append(prio, NextOf(s)), a, sent[r])
        BY <1>1, <2>1, <3>3, <4>1, PushInOrder
      <4> QED BY <3>1, <3>2, <4>1, <4>2 DEF a
    <3> QED BY <3>5, <3>6
  <2> QED BY <2>2, <2>3
<1>5. \A r \in Sources : InHand(r)' = InHand(r)
  BY <1>1 DEF InHand
<1>6. DownOrder'
  BY <1>1, <1>4, <1>5 DEF DownOrder, OrderInv
<1> QED BY <1>3, <1>6 DEF OrderInv

\* The writer takes the next message, and puts it on the wire.
LEMMA WriterOrder == ASSUME Types, OrderInv, Writer PROVE OrderInv'
<1> USE DEF clientVars
<1>0. /\ prio \in Seq(DownMsgs) /\ wireDown \in Seq(FramesOf(DownMsgs)) /\ sealDown \in Nat
      /\ None \notin FramesOf(DownMsgs)
      /\ \A s \in Sources : /\ s \in Senders /\ sent[s] \in Nat /\ delivered[s] \in Nat
                            /\ PrioMark(s) \in [DownMsgs -> Nat]
                            /\ DownMark(s) \in [FramesOf(DownMsgs) -> Nat]
  BY Counts, MarkTypes, FrameFacts DEF Types, DownTypes
<1>1. UpOrder' /\ UNCHANGED <<up, sent, delivered>>
  <2>1. UNCHANGED <<up, frame, wireUp, sent, delivered>>
    BY DEF Writer, WriterTakes, WriterWrites, WriterBreaks
  <2> QED BY <2>1, UpOrderKept DEF OrderInv
<1>2. CASE WriterTakes
  <2>0. writing = None /\ UNCHANGED <<up, writer, wireDown>>
    BY <1>2 DEF WriterTakes
  <2>1. CASE prio # <<>> /\ writing' = Sealed(sealDown, Head(prio)) /\ prio' = Tail(prio)
    <3>1. /\ prio[1] = Head(prio) /\ prio[1] \in DownMsgs
      BY <1>0, <2>1, Popped
    <3>2. writing' \in FramesOf(DownMsgs) /\ writing'.msg = prio[1] /\ writing' # None
      BY <1>0, <2>1, <3>1 DEF Sealed, FramesOf
    <3>3. ASSUME NEW s \in Sources
          PROVE  InHand(s) = 0 /\ InHand(s)' = PrioMark(s)[prio[1]]
      BY <2>0, <3>1, <3>2 DEF InHand, DownMark, PrioMark
    <3>4. ASSUME NEW s \in Sources, up
          PROVE  \E b \in Nat : /\ AllInOrder(DownMark(s), wireDown, delivered[s], b)
                                /\ InHand(s)' \in {0, b + 1}
                                /\ AllInOrder(PrioMark(s), prio', IF InHand(s)' = 0 THEN b ELSE b + 1, sent[s])
      <4>1. PICK b \in Nat : /\ AllInOrder(DownMark(s), wireDown, delivered[s], b)
                             /\ AllInOrder(PrioMark(s), prio, b, sent[s])
        BY <3>3, <3>4 DEF OrderInv, DownOrder
      <4>2. InOrder(PrioMark(s), prio, b, sent[s])
        BY <4>1, AllIsInOrder
      <4>3. CASE PrioMark(s)[prio[1]] = 0
        BY <1>0, <2>1, <3>3, <4>1, <4>3, PopInOrder
      <4>4. CASE PrioMark(s)[prio[1]] # 0
        <5>1. PrioMark(s)[prio[1]] = b + 1 /\ AllInOrder(PrioMark(s), Tail(prio), b + 1, sent[s])
          BY <1>0, <2>1, <4>1, <4>2, <4>4, PopInOrder
        <5> QED BY <2>1, <3>3, <4>1, <4>4, <5>1
      <4> QED BY <4>3, <4>4
    <3> QED BY <1>1, <2>0, <3>4 DEF OrderInv, DownOrder
  <2>2. CASE video # <<>> /\ writing' = Sealed(sealDown, Head(video)) /\ prio' = prio
    <3>1. Head(video) = VideoFrame
      BY <2>2 DEF Types, DownTypes
    <3>2. writing' \in FramesOf(DownMsgs) /\ writing'.msg = VideoFrame /\ writing' # None
      BY <1>0, <2>2, <3>1, MsgFacts DEF Sealed, FramesOf
    <3>3. ASSUME NEW s \in Sources
          PROVE  InHand(s) = 0 /\ InHand(s)' = 0
      <4>1. s # None
        BY ChannelAssumption
      <4>2. Mark(s, VideoFrame) = 0
        BY <4>1 DEF Mark, VideoFrame
      <4> QED BY <2>0, <3>2, <4>2 DEF InHand, DownMark
    <3> QED BY <1>1, <2>0, <2>2, <3>3 DEF OrderInv, DownOrder
  <2> QED BY <1>2, <2>1, <2>2 DEF WriterTakes
<1>3. CASE WriterWrites
  <2>1. /\ writing # None /\ wireDown' = Append(wireDown, writing) /\ writing' = None
        /\ UNCHANGED <<up, writer, prio>> /\ writing \in FramesOf(DownMsgs) /\ up
    BY <1>3 DEF WriterWrites, Types, DownTypes
  <2>2. ASSUME NEW s \in Sources
        PROVE  InHand(s) = DownMark(s)[writing] /\ InHand(s)' = 0
    BY <2>1 DEF InHand
  <2>3. ASSUME NEW s \in Sources
        PROVE  /\ InOrder(DownMark(s), wireDown', delivered[s], sent[s])
               /\ \E b \in Nat : /\ AllInOrder(DownMark(s), wireDown', delivered[s], b)
                                 /\ AllInOrder(PrioMark(s), prio, b, sent[s])
    <3>1. PICK b \in Nat : /\ AllInOrder(DownMark(s), wireDown, delivered[s], b)
                           /\ InHand(s) \in {0, b + 1}
                           /\ AllInOrder(PrioMark(s), prio, IF InHand(s) = 0 THEN b ELSE b + 1, sent[s])
      BY <2>1 DEF OrderInv, DownOrder
    <3> DEFINE c == IF InHand(s) = 0 THEN b ELSE b + 1
    <3>2. c \in Nat /\ AllInOrder(PrioMark(s), prio, c, sent[s])
      BY <3>1
    <3>3. AllInOrder(DownMark(s), wireDown', delivered[s], c)
      <4>1. CASE InHand(s) = 0
        BY <1>0, <2>1, <2>2, <3>1, <4>1, PushInOrder
      <4>2. CASE InHand(s) = b + 1
        BY <1>0, <2>1, <2>2, <3>1, <4>2, PushInOrder
      <4> QED BY <3>1, <4>1, <4>2
    <3>4. c <= sent[s]
      BY <3>2 DEF AllInOrder, Full
    <3> HIDE DEF c
    <3>5. wireDown' \in Seq(FramesOf(DownMsgs))
      BY <1>0, <2>1
    <3>6. InOrder(DownMark(s), wireDown', delivered[s], sent[s])
      <4> DEFINE q == wireDown'
      <4>1. q \in Seq(FramesOf(DownMsgs)) /\ InOrder(DownMark(s), q, delivered[s], c)
        BY <3>3, <3>5, AllIsInOrder
      <4> HIDE DEF q
      <4>2. InOrder(DownMark(s), q, delivered[s], sent[s])
        BY <1>0, <3>2, <3>4, <4>1, MoreInOrder
      <4> QED BY <4>2 DEF q
    <3> QED BY <3>2, <3>3, <3>6
  <2> QED BY <1>1, <2>1, <2>2, <2>3 DEF OrderInv, DownOrder
<1>4. CASE WriterBreaks
  <2>1. ~up /\ UNCHANGED <<up, wireDown>>
    BY <1>4 DEF WriterBreaks
  <2> QED BY <1>1, <2>1 DEF OrderInv, DownOrder
<1> QED BY <1>2, <1>3, <1>4 DEF Writer

\* A response arrives: the next one of its source, or one nobody counts.
LEMMA ClientReadsOrder ==
  ASSUME Types, DownInv, OrderInv, ClientReads
  PROVE  /\ OrderInv' /\ UNCHANGED sent
         /\ \/ UNCHANGED delivered
            \/ \E s \in Sources : delivered[s] < sent[s] /\ delivered' = [delivered EXCEPT ![s] = @ + 1]
<1>0. CASE UNCHANGED <<wireDown, delivered>>
  <2>1. UNCHANGED <<up, frame, wireUp, writer, writing, prio, sent>>
    BY DEF ClientReads, clientVars, serverVars
  <2>2. \A r \in Sources : InHand(r)' = InHand(r)
    BY <2>1 DEF InHand
  <2>3. DownOrder'
    BY <1>0, <2>1, <2>2 DEF OrderInv, DownOrder
  <2> QED BY <1>0, <2>1, <2>3, UpOrderKept DEF OrderInv
<1> SUFFICES ASSUME ~UNCHANGED <<wireDown, delivered>>
             PROVE  /\ OrderInv' /\ UNCHANGED sent
                    /\ \/ UNCHANGED delivered
                       \/ \E s \in Sources : delivered[s] < sent[s] /\ delivered' = [delivered EXCEPT ![s] = @ + 1]
  BY <1>0
<1> DEFINE f == wireDown[1]
           s == f.msg.from
<1>1. /\ wireDown \in Seq(FramesOf(DownMsgs)) /\ wireDown # <<>> /\ wireDown' = Tail(wireDown)
      /\ f = Head(wireDown) /\ f \in FramesOf(DownMsgs) /\ f.msg \in DownMsgs
      /\ delivered \in [Senders -> 0 .. Messages]
  <2>1. /\ wireDown \in Seq(FramesOf(DownMsgs)) /\ wireDown # <<>> /\ wireDown' = Tail(wireDown)
        /\ delivered \in [Senders -> 0 .. Messages]
    BY ClientReadsOpens DEF ClientReads, Types, UpTypes, DownTypes
  <2>2. f = Head(wireDown) /\ f \in FramesOf(DownMsgs)
    BY <2>1, Popped
  <2>3. f.msg \in DownMsgs
    BY <2>2 DEF FramesOf
  <2> QED BY <2>1, <2>2, <2>3
<1>2. /\ UNCHANGED <<up, frame, wireUp, writer, writing, prio, sent>>
      /\ delivered' = IF s = None THEN delivered ELSE [delivered EXCEPT ![s] = f.msg.n]
  BY <1>1, ClientReadsOpens DEF ClientReads, clientVars, serverVars
<1>3. s # None => s \in Sources /\ f.msg.n \in 1 .. Messages
  BY <1>1, MsgFacts
<1>4. ASSUME NEW r \in Sources
      PROVE  /\ r \in Senders /\ r # None /\ sent[r] \in Nat /\ delivered[r] \in Nat
             /\ DownMark(r) \in [FramesOf(DownMsgs) -> Nat]
             /\ DownMark(r)[f] = IF r = s THEN f.msg.n ELSE 0
             /\ InOrder(DownMark(r), wireDown, delivered[r], sent[r])
  BY <1>1, Counts, MarkTypes, ChannelAssumption DEF DownMark, Mark, OrderInv, DownOrder
<1> HIDE DEF f, s
<1>5. ASSUME s # None
      PROVE  /\ f.msg.n = delivered[s] + 1 /\ delivered[s] < sent[s]
             /\ delivered' = [delivered EXCEPT ![s] = delivered[s] + 1]
  <2>1. DownMark(s)[wireDown[1]] # 0 /\ DownMark(s)[wireDown[1]] = f.msg.n /\ s \in Sources
    BY <1>3, <1>4, <1>5 DEF f
  <2>2. f.msg.n = delivered[s] + 1 /\ delivered[s] < sent[s]
    BY <1>1, <1>4, <2>1, PopInOrder
  <2> QED BY <1>2, <1>5, <2>2
<1>6. ASSUME NEW r \in Sources
      PROVE  delivered'[r] = IF r = s THEN delivered[r] + 1 ELSE delivered[r]
  BY <1>1, <1>2, <1>4, <1>5
<1>7. ASSUME NEW r \in Sources, NEW b \in Nat
      PROVE  /\ InOrder(DownMark(r), wireDown', delivered'[r], sent[r])
             /\ AllInOrder(DownMark(r), wireDown, delivered[r], b)
                  => AllInOrder(DownMark(r), wireDown', delivered'[r], b)
  <2>1. CASE r = s
    <3>1. DownMark(r)[wireDown[1]] # 0
      BY <1>3, <1>4, <2>1 DEF f
    <3>2. delivered'[r] = delivered[r] + 1
      BY <1>6, <2>1
    <3>3. InOrder(DownMark(r), Tail(wireDown), delivered[r] + 1, sent[r])
      BY <1>1, <1>4, <3>1, PopInOrder
    <3>4. ASSUME AllInOrder(DownMark(r), wireDown, delivered[r], b)
          PROVE  AllInOrder(DownMark(r), Tail(wireDown), delivered[r] + 1, b)
      <4>1. InOrder(DownMark(r), wireDown, delivered[r], b)
        BY <3>4, AllIsInOrder
      <4> QED BY <1>1, <1>4, <3>1, <3>4, <4>1, PopInOrder
    <3> QED BY <1>1, <3>2, <3>3, <3>4
  <2>2. CASE r # s
    <3>1. DownMark(r)[wireDown[1]] = 0 /\ delivered'[r] = delivered[r]
      BY <1>4, <1>6, <2>2 DEF f
    <3> QED BY <1>1, <1>4, <3>1, PopInOrder
  <2> QED BY <2>1, <2>2
<1>8. \A r \in Sources : InHand(r)' = InHand(r)
  BY <1>2 DEF InHand
<1>9. DownOrder'
  BY <1>2, <1>7, <1>8 DEF OrderInv, DownOrder
<1>10. UpOrder'
  <2>1. \A t \in Threads : delivered'[t] = delivered[t]
    <3>1. \A t \in Threads : t \in Senders /\ t # s
      BY <1>3, Counts, ChannelAssumption
    <3> QED BY <1>1, <1>2, <3>1
  <2> QED BY <1>2, <2>1, UpOrderKept DEF OrderInv
<1> QED BY <1>2, <1>3, <1>5, <1>9, <1>10 DEF OrderInv

\* The connection breaks: a part of what was under way is left, in order.
LEMMA DisconnectOrder == ASSUME Types, OrderInv, Disconnect PROVE OrderInv'
<1>1. PICK i \in 0 .. Len(wireUp), j \in 0 .. Len(wireDown) :
        wireUp' = SubSeq(wireUp, 1, i) /\ wireDown' = SubSeq(wireDown, 1, j)
  BY DEF Disconnect
<1>2. ~up' /\ UNCHANGED <<frame, sent, delivered, writer>>
  BY DEF Disconnect, clientVars, serverVars
<1>3. ASSUME NEW t \in Threads PROVE InOrder(UpMark(t), wireUp', delivered[t], sent[t])
  <2>1. /\ InOrder(UpMark(t), wireUp, delivered[t], sent[t]) /\ wireUp \in Seq(PartsOf(UpMsgs))
        /\ UpMark(t) \in [PartsOf(UpMsgs) -> Nat] /\ sent[t] \in Nat /\ delivered[t] \in Nat
    BY Counts, MarkTypes DEF Types, UpTypes, OrderInv, UpOrder
  <2> QED BY <1>1, <2>1, CutInOrder
<1>4. ASSUME NEW s \in Sources PROVE InOrder(DownMark(s), wireDown', delivered[s], sent[s])
  <2>1. /\ InOrder(DownMark(s), wireDown, delivered[s], sent[s]) /\ wireDown \in Seq(FramesOf(DownMsgs))
        /\ DownMark(s) \in [FramesOf(DownMsgs) -> Nat] /\ sent[s] \in Nat /\ delivered[s] \in Nat
    BY Counts, MarkTypes DEF Types, DownTypes, OrderInv, DownOrder
  <2> QED BY <1>1, <2>1, CutInOrder
<1> QED BY <1>2, <1>3, <1>4 DEF OrderInv, UpOrder, DownOrder

LEMMA InitOrder == Init => OrderInv
<1> SUFFICES ASSUME Init PROVE OrderInv
  OBVIOUS
<1>1. ASSUME NEW mk PROVE AllInOrder(mk, <<>>, 0, 0) /\ InOrder(mk, <<>>, 0, 0)
  BY NoneInOrder, AllIsInOrder
<1>2. \A s \in Senders : sent[s] = 0 /\ delivered[s] = 0
  BY DEF Init
<1>3. UpOrder
  BY <1>1, <1>2 DEF Init, UpOrder, Written, Senders
<1>4. DownOrder
  <2>1. \A s \in Sources : s \in Senders /\ InHand(s) = 0
    BY DEF Init, InHand, Senders
  <2>2. 0 \in Nat
    OBVIOUS
  <2>3. wireDown = <<>> /\ prio = <<>> /\ writer
    BY DEF Init
  <2> QED BY <1>1, <1>2, <2>1, <2>2, <2>3 DEF DownOrder
<1> QED BY <1>3, <1>4 DEF OrderInv

\* Every step keeps the order, and hands over or delivers at most one message, the next.
LEMMA NextOrder ==
  ASSUME Types, Together, OrderInv, [Next]_vars
  PROVE  OrderInv' /\ [IsDelivery!Next]_<<sent, delivered>>
<1> USE DEF Together
<1>1. ASSUME NEW t \in Threads, LockAndSeal(t) \/ Writes(t)
      PROVE  OrderInv' /\ [IsDelivery!Next]_<<sent, delivered>>
  <2>1. CASE LockAndSeal(t)
    <3>1. t \in Senders /\ sent' = [sent EXCEPT ![t] = @ + 1] /\ UNCHANGED delivered
      BY <2>1 DEF LockAndSeal, Handed, Senders
    <3> QED BY <1>1, <3>1, ThreadOrder DEF IsDelivery!Next, IsDelivery!Send
  <2>2. CASE Writes(t)
    BY <1>1, <2>2, ThreadOrder DEF Writes, WriteLen, WriteBody, SendFails
  <2> QED BY <1>1, <2>1, <2>2
<1>2. CASE ServerReads
  <2>1. PICK t \in Threads : delivered[t] < sent[t] /\ delivered' = [delivered EXCEPT ![t] = @ + 1]
    BY <1>2, ServerReadsOrder
  <2>2. UpOrder' /\ UNCHANGED sent /\ t \in Senders
    BY <1>2, ServerReadsOrder, Counts
  <2>3. DownOrder'
    <3>1. \A s \in Sources : sent'[s] = sent[s] /\ delivered'[s] = delivered[s]
      <4>1. \A s \in Sources : s \in Senders /\ s # t
        BY Counts
      <4> QED BY <2>1, <2>2, <4>1 DEF Types, UpTypes
    <3>2. UNCHANGED <<up, writer, writing, wireDown>>
      BY <1>2 DEF ServerReads
    <3>3. prio' = Append(prio, PongFrame) \/ prio' = prio
      BY <1>2 DEF ServerReads, TrySend
    <3>4. PongFrame \in DownMsgs /\ PongFrame.from \notin Sources
      BY MsgFacts, ChannelAssumption DEF PongFrame
    <3> QED BY <3>1, <3>2, <3>3, <3>4, PrioSilent DEF OrderInv
  <2> QED BY <2>1, <2>2, <2>3 DEF OrderInv, IsDelivery!Next, IsDelivery!Deliver
<1>3. CASE ClientReads
  <2>1. OrderInv' /\ UNCHANGED sent
    BY <1>3, ClientReadsOrder
  <2>2. CASE UNCHANGED delivered
    BY <2>1, <2>2
  <2>3. ASSUME NEW s \in Sources, delivered[s] < sent[s], delivered' = [delivered EXCEPT ![s] = @ + 1]
        PROVE  IsDelivery!Next
    BY <2>1, <2>3, Counts DEF IsDelivery!Next, IsDelivery!Deliver
  <2> QED BY <1>3, <2>1, <2>2, <2>3, ClientReadsOrder
<1>4. CASE Writer
  <2>1. UNCHANGED <<sent, delivered>>
    BY <1>4 DEF Writer, WriterTakes, WriterWrites, WriterBreaks
  <2> QED BY <1>4, <2>1, WriterOrder
<1>5. ASSUME NEW s \in Sources, RespondBlocking(s)
      PROVE  OrderInv' /\ [IsDelivery!Next]_<<sent, delivered>>
  <2>1. s \in Senders /\ sent' = [sent EXCEPT ![s] = @ + 1] /\ UNCHANGED delivered
    BY <1>5 DEF RespondBlocking, Handed, Senders
  <2> QED BY <1>5, <2>1, RespondOrder DEF IsDelivery!Next, IsDelivery!Send
<1>6. CASE CaptureFrame \/ ReaderTimesOut \/ UNCHANGED vars
  <2>1. UNCHANGED <<up, frame, wireUp, writer, writing, wireDown, prio, sent, delivered>>
    BY <1>6 DEF CaptureFrame, ReaderTimesOut, vars, clientVars, serverVars
  <2> QED BY <2>1, UpOrderKept, DownOrderKept DEF OrderInv
<1>7. CASE Disconnect
  <2>1. UNCHANGED <<sent, delivered>>
    BY <1>7 DEF Disconnect
  <2> QED BY <1>7, <2>1, DisconnectOrder
<1> QED BY <1>1, <1>2, <1>3, <1>4, <1>5, <1>6, <1>7 DEF Next

\* The connection implements the abstract delivery: the messages of each sender arrive in
\* the order it sent them, each once and none left out, whatever happens to it.
THEOREM DeliversInOrder == Spec => DeliverySpec
<1>1. Init => Types /\ Together /\ OrderInv
  BY InitTypes, InitTogether, InitOrder
<1>2. Types /\ Together /\ OrderInv /\ [Next]_vars => Types' /\ Together' /\ OrderInv'
  BY NextTypes, NextTogether, NextOrder
<1>3. Init => IsDelivery!Init
  BY DEF Init, IsDelivery!Init
<1>4. Types /\ Together /\ OrderInv /\ [Next]_vars => [IsDelivery!Next]_<<sent, delivered>>
  BY NextOrder
<1> QED BY <1>1, <1>2, <1>3, <1>4, PTL DEF Spec, DeliverySpec, IsDelivery!Spec
=============================================================================
