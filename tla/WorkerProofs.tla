--------------------------- MODULE WorkerProofs ---------------------------
(***************************************************************************)
(* What one connection to the worker keeps to: the pictures it is sent and *)
(* the clicks it sends back (module Video), and, below, the flag by which  *)
(* the tasks of all connections admit one controller (module Session).     *)
(* The two share this module and nothing else.                             *)
(***************************************************************************)
EXTENDS Video, Session, TLAPS

-----------------------------------------------------------------------------
(* The types of the picture                                                *)

\* The message in the capture loop's hands, and the picture a viewer has to look at.
FrameTyped ==
  /\ frame \in Pictures \cup {Cursor}
             \cup [kind : {"none"}, of : 1 .. MaxChanges, w : Nat \ {0}, cw : Nat \ {0}, shift : Int]
  /\ capture_loop \in {"capture", "blit"} => frame = Cursor
  /\ viewer \in {"look", "take"} => latest # None

Typed == TypeOK /\ FrameTyped

\* The width of a screen is positive, and so is that of its picture.
LEMMA ScreenTyped ==
  ASSUME VideoAssumption, TypeOK
  PROVE  /\ screen \in Screens /\ screen = history[Len(history)]
         /\ screen.w \in Nat \ {0} /\ screen.at \in Int
         /\ Len(history) \in 1 .. MaxChanges /\ MaxChanges \in Nat
         /\ \A n \in 1 .. Len(history) : /\ history[n] \in Screens
                                         /\ history[n].w \in Nat \ {0}
                                         /\ 2 * history[n].w <= Steps
                                         /\ history[n].at \in Int
  BY DEF TypeOK, VideoAssumption, screen, Last

LEMMA ScaledTyped ==
  ASSUME VideoAssumption, NEW w \in Nat \ {0}
  PROVE  Scaled(w) \in Nat \ {0} /\ Scaled(w) <= w
  BY DEF VideoAssumption, Scaled

LEMMA RebuiltTyped ==
  ASSUME VideoAssumption, TypeOK
  PROVE  /\ Rebuilt.w = screen.w /\ Rebuilt.at \in Int
         /\ \E s \in Screens : Rebuilt = [w |-> s.w, at |-> s.at]
  <1>1. CASE cap.w = screen.w
    <2>1. cap # NoBuffers
      BY <1>1, ScreenTyped DEF NoBuffers
    <2> QED BY <1>1, <2>1, ScreenTyped DEF Rebuilt, TypeOK, VideoAssumption
  <1>2. CASE cap.w # screen.w
    BY <1>2, ScreenTyped DEF Rebuilt
  <1> QED BY <1>1, <1>2

\* What Capture takes: a picture of the screen as it is, as wide as the buffers and from
\* their origin.
LEMMA CaptureTakes ==
  ASSUME VideoAssumption, TypeOK, cap # NoBuffers
  PROVE  /\ Taken \in Pictures
         /\ Taken.of = Len(history) /\ Taken.w = Scaled(cap.w) /\ Taken.cw = cap.w
<1>1. cap.w \in Nat \ {0} /\ cap.at - screen.at \in Int
  <2>1. PICK s \in Screens : cap = [w |-> s.w, at |-> s.at]
    BY DEF TypeOK
  <2> QED BY <2>1, ScreenTyped DEF VideoAssumption
<1>2. Scaled(cap.w) \in Nat \ {0}
  BY <1>1, ScaledTyped
<1>3. Len(history) \in 1 .. MaxChanges
  BY ScreenTyped
<1> QED BY <1>1, <1>2, <1>3 DEF Taken, Pictures

\* Every message that is sent finds the queue with or without room.
LEMMA TrySendTyped ==
  ASSUME TypeOK, VideoAssumption, NEW m \in Pictures \cup {Cursor}, TrySend(m)
  PROVE  /\ video' \in Seq(Pictures \cup {Cursor}) /\ Len(video') <= VideoCap
         /\ lost' \in BOOLEAN
<1>1. CASE Len(video) < VideoCap
  <2>1. lost' = (lost /\ m = Cursor)
    BY <1>1, Zenon DEF TrySend
  <2>2. video' = Append(video, m)
    BY <1>1, Zenon DEF TrySend
  <2>3. video' \in Seq(Pictures \cup {Cursor}) /\ Len(video') <= VideoCap
    BY <1>1, <2>2 DEF TypeOK, VideoAssumption
  <2> QED BY <2>1, <2>3, Zenon
<1>2. CASE ~(Len(video) < VideoCap)
  <2>1. lost' = (lost \/ m # Cursor) /\ video' = video
    BY <1>2, Zenon DEF TrySend
  <2> QED BY <2>1, Zenon DEF TypeOK
<1> QED BY <1>1, <1>2

\* The variables have their types in every state, for any set of screens and any bounds.
THEOREM PictureTypes == Spec => []Typed
<1> VideoAssumption
  BY VideoAssumption
<1>1. Init => Typed
  <2> SUFFICES ASSUME Init PROVE Typed
    OBVIOUS
  <2>1. /\ Start \in Screens /\ MaxChanges \in Nat \ {0} /\ VideoCap \in Nat \ {0}
        /\ MaxWire \in Nat \ {0} /\ BatchMax \in Nat \ {0}
    BY DEF VideoAssumption
  <2>2. history \in Seq(Screens) /\ Len(history) \in 1 .. MaxChanges
    BY <2>1 DEF Init
  <2>3. FrameTyped
    BY DEF Init, FrameTyped
  <2>4. /\ video \in Seq(Pictures \cup {Cursor}) /\ Len(video) <= VideoCap
        /\ wire \in Seq(Pictures \cup {Cursor}) /\ Len(wire) <= MaxWire
        /\ clicks \in Seq(Clicks) /\ batch \in Seq(Clicks) /\ Len(batch) <= BatchMax
    BY <2>1 DEF Init
  <2>5. lost \in BOOLEAN
    BY Zenon DEF Init
  <2> QED BY <2>2, <2>3, <2>4, <2>5 DEF Init, Typed, TypeOK
<1>2. Typed /\ [Next]_vars => Typed'
  <2> SUFFICES ASSUME Typed, [Next]_vars PROVE Typed'
    OBVIOUS
  <2> USE DEF Typed
  <2>1. CASE ScreenChanges
    <3>1. PICK s \in Screens : history' = Append(history, s)
      BY <2>1 DEF ScreenChanges
    <3>2. /\ history' \in Seq(Screens) /\ Len(history') \in 1 .. MaxChanges
          /\ \A n \in DOMAIN history : n \in DOMAIN history' /\ history'[n] = history[n]
      <4>1. Len(history) < MaxChanges /\ history \in Seq(Screens)
        BY <2>1 DEF ScreenChanges, TypeOK
      <4> QED BY <3>1, <4>1, ScreenTyped
    <3>3. (last_rgb = None \/ \E n \in DOMAIN history : last_rgb.what = history[n].what)'
      BY <2>1, <3>2 DEF ScreenChanges, TypeOK, capturer
    <3>4. UNCHANGED <<cap, last_rgb, capture_loop, frame, frame_w, video, wire, latest, frame_seq,
                      viewer, seq, last_drawn_seq, img, clicks, batch, fsize, lost>>
      BY <2>1 DEF ScreenChanges, capturer, client, viewing, injector
    <3>5. FrameTyped'
      BY <3>4 DEF FrameTyped
    <3>6. TypeOK'
      BY <3>2, <3>3, <3>4 DEF TypeOK
    <3> QED BY <3>5, <3>6
  <2>16. CASE Rebuild
    <3>1. \E s \in Screens : cap' = [w |-> s.w, at |-> s.at]
      BY <2>16, RebuiltTyped DEF Rebuild
    <3>2. cap' # NoBuffers
      BY <3>1 DEF NoBuffers, VideoAssumption
    <3> QED
      BY <2>16, <3>1, <3>2 DEF Rebuild, TypeOK, FrameTyped, client, viewing, injector, Cursor, None,
                               NoBuffers, Pictures, Clicks
  <2>2. CASE Capture
    <3>1. /\ capture_loop = "blit" /\ cap # NoBuffers /\ capture_loop' = "store"
          /\ UNCHANGED <<history, cap, frame_w, video, wire, latest, frame_seq, viewer, seq,
                         last_drawn_seq, img, clicks, batch, fsize, lost>>
      BY <2>2 DEF Capture, client, viewing, injector, TypeOK
    <3>2. Taken \in Pictures /\ Taken.of = Len(history)
      BY <3>1, CaptureTakes
    <3>3. frame' \in {Taken, Cursor, [Taken EXCEPT !.kind = "none"]}
      BY <2>2 DEF Capture
    <3>4. FrameTyped'
      BY <3>1, <3>2, <3>3 DEF FrameTyped, Pictures, Cursor
    <3>5. last_rgb' = None \/ \E n \in DOMAIN history : last_rgb'.what = history[n].what
      <4>1. Rgb(Taken).what = history[Len(history)].what
        BY <3>2 DEF Rgb
      <4>2. Len(history) \in DOMAIN history
        BY ScreenTyped DEF TypeOK
      <4>3. last_rgb' \in {last_rgb, Rgb(Taken)}
        BY <2>2 DEF Capture
      <4>4. last_rgb = None \/ \E n \in DOMAIN history : last_rgb.what = history[n].what
        BY DEF TypeOK
      <4> QED BY <4>1, <4>2, <4>3, <4>4, Zenon
    <3>6. cap = NoBuffers \/ \E s \in Screens : cap = [w |-> s.w, at |-> s.at]
      BY DEF TypeOK
    <3> QED
      BY <3>1, <3>4, <3>5, <3>6 DEF TypeOK, None, Cursor, Pictures, Clicks, NoBuffers
  <2>3. CASE CaptureFails
    BY <2>3 DEF CaptureFails, TypeOK, FrameTyped, client, viewing, injector, Cursor, None,
                 NoBuffers, Pictures, Clicks
  <2>4. CASE StoreSize
    <3>1. frame_w' \in Nat
      BY <2>4, ScaledTyped DEF StoreSize, TypeOK, VideoAssumption, NoBuffers, Scaled
    <3> QED
      BY <2>4, <3>1 DEF StoreSize, TypeOK, FrameTyped, client, viewing, injector, Cursor, None,
                        NoBuffers, Pictures, Clicks
  <2>5. CASE SendFrame
    <3>1. /\ video' \in Seq(Pictures \cup {Cursor}) /\ Len(video') <= VideoCap
          /\ lost' \in BOOLEAN
      <4>1. CASE frame.kind = "none"
        BY <2>5, <4>1 DEF SendFrame, TypeOK
      <4>2. CASE frame.kind # "none"
        BY <2>5, <4>2, TrySendTyped DEF SendFrame, FrameTyped, Cursor
      <4> QED BY <4>1, <4>2
    <3> QED
      BY <2>5, <3>1 DEF SendFrame, TypeOK, FrameTyped, client, viewing, injector, Cursor, None,
                        NoBuffers, Pictures, Clicks
  <2>6. CASE WriterTakes
    BY SMTT(30), <2>6 DEF WriterTakes, TypeOK, FrameTyped, capturer, client, viewing, injector,
                          Cursor, None, NoBuffers, Pictures, Clicks
  <2>7. CASE ClientReads
    <3>1. wire' \in Seq(Pictures \cup {Cursor}) /\ Len(wire') <= MaxWire
      BY <2>7 DEF ClientReads, TypeOK, VideoAssumption
    <3>2. latest' \in Pictures \cup {None} /\ frame_seq' \in Nat /\ seq \in 0 .. frame_seq'
      BY <2>7 DEF ClientReads, TypeOK, client
    <3>3. latest # None => latest' # None
      <4>1. latest' = latest \/ latest' \in Pictures
        <5>1. wire \in Seq(Pictures \cup {Cursor}) /\ wire # <<>>
          BY <2>7 DEF ClientReads, TypeOK
        <5>2. Head(wire) \in Pictures \cup {Cursor}
          BY <5>1
        <5> QED BY <2>7, <5>2, Zenon DEF ClientReads, client
      <4>2. ASSUME NEW p \in Pictures PROVE p # None
        <5>1. p.w # 0 /\ None.w = 0
          BY DEF Pictures, None
        <5> QED BY <5>1, Zenon
      <4> QED BY <4>1, <4>2, Zenon
    <3>4. FrameTyped'
      BY <2>7, <3>3 DEF ClientReads, FrameTyped, capturer, viewing
    <3>5. UNCHANGED <<history, cap, last_rgb, capture_loop, frame_w, video, viewer, seq,
                      last_drawn_seq, img, clicks, batch, fsize, lost>>
      BY <2>7 DEF ClientReads, capturer, viewing, injector
    <3>6. /\ (history \in Seq(Screens) /\ Len(history) \in 1 .. MaxChanges)'
          /\ (last_rgb = None \/ \E n \in DOMAIN history : last_rgb.what = history[n].what)'
          /\ (cap = NoBuffers \/ \E s \in Screens : cap = [w |-> s.w, at |-> s.at])'
          /\ (capture_loop \in {"capture", "blit", "store", "send"})'
          /\ (capture_loop \in {"blit", "store"} => cap # NoBuffers)'
          /\ (frame_w \in Nat)'
          /\ (video \in Seq(Pictures \cup {Cursor}) /\ Len(video) <= VideoCap)'
      BY <3>5, Zenon DEF TypeOK
    <3>7. /\ (img \in Pictures \cup {None} /\ last_drawn_seq \in 0 .. seq)'
          /\ (viewer \in {"first", "look", "take", "closed"})'
          /\ (viewer \in {"look", "take"} => img \in Pictures)'
          /\ (clicks \in Seq(Clicks) /\ batch \in Seq(Clicks) /\ Len(batch) <= BatchMax)'
          /\ (fsize \in Nat /\ lost \in BOOLEAN)'
      BY <3>5, Zenon DEF TypeOK
    <3>8. seq' = seq
      BY <3>5
    <3> QED BY <3>1, <3>2, <3>4, <3>6, <3>7, <3>8, Zenon DEF TypeOK
  <2>8. CASE FirstFrame
    BY <2>8 DEF FirstFrame, TypeOK, FrameTyped, capturer, client, injector, Cursor, None,
                NoBuffers, Pictures, Clicks
  <2>9. CASE Look
    BY <2>9 DEF Look, TypeOK, FrameTyped, capturer, client, injector, Cursor, None,
                NoBuffers, Pictures, Clicks
  <2>10. CASE TakeFrame
    BY <2>10 DEF TakeFrame, TypeOK, FrameTyped, capturer, client, injector, Cursor, None,
                 NoBuffers, Pictures, Clicks
  <2>11. CASE LeaveViewer
    <3>1. FrameTyped'
      BY <2>11 DEF LeaveViewer, FrameTyped
    <3>2. /\ (video \in Seq(Pictures \cup {Cursor}) /\ Len(video) <= VideoCap)'
          /\ (wire \in Seq(Pictures \cup {Cursor}) /\ Len(wire) <= MaxWire)'
          /\ (clicks \in Seq(Clicks))'
      BY <2>11 DEF LeaveViewer, VideoAssumption
    <3>3. lost' \in BOOLEAN
      BY <2>11, Zenon DEF LeaveViewer
    <3>4. /\ UNCHANGED <<history, frame_w, img, batch, fsize>>
          /\ cap' = NoBuffers /\ last_rgb' = None /\ capture_loop' = "capture"
          /\ latest' = None /\ frame_seq' = 0 /\ seq' = 0 /\ last_drawn_seq' = 0
          /\ viewer' = "closed"
      BY <2>11 DEF LeaveViewer, injector
    <3> QED BY <3>1, <3>2, <3>3, <3>4 DEF TypeOK
  <2>12. CASE Click
    <3>1. PICK x \in {y \in Columns : y < img.w} :
            clicks' = Append(clicks, [of |-> img.of, w |-> img.w, cw |-> img.cw, shift |-> img.shift, x |-> x])
      BY <2>12 DEF Click
    <3>2. [of |-> img.of, w |-> img.w, cw |-> img.cw, shift |-> img.shift, x |-> x] \in Clicks
      BY <2>12 DEF Click, TypeOK, Pictures, Clicks, VideoAssumption
    <3>3. clicks' \in Seq(Clicks)
      BY <3>1, <3>2 DEF TypeOK
    <3> QED
      BY <2>12, <3>3 DEF Click, TypeOK, FrameTyped, capturer, client, viewing, injector, Cursor, None,
                         NoBuffers, Pictures, Clicks
  <2>13. CASE TakeBatch
    <3> DEFINE n == IF Len(clicks) < BatchMax THEN Len(clicks) ELSE BatchMax
    <3>1. /\ n \in Nat /\ n <= Len(clicks) /\ n <= BatchMax
          /\ batch' = SubSeq(clicks, 1, n)
          /\ clicks' = SubSeq(clicks, n + 1, Len(clicks))
      BY <2>13 DEF TakeBatch, TypeOK, VideoAssumption
    <3> HIDE DEF n
    <3>2. batch' \in Seq(Clicks) /\ Len(batch') <= BatchMax /\ clicks' \in Seq(Clicks)
      <4>1. clicks \in Seq(Clicks)
        BY DEF TypeOK
      <4> HIDE DEF Typed
      <4> QED BY <3>1, <4>1
    <3>3. /\ UNCHANGED <<history, capturer, frame_w, video, wire, client, viewing, lost>>
          /\ fsize' = frame_w
      BY <2>13 DEF TakeBatch
    <3>4. FrameTyped'
      BY <3>3 DEF FrameTyped, capturer, client, viewing, Cursor, Pictures
    <3>5. TypeOK'
      BY <3>2, <3>3 DEF TypeOK, capturer, client, viewing, Cursor, None, NoBuffers, Pictures, Clicks
    <3> QED BY <3>4, <3>5
  <2>14. CASE Inject
    <3>1. batch' \in Seq(Clicks) /\ Len(batch') <= BatchMax /\ fsize' \in Nat
      BY <2>14 DEF Inject, TypeOK, VideoAssumption
    <3> QED
      BY <2>14, <3>1 DEF Inject, TypeOK, FrameTyped, capturer, client, viewing, Cursor, None,
                         NoBuffers, Pictures, Clicks
  <2>15. CASE UNCHANGED vars
    BY <2>15 DEF vars, TypeOK, FrameTyped, capturer, client, viewing, injector, Cursor, None,
                 NoBuffers, Pictures, Clicks
  <2> QED
    BY <2>1, <2>2, <2>3, <2>4, <2>5, <2>6, <2>7, <2>8, <2>9, <2>10, <2>11, <2>12, <2>13, <2>14,
       <2>15, <2>16 DEF Next, CaptureLoop, Viewer, InputLoop
<1> QED
  BY <1>1, <1>2, PTL DEF Spec

-----------------------------------------------------------------------------
(* A mirror with a delay                                                   *)

(* The numbers of the pictures under way are in order: the one taken last  *)
(* is with the capture loop, then come the video queue, the sockets, the   *)
(* latest frame the client has, and the picture the viewer shows.          *)
UnderWay == wire \o video
IsPicture(m) == m.kind = "picture"

QueuesInOrder ==
  \A i, j \in 1 .. Len(UnderWay) :
    i <= j /\ IsPicture(UnderWay[i]) /\ IsPicture(UnderWay[j]) => UnderWay[i].of <= UnderWay[j].of

EndsInOrder ==
  /\ \A i \in 1 .. Len(UnderWay) :
       IsPicture(UnderWay[i]) => /\ UnderWay[i].of <= Len(history)
                                 /\ IsPicture(frame) => UnderWay[i].of <= frame.of
                                 /\ latest # None => latest.of <= UnderWay[i].of
  /\ IsPicture(frame) => frame.of <= Len(history)
  /\ latest # None => latest.of <= Len(history) /\ (IsPicture(frame) => latest.of <= frame.of)

ViewerBehind ==
  /\ viewer = "first" => img = None
  /\ viewer \in {"look", "take"} => img # None /\ img.of <= latest.of
  /\ img # None => img.of <= Len(history)

InOrder == QueuesInOrder /\ EndsInOrder /\ ViewerBehind

\* What is under way is a picture or says where the pointer is.
LEMMA UnderWayTyped ==
  ASSUME Typed
  PROVE  /\ UnderWay \in Seq(Pictures \cup {Cursor})
         /\ \A m \in Pictures \cup {Cursor} : IsPicture(m) <=> m \in Pictures
         /\ ~IsPicture(Cursor) /\ Cursor \notin Pictures /\ None \notin Pictures /\ None # Cursor
         /\ IsPicture(frame) <=> frame \in Pictures
         /\ \A m \in Pictures : m.of \in Nat
         /\ Len(UnderWay) \in Nat
         /\ \A i \in 1 .. Len(UnderWay) : UnderWay[i] \in Pictures \cup {Cursor}
<1>1. UnderWay \in Seq(Pictures \cup {Cursor})
  BY DEF Typed, TypeOK, UnderWay
<1>2. ~IsPicture(Cursor) /\ Cursor \notin Pictures /\ None \notin Pictures
  BY DEF Pictures, Cursor, None, IsPicture
<1>3. \A m \in Pictures : IsPicture(m) /\ m.of \in Nat
  BY DEF Pictures, IsPicture
<1>4. None # Cursor
  BY DEF None, Cursor
<1>5. IsPicture(frame) <=> frame \in Pictures
  BY <1>2, <1>3 DEF Typed, FrameTyped, IsPicture
<1> QED BY <1>1, <1>2, <1>3, <1>4, <1>5

\* The writer moves the oldest message of the queue behind those in the sockets.
LEMMA WriterKeepsOrder ==
  ASSUME Typed, WriterTakes
  PROVE  UnderWay' = UnderWay
<1>1. /\ video \in Seq(Pictures \cup {Cursor}) /\ wire \in Seq(Pictures \cup {Cursor}) /\ video # <<>>
      /\ wire' = Append(wire, Head(video)) /\ video' = Tail(video)
  BY DEF Typed, TypeOK, WriterTakes
<1>2. UnderWay' = wire' \o video'
  BY DEF UnderWay
<1>3. Len(UnderWay') = Len(UnderWay)
  BY <1>1, <1>2 DEF UnderWay
<1>4. ASSUME NEW i \in 1 .. Len(UnderWay) PROVE UnderWay'[i] = UnderWay[i]
  BY <1>1, <1>2 DEF UnderWay
<1> QED BY <1>1, <1>2, <1>3, <1>4 DEF UnderWay

\* What the capture loop sends is behind all that is under way, if it finds room.
LEMMA SendAppends ==
  ASSUME Typed, SendFrame
  PROVE  UnderWay' = UnderWay \/ (frame \in Pictures \cup {Cursor} /\ UnderWay' = Append(UnderWay, frame))
<1>1. /\ video \in Seq(Pictures \cup {Cursor}) /\ wire \in Seq(Pictures \cup {Cursor})
      /\ wire' = wire /\ UnderWay' = wire' \o video'
  BY DEF Typed, TypeOK, SendFrame, UnderWay
<1>2. CASE video' = video
  BY <1>1, <1>2 DEF UnderWay
<1>3. CASE video' # video
  <2>1. frame \in Pictures \cup {Cursor} /\ video' = Append(video, frame)
    BY <1>3 DEF SendFrame, TrySend, Typed, FrameTyped
  <2> QED BY <1>1, <2>1 DEF UnderWay
<1> QED BY <1>2, <1>3

\* The client takes the oldest message under way.
LEMMA ClientTakesOldest ==
  ASSUME Typed, ClientReads
  PROVE  /\ UnderWay # <<>> /\ Head(wire) = UnderWay[1] /\ Head(wire) \in Pictures \cup {Cursor}
         /\ Len(UnderWay') = Len(UnderWay) - 1 /\ DOMAIN UnderWay' = 1 .. Len(UnderWay')
         /\ \A i \in 1 .. Len(UnderWay') : UnderWay'[i] = UnderWay[i + 1]
<1>1. /\ video \in Seq(Pictures \cup {Cursor}) /\ wire \in Seq(Pictures \cup {Cursor})
      /\ wire # <<>> /\ wire' = Tail(wire) /\ video' = video /\ UnderWay' = wire' \o video'
  BY DEF Typed, TypeOK, ClientReads, UnderWay
<1>2. Len(UnderWay') = Len(UnderWay) - 1 /\ DOMAIN UnderWay' = 1 .. Len(UnderWay')
  BY <1>1 DEF UnderWay
<1>3. ASSUME NEW i \in 1 .. Len(UnderWay') PROVE UnderWay'[i] = UnderWay[i + 1]
  BY <1>1 DEF UnderWay
<1> QED BY <1>1, <1>2, <1>3 DEF UnderWay

\* Any step that leaves the queues and both ends alone, or lets the screen grow older.
LEMMA OrderKept ==
  ASSUME Typed, InOrder, UnderWay' = UnderWay, latest' = latest, frame' = frame, Len(history') \in Nat,
         Len(history) <= Len(history'), ViewerBehind'
  PROVE  InOrder'
<1>1. QueuesInOrder'
  BY DEF InOrder, QueuesInOrder
<1>2. /\ \A i \in 1 .. Len(UnderWay) : IsPicture(UnderWay[i]) => UnderWay[i].of \in Nat
      /\ IsPicture(frame) => frame.of \in Nat
      /\ latest # None => latest.of \in Nat
      /\ Len(history) \in Nat
  BY UnderWayTyped DEF Typed, TypeOK
<1>3. EndsInOrder'
  BY <1>2 DEF InOrder, EndsInOrder
<1> QED BY <1>1, <1>3 DEF InOrder

\* The pictures under way stay in order, whatever the queues lose.
THEOREM PicturesInOrder == Spec => []InOrder
<1> VideoAssumption
  BY VideoAssumption
<1>1. Init => InOrder
  <2> SUFFICES ASSUME Init PROVE InOrder
    OBVIOUS
  <2>1. wire \o video = <<>> /\ Len(wire \o video) = 0
    BY DEF Init
  <2> QED BY <2>1 DEF Init, InOrder, QueuesInOrder, EndsInOrder, ViewerBehind, UnderWay, Cursor, IsPicture
<1>2. Typed /\ InOrder /\ [Next]_vars => InOrder'
  <2> SUFFICES ASSUME Typed, InOrder, [Next]_vars PROVE InOrder'
    OBVIOUS
  <2>0. history \in Seq(Screens) /\ Len(history) \in Nat
    BY DEF Typed, TypeOK
  <2>1. CASE ScreenChanges
    <3>1. Len(history) <= Len(history') /\ Len(history') \in Nat
      BY <2>0, <2>1 DEF ScreenChanges
    <3>2. UNCHANGED <<wire, video, latest, frame, viewer, img>>
      BY <2>1 DEF ScreenChanges, capturer, client, viewing
    <3>3. ViewerBehind'
      BY <2>0, <3>1, <3>2 DEF ViewerBehind, InOrder, Typed, TypeOK, Pictures
    <3> QED BY <2>0, <3>1, <3>2, <3>3, OrderKept DEF UnderWay
  <2>2. CASE Capture
    <3>1. UNCHANGED <<history, wire, video, latest, viewer, img>> /\ cap # NoBuffers
      BY <2>2 DEF Capture, client, viewing, Typed, TypeOK
    <3>2. Taken \in Pictures /\ Taken.of = Len(history)
      BY <3>1, CaptureTakes DEF Typed
    <3>3. frame' \in {Taken, Cursor, [Taken EXCEPT !.kind = "none"]}
      BY <2>2 DEF Capture
    <3>4. IsPicture(frame') => frame'.of = Len(history)
      BY <3>2, <3>3, UnderWayTyped DEF IsPicture, Pictures
    <3>5. UnderWay' = UnderWay
      BY <3>1 DEF UnderWay
    <3> QED BY <2>0, <3>1, <3>4, <3>5 DEF InOrder, QueuesInOrder, EndsInOrder, ViewerBehind, IsPicture
  <2>3. CASE Rebuild \/ CaptureFails \/ StoreSize \/ Look \/ Click \/ TakeBatch \/ Inject \/ UNCHANGED vars
    <3>1. UNCHANGED <<history, wire, video, latest, frame, img>>
      BY <2>3 DEF Rebuild, CaptureFails, StoreSize, Look, Click, TakeBatch, Inject, vars, capturer,
                  client, viewing
    <3>2. viewer' = viewer \/ (viewer = "look" /\ viewer' = "take")
      BY <2>3 DEF Rebuild, CaptureFails, StoreSize, Look, Click, TakeBatch, Inject, vars, viewing
    <3>3. ViewerBehind'
      BY <3>1, <3>2 DEF ViewerBehind, InOrder
    <3> QED BY <2>0, <3>1, <3>3, OrderKept DEF UnderWay
  <2>4. CASE SendFrame
    <3>1. UNCHANGED <<history, latest, viewer, img>> /\ frame' = Cursor
      BY <2>4 DEF SendFrame, client, viewing
    <3>2. ViewerBehind'
      BY <3>1 DEF ViewerBehind, InOrder
    <3>3. CASE UnderWay' = UnderWay
      BY <2>0, <3>1, <3>2, <3>3, UnderWayTyped DEF InOrder, QueuesInOrder, EndsInOrder, IsPicture
    <3>4. CASE frame \in Pictures \cup {Cursor} /\ UnderWay' = Append(UnderWay, frame)
      <4>1. /\ Len(UnderWay') = Len(UnderWay) + 1 /\ Len(UnderWay) \in Nat
            /\ UnderWay'[Len(UnderWay) + 1] = frame
            /\ \A i \in 1 .. Len(UnderWay) : UnderWay'[i] = UnderWay[i]
        BY <3>4, UnderWayTyped
      <4>2. \A i \in 1 .. Len(UnderWay') : i \in 1 .. Len(UnderWay) \/ i = Len(UnderWay) + 1
        BY <4>1
      <4>3. QueuesInOrder'
        <5> SUFFICES ASSUME NEW i \in 1 .. Len(UnderWay'), NEW j \in 1 .. Len(UnderWay'), i <= j,
                            IsPicture(UnderWay'[i]), IsPicture(UnderWay'[j])
                     PROVE  UnderWay'[i].of <= UnderWay'[j].of
          BY DEF QueuesInOrder, IsPicture
        <5>1. CASE i \in 1 .. Len(UnderWay) /\ j \in 1 .. Len(UnderWay)
          BY <4>1, <5>1 DEF InOrder, QueuesInOrder
        <5>2. CASE i \in 1 .. Len(UnderWay) /\ j = Len(UnderWay) + 1
          BY <4>1, <5>2 DEF InOrder, EndsInOrder
        <5>3. CASE i = Len(UnderWay) + 1
          BY <4>1, <4>2, <5>3, UnderWayTyped
        <5> QED BY <4>2, <5>1, <5>2, <5>3
      <4>4. EndsInOrder'
        BY <3>1, <4>1, <4>2, UnderWayTyped DEF InOrder, EndsInOrder, IsPicture
      <4> QED BY <3>2, <4>3, <4>4 DEF InOrder
    <3> QED BY <2>4, <3>3, <3>4, SendAppends
  <2>5. CASE WriterTakes
    <3>1. UNCHANGED <<history, latest, frame, viewer, img>> /\ UnderWay' = UnderWay
      BY <2>5, WriterKeepsOrder DEF WriterTakes, capturer, client, viewing
    <3> QED BY <2>0, <3>1, OrderKept DEF InOrder, ViewerBehind
  <2>6. CASE ClientReads
    <3>1. UNCHANGED <<history, frame, viewer, img>> /\ Len(UnderWay) \in Nat /\ UnderWay # <<>>
      BY <2>6, ClientTakesOldest, UnderWayTyped DEF ClientReads, capturer, viewing
    <3>2. /\ Len(UnderWay') = Len(UnderWay) - 1 /\ 1 \in 1 .. Len(UnderWay)
          /\ \A i \in 1 .. Len(UnderWay') : i + 1 \in 1 .. Len(UnderWay) /\ UnderWay'[i] = UnderWay[i + 1]
      BY <2>6, <3>1, ClientTakesOldest, UnderWayTyped
    <3>3. QueuesInOrder'
      <4> SUFFICES ASSUME NEW i \in 1 .. Len(UnderWay'), NEW j \in 1 .. Len(UnderWay'), i <= j,
                          IsPicture(UnderWay'[i]), IsPicture(UnderWay'[j])
                   PROVE  UnderWay'[i].of <= UnderWay'[j].of
        BY DEF QueuesInOrder, IsPicture
      <4>1. /\ i + 1 \in 1 .. Len(UnderWay) /\ UnderWay'[i] = UnderWay[i + 1]
            /\ j + 1 \in 1 .. Len(UnderWay) /\ UnderWay'[j] = UnderWay[j + 1]
        BY <3>2, Zenon
      <4>2. i + 1 <= j + 1
        <5>1. Len(UnderWay') \in Int
          BY <3>1, <3>2
        <5>2. i \in Int /\ j \in Int
          BY <5>1
        <5> QED BY <5>2
      <4> QED BY <4>1, <4>2 DEF InOrder, QueuesInOrder
    <3>4. CASE Head(wire) = Cursor
      <4>1. latest' = latest
        BY <2>6, <3>4 DEF ClientReads, client
      <4> QED BY <3>1, <3>2, <3>3, <4>1 DEF InOrder, EndsInOrder, ViewerBehind
    <3>5. CASE Head(wire) # Cursor
      <4>1. latest' = UnderWay[1] /\ UnderWay[1] \in Pictures /\ IsPicture(UnderWay[1])
        BY <2>6, <3>5, ClientTakesOldest, UnderWayTyped DEF ClientReads
      <4>2. EndsInOrder'
        BY SMTT(30), <3>1, <3>2, <4>1 DEF InOrder, EndsInOrder, QueuesInOrder
      <4>3. viewer \in {"look", "take"} => latest # None
        BY DEF Typed, FrameTyped
      <4>4. viewer \in {"look", "take"} => img.of <= latest'.of
        <5> HAVE viewer \in {"look", "take"}
        <5>1. img.of <= latest.of /\ img # None /\ latest.of <= UnderWay[1].of
          BY <3>2, <4>1, <4>3 DEF InOrder, EndsInOrder, ViewerBehind
        <5>2. img.of \in Nat /\ latest.of \in Nat /\ UnderWay[1].of \in Nat
          BY <4>1, <4>3, <5>1, UnderWayTyped DEF Typed, TypeOK
        <5> QED BY <4>1, <5>1, <5>2
      <4>5. ViewerBehind'
        BY <3>1, <4>4 DEF InOrder, ViewerBehind
      <4> QED BY <3>3, <4>2, <4>5 DEF InOrder
    <3> QED BY <3>4, <3>5
  <2>7. CASE FirstFrame \/ TakeFrame
    <3>1. UNCHANGED <<history, wire, video, latest, frame>> /\ img' = latest /\ viewer' = "look"
      BY <2>7 DEF FirstFrame, TakeFrame, capturer, client
    <3>2. latest # None /\ latest \in Pictures
      BY <2>7 DEF FirstFrame, TakeFrame, Typed, FrameTyped, TypeOK
    <3>3. ViewerBehind'
      BY <3>1, <3>2 DEF InOrder, EndsInOrder, ViewerBehind, Pictures
    <3> QED BY <2>0, <3>1, <3>3, OrderKept DEF UnderWay
  <2>8. CASE LeaveViewer
    <3>1. /\ wire' = <<>> /\ video' = <<>> /\ UnderWay' = wire' \o video' /\ frame' = Cursor
          /\ latest' = None /\ viewer' = "closed" /\ UNCHANGED <<history, img>>
      BY <2>8 DEF LeaveViewer, UnderWay
    <3>2. Len(UnderWay') = 0
      BY <3>1
    <3> QED BY <3>1, <3>2, UnderWayTyped DEF InOrder, QueuesInOrder, EndsInOrder, ViewerBehind
  <2> QED
    BY <2>1, <2>2, <2>3, <2>4, <2>5, <2>6, <2>7, <2>8 DEF Next, CaptureLoop, Viewer, InputLoop
<1> QED
  BY <1>1, <1>2, PictureTypes, PTL DEF Spec, Typed

\* The picture is a mirror of the screen: each one shown was on the screen, and dropped
\* frames, the two queues and the viewer's separate looks at number and frame never bring
\* an older one back.
THEOREM PictureIsMirror == Spec => MirrorSpec
<1> VideoAssumption
  BY VideoAssumption
<1>1. Init => Mirrored!Init
  BY DEF Init, Mirrored!Init, Shown, VideoAssumption
<1>2. Typed /\ InOrder /\ Typed' /\ InOrder' /\ [Next]_vars => [Mirrored!Next]_<<history, Shown>>
  <2> SUFFICES ASSUME Typed, InOrder, Typed', InOrder', [Next]_vars
               PROVE  [Mirrored!Next]_<<history, Shown>>
    OBVIOUS
  <2>1. CASE ScreenChanges
    <3>1. (\E s \in Screens : history' = Append(history, s)) /\ img' = img
      BY <2>1 DEF ScreenChanges, viewing
    <3> QED BY <3>1 DEF Mirrored!Next, Mirrored!Change, Shown
  <2>2. CASE FirstFrame \/ TakeFrame
    <3>1. /\ img' = latest /\ history' = history /\ latest # None /\ latest \in Pictures
          /\ img \in Pictures \cup {None} /\ latest.of <= Len(history)
      BY <2>2 DEF FirstFrame, TakeFrame, Typed, FrameTyped, TypeOK, InOrder, EndsInOrder
    <3>2. Shown' = latest.of /\ Shown' \in Nat /\ Shown \in Nat /\ Shown <= Shown'
      BY <2>2, <3>1 DEF Shown, Pictures, FirstFrame, TakeFrame, InOrder, ViewerBehind
    <3>3. Shown < Shown' \/ Shown' = Shown
      BY <3>2
    <3> QED BY <3>1, <3>2, <3>3 DEF Mirrored!Next, Mirrored!Show
  <2>3. CASE ~ScreenChanges /\ ~FirstFrame /\ ~TakeFrame
    <3>1. history' = history /\ img' = img
      BY <2>3 DEF Next, CaptureLoop, Viewer, InputLoop, Rebuild, Capture, CaptureFails, StoreSize, SendFrame,
                  WriterTakes, ClientReads, Look, LeaveViewer, Click, TakeBatch, Inject, vars, viewing
    <3> QED BY <3>1 DEF Shown
  <2> QED BY <2>1, <2>2, <2>3
<1> QED
  BY <1>1, <1>2, PictureTypes, PicturesInOrder, PTL DEF Spec, MirrorSpec, Mirrored!Spec

-----------------------------------------------------------------------------
(* Clicks land where they were aimed                                       *)

(* Every whole picture has the width that the screen it shows is scaled    *)
(* to, and the width told to the input thread is that of the same screen   *)
(* or of a later one, however long picture and click were on their way: it *)
(* is stored before the picture is sent. A picture taken while the screen  *)
(* changed its width, with the buffers of the width before, is not whole,  *)
(* and has no place here.                                                  *)
WidthSince(n, w) == \E k \in n .. Len(history) : w = history[k].w
ToldSince(n, w) == \E k \in n .. Len(history) : w = Scaled(history[k].w)
Fits(m) == m.of \in 1 .. Len(history) /\ (Whole(m) => m.w = Scaled(history[m.of].w))
Told(m, w) == Whole(m) => ToldSince(m.of, w)
Built(m) == Whole(m) => WidthSince(m.of, cap.w)

\* All that a click may still come of.
Kept == (Range(UnderWay) \cup {latest, img} \cup Range(clicks)) \ {Cursor, None}

PictureFits(m) ==
  Fits(m) /\ Told(m, frame_w) /\ (capture_loop \in {"blit", "store"} => Built(m))

FrameFits ==
  frame # Cursor => /\ Fits(frame)
                    /\ capture_loop = "store" => Built(frame)
                    /\ capture_loop = "send" => Told(frame, frame_w)

BatchFits == \A c \in Range(batch) : Fits(c) /\ Told(c, fsize)

ClicksInside == \A c \in Range(clicks) \cup Range(batch) : c.x < c.w

WidthsTold ==
  /\ \A m \in Kept : PictureFits(m)
  /\ FrameFits /\ BatchFits /\ ClicksInside

\* What is kept is as it was while history, told width and buffers stay, or the buffers'
\* width is of no concern.
LEMMA FitsStill ==
  ASSUME NEW m, NEW l, PictureFits(l), m.of = l.of, m.w = l.w, m.cw = l.cw, history' = history, frame_w' = frame_w,
         capture_loop' \in {"blit", "store"} => capture_loop \in {"blit", "store"} /\ cap' = cap
  PROVE  PictureFits(m)'
  BY DEF PictureFits, Fits, Told, Built, Whole, ToldSince, WidthSince, Scaled

\* The same for the message in the capture loop's hands.
LEMMA FrameFitsStill ==
  ASSUME FrameFits, UNCHANGED <<history, frame_w, frame, capture_loop, cap>>
  PROVE  FrameFits'
  BY DEF FrameFits, Fits, Told, Built, Whole, ToldSince, WidthSince, Scaled

\* And for the clicks that the input thread has in hand.
LEMMA BatchFitsStill ==
  ASSUME BatchFits, UNCHANGED <<history, fsize, batch>>
  PROVE  BatchFits'
  BY DEF BatchFits, Fits, Told, Whole, ToldSince, Scaled

LEMMA RangeAppends ==
  ASSUME NEW S, NEW s \in Seq(S), NEW e
  PROVE  Range(Append(s, e)) = Range(s) \cup {e}
<1> DEFINE t == Append(s, e)
<1>1. /\ DOMAIN t = 1 .. Len(s) + 1 /\ DOMAIN s = 1 .. Len(s) /\ Len(s) \in Nat
      /\ t[Len(s) + 1] = e /\ \A i \in 1 .. Len(s) : t[i] = s[i]
  OBVIOUS
<1> HIDE DEF t
<1>2. Range(t) = {t[i] : i \in 1 .. Len(s) + 1} /\ Range(s) = {s[i] : i \in 1 .. Len(s)}
  BY <1>1 DEF Range
<1>3. \A i \in 1 .. Len(s) + 1 : i \in 1 .. Len(s) \/ i = Len(s) + 1
  BY <1>1
<1>4. ASSUME NEW m \in Range(t) PROVE m \in Range(s) \cup {e}
  BY <1>1, <1>2, <1>3
<1>5. Range(s) \subseteq Range(t)
  BY <1>1, <1>2
<1>6. e \in Range(t)
  BY <1>1, <1>2
<1> QED BY <1>4, <1>5, <1>6 DEF t

\* All that is kept is a picture or a click, and so has a number and a width.
LEMMA KeptTyped ==
  ASSUME Typed
  PROVE  /\ Kept \subseteq Pictures \cup Clicks
         /\ \A m \in Pictures \cup Clicks :
              m.of \in Nat /\ m.w \in Nat \ {0} /\ m.cw \in Nat \ {0} /\ m \notin {Cursor, None}
         /\ Range(batch) \subseteq Clicks /\ Range(clicks) \subseteq Clicks
<1>1. Range(UnderWay) \subseteq Pictures \cup {Cursor}
  BY UnderWayTyped DEF Range
<1>2. Range(batch) \subseteq Clicks /\ Range(clicks) \subseteq Clicks
  BY DEF Typed, TypeOK, Range
<1>3. latest \in Pictures \cup {None} /\ img \in Pictures \cup {None}
  BY DEF Typed, TypeOK
<1>4. \A m \in Pictures : m.of \in Nat /\ m.w \in Nat \ {0} /\ m.cw \in Nat \ {0} /\ m \notin {Cursor, None}
  BY DEF Pictures, Cursor, None
<1>5. \A m \in Clicks : m.of \in Nat /\ m.w \in Nat \ {0} /\ m.cw \in Nat \ {0} /\ m \notin {Cursor, None}
  BY DEF Clicks, Cursor, None
<1> QED BY <1>1, <1>2, <1>3, <1>4, <1>5 DEF Kept

\* The width is told before the picture is sent, and never an outdated one.
THEOREM WidthsAreTold == Spec => []WidthsTold
<1> VideoAssumption
  BY VideoAssumption
<1>1. Init => WidthsTold
  <2> SUFFICES ASSUME Init PROVE WidthsTold
    OBVIOUS
  <2>1. Range(<<>>) = {} /\ UnderWay = <<>>
    BY DEF Range, UnderWay, Init
  <2>2. Kept = {}
    BY <2>1, Zenon DEF Kept, Init
  <2> QED BY <2>1, <2>2 DEF WidthsTold, FrameFits, BatchFits, ClicksInside, Init
<1>2. Typed /\ WidthsTold /\ [Next]_vars => WidthsTold'
  <2> SUFFICES ASSUME Typed, WidthsTold, [Next]_vars PROVE WidthsTold'
    OBVIOUS
  <2>0. /\ history \in Seq(Screens) /\ Len(history) \in Nat \ {0} /\ screen = history[Len(history)]
        /\ \A n \in 1 .. Len(history) : history[n].w \in Nat \ {0}
    BY ScreenTyped DEF Typed, TypeOK
  <2>1. CASE ScreenChanges
    <3>1. /\ UNCHANGED <<cap, capture_loop, frame, frame_w, wire, video, latest, img, clicks, batch, fsize>>
          /\ Len(history') = Len(history) + 1
          /\ \A k \in 1 .. Len(history) : history'[k] = history[k]
      BY <2>0, <2>1 DEF ScreenChanges, capturer, client, viewing, injector
    <3>2. Kept' = Kept
      BY <3>1 DEF Kept, UnderWay
    <3>3. ASSUME NEW m, Fits(m)
          PROVE  /\ m.of \in 1 .. Len(history') /\ m.of \in Nat \ {0}
                 /\ Whole(m)' <=> Whole(m)
                 /\ Whole(m)' => m.w = Scaled(history'[m.of].w)
      BY <2>0, <3>1, <3>3 DEF Fits, Whole
    <3>4. ASSUME NEW n \in Nat \ {0}, NEW w, WidthSince(n, w)
          PROVE  \E k \in n .. Len(history') : w = history'[k].w
      <4>1. PICK k \in n .. Len(history) : w = history[k].w
        BY <3>4 DEF WidthSince
      <4> QED BY <2>0, <3>1, <4>1
    <3>5. ASSUME NEW n \in Nat \ {0}, NEW w, ToldSince(n, w)
          PROVE  \E k \in n .. Len(history') : w = Scaled(history'[k].w)
      <4>1. PICK k \in n .. Len(history) : w = Scaled(history[k].w)
        BY <3>5 DEF ToldSince
      <4> QED BY <2>0, <3>1, <4>1
    <3>9. ASSUME NEW m, Fits(m) PROVE Fits(m)'
      BY <3>3, <3>9 DEF Fits, Scaled
    <3>10. ASSUME NEW m, Fits(m), NEW w, Told(m, w)
           PROVE  Whole(m)' => \E k \in m.of .. Len(history') : w = Scaled(history'[k].w)
      BY <3>3, <3>5, <3>10 DEF Told
    <3>11. ASSUME NEW m, Fits(m), Built(m) PROVE Built(m)'
      <4>1. Whole(m)' => \E k \in m.of .. Len(history') : cap.w = history'[k].w
        BY <3>3, <3>4, <3>11 DEF Built
      <4> QED BY <3>1, <4>1 DEF Built, WidthSince
    <3>12. ASSUME NEW m, Fits(m), Told(m, frame_w) PROVE Told(m, frame_w)'
      <4>1. Whole(m)' => \E k \in m.of .. Len(history') : frame_w = Scaled(history'[k].w)
        BY <3>10, <3>12
      <4> QED BY <3>1, <4>1 DEF Told, ToldSince, Scaled
    <3>6. \A m \in Kept' : PictureFits(m)'
      <4> SUFFICES ASSUME NEW m \in Kept PROVE PictureFits(m)'
        BY <3>2
      <4>1. PictureFits(m)
        BY DEF WidthsTold
      <4> QED BY <3>1, <3>9, <3>11, <3>12, <4>1 DEF PictureFits
    <3>7. FrameFits'
      <4> SUFFICES ASSUME frame # Cursor PROVE FrameFits'
        BY <3>1 DEF FrameFits
      <4>1. FrameFits /\ Fits(frame)
        BY DEF WidthsTold, FrameFits
      <4>2. Fits(frame)'
        BY <3>1, <3>9, <4>1 DEF Fits, Whole, Scaled
      <4>3. capture_loop = "store" => Built(frame)'
        BY <3>1, <3>11, <4>1 DEF FrameFits, Built, Whole, WidthSince
      <4>4. capture_loop = "send" => Told(frame, frame_w)'
        BY <3>1, <3>12, <4>1 DEF FrameFits, Told, Whole, ToldSince, Scaled
      <4> QED BY <3>1, <4>2, <4>3, <4>4 DEF FrameFits
    <3>8. BatchFits'
      <4> SUFFICES ASSUME NEW c \in Range(batch) PROVE Fits(c)' /\ Told(c, fsize)'
        BY <3>1 DEF BatchFits
      <4>1. Fits(c) /\ Told(c, fsize)
        BY DEF WidthsTold, BatchFits
      <4>2. Whole(c)' => \E k \in c.of .. Len(history') : fsize = Scaled(history'[k].w)
        BY <3>10, <4>1
      <4> QED BY <3>1, <3>9, <4>1, <4>2 DEF Told, ToldSince, Scaled
    <3> QED BY <3>1, <3>6, <3>7, <3>8 DEF WidthsTold, ClicksInside
  <2>11. CASE Rebuild
    <3>1. /\ UNCHANGED <<history, frame, frame_w, wire, video, latest, img, clicks, batch, fsize>>
          /\ cap' = Rebuilt /\ capture_loop' = "blit" /\ frame = Cursor
      BY <2>11 DEF Rebuild, client, viewing, injector, Typed, FrameTyped
    <3>2. cap'.w = history[Len(history)].w
      BY <2>0, <3>1, RebuiltTyped DEF Typed
    <3>4. Kept' = Kept
      BY <3>1 DEF Kept, UnderWay
    <3>5. \A m \in Kept' : PictureFits(m)'
      <4> SUFFICES ASSUME NEW m \in Kept PROVE PictureFits(m)'
        BY <3>4
      <4>1. Fits(m) /\ Told(m, frame_w)
        BY DEF WidthsTold, PictureFits
      <4>2. Fits(m)' /\ Told(m, frame_w)'
        BY <3>1, <4>1 DEF Fits, Told, Whole, ToldSince, Scaled
      <4>3. Built(m)'
        BY <2>0, <3>1, <3>2, <4>1 DEF Fits, Built, WidthSince
      <4> QED BY <4>2, <4>3 DEF PictureFits
    <3> QED BY <3>1, <3>5, BatchFitsStill DEF WidthsTold, ClicksInside, FrameFits
  <2>2. CASE Capture
    <3>1. /\ UNCHANGED <<history, cap, frame_w, wire, video, latest, img, clicks, batch, fsize>>
          /\ capture_loop = "blit" /\ capture_loop' = "store" /\ cap # NoBuffers
          /\ frame' \in {Taken, Cursor, [Taken EXCEPT !.kind = "none"]}
      BY <2>2 DEF Capture, client, viewing, injector, Typed, TypeOK
    <3>2. /\ Taken \in Pictures /\ Taken.of = Len(history)
          /\ Taken.w = Scaled(cap.w) /\ Taken.cw = cap.w
      BY <3>1, CaptureTakes DEF Typed
    <3>3. Kept' = Kept
      BY <3>1 DEF Kept, UnderWay
    <3>4. \A m \in Kept' : PictureFits(m)'
      BY <3>1, <3>3, FitsStill DEF WidthsTold
    <3>5. frame' # Cursor => frame'.of = Len(history) /\ frame'.w = Scaled(cap.w) /\ frame'.cw = cap.w
      BY <3>1, <3>2 DEF Pictures
    <3>6. FrameFits'
      BY <2>0, <3>1, <3>5 DEF FrameFits, Fits, Built, Whole, WidthSince, Scaled
    <3> QED BY <3>1, <3>4, <3>6, BatchFitsStill DEF WidthsTold, ClicksInside
  <2>3. CASE CaptureFails
    <3>1. /\ UNCHANGED <<history, frame, frame_w, wire, video, latest, img, clicks, batch, fsize>>
          /\ capture_loop' = "capture" /\ frame = Cursor
      BY <2>3 DEF CaptureFails, client, viewing, injector, Typed, FrameTyped
    <3>2. Kept' = Kept
      BY <3>1 DEF Kept, UnderWay
    <3>3. \A m \in Kept' : PictureFits(m)'
      BY <3>1, <3>2, FitsStill DEF WidthsTold
    <3> QED BY <3>1, <3>3, BatchFitsStill DEF WidthsTold, ClicksInside, FrameFits
  <2>4. CASE StoreSize
    <3>1. /\ UNCHANGED <<history, cap, frame, wire, video, latest, img, clicks, batch, fsize>>
          /\ capture_loop = "store" /\ capture_loop' = "send" /\ frame_w' = Scaled(cap.w)
      BY <2>4 DEF StoreSize, client, viewing, injector
    <3>2. Kept' = Kept
      BY <3>1 DEF Kept, UnderWay
    <3>3. \A m \in Kept' : PictureFits(m)'
      BY <3>1, <3>2 DEF WidthsTold, PictureFits, Fits, Told, Built, Whole, ToldSince, WidthSince, Scaled
    <3>4. FrameFits'
      BY <3>1 DEF WidthsTold, FrameFits, Fits, Told, Built, Whole, ToldSince, WidthSince, Scaled
    <3> QED BY <3>1, <3>3, <3>4, BatchFitsStill DEF WidthsTold, ClicksInside
  <2>5. CASE SendFrame
    <3>1. /\ UNCHANGED <<history, cap, frame_w, wire, latest, img, clicks, batch, fsize>>
          /\ capture_loop = "send" /\ capture_loop' = "capture" /\ frame' = Cursor
      BY <2>5 DEF SendFrame, client, viewing, injector
    <3>2. Range(UnderWay') \subseteq Range(UnderWay) \cup {frame}
      BY <2>5, SendAppends, UnderWayTyped DEF Range
    <3>3. Kept' \subseteq Kept \cup ({frame} \ {Cursor})
      BY <3>1, <3>2 DEF Kept
    <3>4. frame # Cursor => Fits(frame) /\ Told(frame, frame_w)
      BY <3>1 DEF WidthsTold, FrameFits
    <3>5. \A m \in Kept' : PictureFits(m)'
      <4> SUFFICES ASSUME NEW m \in Kept' PROVE PictureFits(m)'
        OBVIOUS
      <4>1. Fits(m) /\ Told(m, frame_w)
        BY <3>3, <3>4 DEF WidthsTold, PictureFits
      <4> QED BY <3>1, <4>1 DEF PictureFits, Fits, Told, Whole, ToldSince, Scaled
    <3> QED BY <3>1, <3>5, BatchFitsStill DEF WidthsTold, ClicksInside, FrameFits
  <2>6. CASE WriterTakes \/ ClientReads \/ FirstFrame \/ Look \/ TakeFrame \/ UNCHANGED vars
    <3>1. UNCHANGED <<history, cap, capture_loop, frame, frame_w, clicks, batch, fsize>>
      BY <2>6 DEF WriterTakes, ClientReads, FirstFrame, Look, TakeFrame, vars, capturer, injector
    <3>2. Kept' \subseteq Kept
      <4>1. CASE WriterTakes
        BY <4>1, WriterKeepsOrder DEF WriterTakes, client, viewing, Kept
      <4>2. CASE ClientReads
        <5>1. Range(UnderWay') \subseteq Range(UnderWay) /\ UnderWay[1] \in Range(UnderWay)
          <6>1. Range(UnderWay) = {UnderWay[i] : i \in 1 .. Len(UnderWay)}
            BY UnderWayTyped DEF Range
          <6>2. Range(UnderWay') = {UnderWay'[i] : i \in 1 .. Len(UnderWay')}
            BY <4>2, ClientTakesOldest DEF Range
          <6>3. Len(UnderWay) \in Nat \ {0} /\ Len(UnderWay') = Len(UnderWay) - 1
            BY <4>2, ClientTakesOldest, UnderWayTyped
          <6>4. ASSUME NEW i \in 1 .. Len(UnderWay') PROVE UnderWay'[i] \in Range(UnderWay)
            <7>1. UnderWay'[i] = UnderWay[i + 1] /\ i + 1 \in 1 .. Len(UnderWay)
              BY <4>2, <6>3, ClientTakesOldest
            <7> QED BY <6>1, <7>1
          <6>5. Range(UnderWay') \subseteq Range(UnderWay)
            BY <6>2, <6>4, Zenon
          <6>6. 1 \in 1 .. Len(UnderWay)
            BY <6>3
          <6> QED BY <6>1, <6>5, <6>6, Zenon
        <5>2. latest' \in {latest, UnderWay[1]} /\ img' = img
          BY <4>2, ClientTakesOldest DEF ClientReads, client, viewing
        <5> QED BY <3>1, <5>1, <5>2 DEF Kept
      <4>3. CASE FirstFrame \/ Look \/ TakeFrame \/ UNCHANGED vars
        <5>1. UNCHANGED <<wire, video, latest>> /\ img' \in {img, latest}
          BY <4>3 DEF FirstFrame, Look, TakeFrame, vars, client, viewing
        <5> QED BY <3>1, <5>1 DEF Kept, UnderWay
      <4> QED BY <2>6, <4>1, <4>2, <4>3
    <3>3. \A m \in Kept' : PictureFits(m)'
      BY <3>1, <3>2, FitsStill DEF WidthsTold
    <3> QED BY <3>1, <3>3, BatchFitsStill, FrameFitsStill DEF WidthsTold, ClicksInside
  <2>7. CASE LeaveViewer
    <3>1. /\ UNCHANGED <<history, frame_w, img, batch, fsize>>
          /\ capture_loop' = "capture" /\ frame' = Cursor /\ clicks' = <<>> /\ latest' = None
          /\ UnderWay' = <<>>
      BY <2>7 DEF LeaveViewer, injector, UnderWay
    <3>2. Range(<<>>) = {}
      BY DEF Range
    <3>3. Kept' \subseteq Kept
      BY <3>1, <3>2, Zenon DEF Kept
    <3>4. \A m \in Kept' : PictureFits(m)'
      BY <3>1, <3>3, FitsStill DEF WidthsTold
    <3>5. ClicksInside'
      BY <3>1, <3>2 DEF WidthsTold, ClicksInside
    <3> QED BY <3>1, <3>4, <3>5, BatchFitsStill DEF WidthsTold, FrameFits
  <2>8. CASE Click
    <3>1. UNCHANGED <<history, cap, capture_loop, frame, frame_w, wire, video, latest, img, batch, fsize>>
      BY <2>8 DEF Click, capturer, client, viewing, injector
    <3>2. PICK x \in {y \in Columns : y < img.w} :
            clicks' = Append(clicks, [of |-> img.of, w |-> img.w, cw |-> img.cw, shift |-> img.shift, x |-> x])
      BY <2>8 DEF Click
    <3> DEFINE click == [of |-> img.of, w |-> img.w, cw |-> img.cw, shift |-> img.shift, x |-> x]
    <3>3. /\ Range(clicks') = Range(clicks) \cup {click}
          /\ click.of = img.of /\ click.w = img.w /\ click.cw = img.cw /\ click.x = x /\ x < img.w
      <4>1. click.of = img.of /\ click.w = img.w /\ click.cw = img.cw /\ click.x = x /\ x < img.w
        BY <3>2
      <4> HIDE DEF click
      <4>2. clicks' = Append(clicks, click) /\ clicks \in Seq(Clicks)
        BY <3>2 DEF click, Typed, TypeOK
      <4> QED BY <4>1, <4>2, RangeAppends
    <3>4. img \in Kept
      BY <2>8, KeptTyped DEF Click, Kept, Typed, TypeOK
    <3>5. click.x < click.w
      BY <3>3, <3>4, KeptTyped
    <3> HIDE DEF click
    <3>6. Kept' \subseteq Kept \cup {click}
      BY <3>1, <3>3 DEF Kept, UnderWay
    <3>7. \A m \in Kept' : PictureFits(m)'
      BY <3>1, <3>3, <3>4, <3>6, FitsStill DEF WidthsTold
    <3>8. ClicksInside'
      BY <3>1, <3>3, <3>5 DEF WidthsTold, ClicksInside
    <3> QED BY <3>1, <3>7, <3>8, BatchFitsStill, FrameFitsStill DEF WidthsTold
  <2>9. CASE TakeBatch
    <3>1. /\ UNCHANGED <<history, cap, capture_loop, frame, frame_w, wire, video, latest, img>>
          /\ fsize' = frame_w
      BY <2>9 DEF TakeBatch, capturer, client, viewing
    <3> DEFINE n == IF Len(clicks) < BatchMax THEN Len(clicks) ELSE BatchMax
    <3>2. /\ n \in Nat /\ n <= Len(clicks) /\ clicks \in Seq(Clicks)
          /\ batch' = SubSeq(clicks, 1, n)
          /\ clicks' = SubSeq(clicks, n + 1, Len(clicks))
      BY <2>9 DEF TakeBatch, Typed, TypeOK, VideoAssumption
    <3> HIDE DEF n
    <3>3. Range(batch') \subseteq Range(clicks) /\ Range(clicks') \subseteq Range(clicks)
      BY <3>2 DEF Range
    <3>4. Kept' \subseteq Kept
      BY <3>1, <3>3 DEF Kept, UnderWay
    <3>5. \A m \in Kept' : PictureFits(m)'
      BY <3>1, <3>4, FitsStill DEF WidthsTold
    <3>6. \A c \in Range(batch') : c \in Kept
      BY <3>3, KeptTyped DEF Kept
    <3>7. BatchFits'
      BY <3>1, <3>6 DEF WidthsTold, BatchFits, PictureFits, Fits, Told, Whole, ToldSince, Scaled
    <3>8. ClicksInside'
      BY <3>3 DEF WidthsTold, ClicksInside
    <3> QED BY <3>1, <3>5, <3>7, <3>8, FrameFitsStill DEF WidthsTold
  <2>10. CASE Inject
    <3>1. /\ UNCHANGED <<history, cap, capture_loop, frame, frame_w, wire, video, latest, img, clicks>>
          /\ batch' = Tail(batch) /\ batch # <<>> /\ batch \in Seq(Clicks)
          /\ fsize' = IF batch' = <<>> THEN 0 ELSE fsize
      BY <2>10 DEF Inject, capturer, client, viewing, Typed, TypeOK
    <3>2. Range(batch') \subseteq Range(batch)
      BY <3>1 DEF Range
    <3>3. BatchFits'
      <4>1. CASE batch' = <<>>
        BY <4>1 DEF BatchFits, Range
      <4>2. CASE batch' # <<>>
        BY <3>1, <3>2, <4>2 DEF WidthsTold, BatchFits, Fits, Told, Whole, ToldSince, Scaled
      <4> QED BY <4>1, <4>2
    <3>4. Kept' = Kept
      BY <3>1 DEF Kept, UnderWay
    <3>5. \A m \in Kept' : PictureFits(m)'
      BY <3>1, <3>4, FitsStill DEF WidthsTold
    <3>6. ClicksInside'
      BY <3>1, <3>2 DEF WidthsTold, ClicksInside
    <3> QED BY <3>1, <3>3, <3>5, <3>6, FrameFitsStill DEF WidthsTold
  <2> QED
    BY <2>1, <2>2, <2>3, <2>4, <2>5, <2>6, <2>7, <2>8, <2>9, <2>10, <2>11
       DEF Next, CaptureLoop, Viewer, InputLoop
<1> QED
  BY <1>1, <1>2, PictureTypes, PTL DEF Spec

\* Scaling there and back: the point a column is injected at is one of those that the
\* column was made from, for any two widths and any rounding.
LEMMA LandsInside ==
  ASSUME NEW x \in Nat, NEW fw \in Nat \ {0}, NEW w \in Nat \ {0}
  PROVE  (x * w) \div fw <= ((x + 1) * w + fw - 1) \div fw - 1
<1> DEFINE a == x * w
<1> DEFINE q == a \div fw
<1> DEFINE b == (x + 1) * w + fw - 1
<1>1. a \in Nat /\ b = a + w + fw - 1
  OBVIOUS
<1>2. q \in Nat /\ fw * q <= a
  BY <1>1
<1>3. b >= fw * q + fw
  BY <1>1, <1>2
<1>4. fw * q + fw = fw * (q + 1)
  BY <1>2
<1>5. b \div fw >= q + 1
  BY <1>1, <1>2, <1>3, <1>4
<1> QED BY <1>2, <1>5

\* A column of the picture stands for columns of the screen it shows.
LEMMA ScaledUpInside ==
  ASSUME NEW x \in Nat, NEW fw \in Nat \ {0}, NEW w \in Nat \ {0}, x + 1 <= fw
  PROVE  (x * w) \div fw \in Nat /\ (x * w) \div fw < w
<1> DEFINE a == x * w
<1> DEFINE q == a \div fw
<1>1. a \in Nat /\ a + w = (x + 1) * w /\ (x + 1) * w <= fw * w
  OBVIOUS
<1> HIDE DEF a
<1>2. q \in Nat /\ fw * q <= a /\ fw * q \in Nat
  BY <1>1
<1> HIDE DEF q
<1>3. q < w
  <2>1. SUFFICES ASSUME q >= w PROVE FALSE
    BY <1>2
  <2>2. fw * q >= fw * w
    BY <1>2, <2>1
  <2> QED BY <1>1, <1>2, <2>2
<1> QED BY <1>2, <1>3 DEF q, a

\* Scaling up to SendInput's steps and back to columns, with both roundings, ends at the
\* column it began with or at the one before it, as there are more steps than columns.
LEMMA StepsAndBack ==
  ASSUME VideoAssumption, NEW s \in Nat \ {0}, 2 * s <= Steps, NEW f \in Nat, f < s
  PROVE  PixelOf(norm(f, s), s) \in {f - 1, f} /\ PixelOf(norm(f, s), s) \in Nat
<1> DEFINE n == norm(f, s)
<1> DEFINE t == Steps - 1
<1>0. Steps \in Nat /\ t \in Nat /\ Steps = t + 1 /\ s <= t
  BY DEF VideoAssumption
<1>1. CASE s = 1
  <2>1. f = 0 /\ Smaller(f, s - 1) = 0
    BY <1>1 DEF Smaller
  <2>2. n = 0
    BY <1>0, <1>1, <2>1 DEF norm
  <2>3. n * s = 0
    BY <1>1, <2>2
  <2> HIDE DEF n
  <2>4. (n * s) \div Steps = 0
    BY <1>0, <1>1, <2>3
  <2> QED BY <2>1, <2>4 DEF PixelOf, n
<1>2. CASE s > 1
  <2> DEFINE d == s - 1
  <2>1. d \in Nat \ {0} /\ s = d + 1 /\ f <= d /\ d < t
    BY <1>0, <1>2
  <2>2. n = (f * t) \div d
    <3>1. Smaller(f, s - 1) = f
      BY <2>1 DEF Smaller
    <3>2. (IF s > 2 THEN s - 1 ELSE 1) = d
      BY <1>2
    <3> QED BY <3>1, <3>2 DEF norm
  <2> HIDE DEF d, n, t
  <2>3. f * t \in Nat
    BY <1>0
  <2>4. n \in Nat /\ n * d <= f * t /\ f * t < n * d + d /\ n * d \in Nat
    BY <2>1, <2>2, <2>3
  <2>5. n <= t
    <3>1. SUFFICES ASSUME n >= t + 1 PROVE FALSE
      BY <1>0, <2>4
    <3>2. n * d >= (t + 1) * d
      BY <1>0, <2>1, <2>4, <3>1
    <3>3. (t + 1) * d = t * d + d /\ t * d \in Nat
      BY <1>0, <2>1
    <3>4. f * t <= t * d
      BY <1>0, <2>1
    <3> QED BY <2>1, <2>3, <2>4, <3>2, <3>3, <3>4
  <2>6. n >= f
    <3>1. SUFFICES ASSUME n + 1 <= f PROVE FALSE
      BY <2>4
    <3>2. (n + 1) * d <= f * d
      BY <2>1, <2>4, <3>1
    <3>3. f * d <= f * t
      BY <1>0, <2>1
    <3>4. (n + 1) * d = n * d + d /\ f * d \in Nat
      BY <2>1, <2>4
    <3> QED BY <2>1, <2>3, <2>4, <3>2, <3>3, <3>4
  <2>7. n * s = n * d + n /\ n * s \in Nat
    BY <2>1, <2>4
  <2>8. Steps * f = f * t + f /\ Steps * f \in Nat
    BY <1>0
  <2>9. n * s < Steps * f + Steps /\ Steps * f < n * s + Steps
    BY <1>0, <2>1, <2>3, <2>4, <2>5, <2>6, <2>7, <2>8
  <2> DEFINE p == PixelOf(n, s)
  <2>10. p \in Nat /\ Steps * p <= n * s /\ n * s < Steps * p + Steps /\ Steps * p \in Nat
    BY <1>0, <2>1, <2>7 DEF PixelOf
  <2> HIDE DEF p
  <2>11. p <= f
    <3>1. SUFFICES ASSUME p >= f + 1 PROVE FALSE
      BY <2>10
    <3>2. Steps * p >= Steps * (f + 1) /\ Steps * (f + 1) = Steps * f + Steps
      BY <1>0, <2>10, <3>1
    <3> QED BY <1>0, <2>7, <2>8, <2>9, <2>10, <3>2
  <2>12. p >= f - 1
    <3>1. SUFFICES ASSUME p + 2 <= f PROVE FALSE
      BY <2>10
    <3>2. Steps * (p + 2) <= Steps * f /\ Steps * (p + 2) = Steps * p + Steps + Steps
      BY <1>0, <2>10, <3>1
    <3> QED BY <1>0, <2>7, <2>8, <2>9, <2>10, <3>2
  <2> QED BY <2>10, <2>11, <2>12 DEF p, n
<1> QED BY <1>1, <1>2

\* A click lands on a pixel that its column was made from or on the one to the left of
\* them, if the monitors have not changed since the picture was taken and it was taken
\* with the screen's own width and origin: however many frames were dropped or are on
\* their way, no outdated size is used, and no screen is wide enough for the roundings to
\* lose more.
THEOREM ClicksLandWhereAimed == Spec => ClicksLand
<1> VideoAssumption
  BY VideoAssumption
<1>1. ASSUME Typed, WidthsTold, batch # <<>>, SameMonitors(Head(batch).of), Whole(Head(batch))
      PROVE  InjectedAt(Head(batch).x) \in Near(Head(batch))
  <2> DEFINE c == Head(batch)
  <2>1. c \in Range(batch) /\ c \in Clicks
    BY <1>1, KeptTyped DEF Typed, TypeOK, Range
  <2>2. /\ c.of \in 1 .. Len(history) /\ c.w = Scaled(history[c.of].w)
        /\ ToldSince(c.of, fsize) /\ c.x < c.w
    BY <1>1, <2>1 DEF WidthsTold, BatchFits, ClicksInside, Fits, Told
  <2>3. c.x \in Nat /\ c.w \in Nat \ {0} /\ c.of \in 1 .. Len(history)
    BY <2>1, <2>2 DEF Clicks
  <2> HIDE DEF c
  <2>4. /\ screen = history[Len(history)] /\ Len(history) \in Nat \ {0}
        /\ history[c.of].w \in Nat \ {0} /\ history[c.of].at \in Int
        /\ 2 * history[c.of].w <= Steps
    <3>1. TypeOK
      BY <1>1 DEF Typed
    <3> QED BY <2>3, <3>1, ScreenTyped
  <2>5. SameMonitors(c.of)
    BY <1>1 DEF c
  <2>6. screen.w = history[c.of].w /\ screen.at = history[c.of].at
    BY <2>3, <2>4, <2>5 DEF SameMonitors
  <2>7. fsize = c.w
    BY <2>2, <2>3, <2>5 DEF ToldSince, SameMonitors
  <2>8. Smaller(c.x, fsize - 1) = c.x
    BY <2>2, <2>3, <2>7 DEF Smaller
  <2> DEFINE from == (c.x * history[c.of].w) \div c.w
  <2> DEFINE to == ((c.x + 1) * history[c.of].w + c.w - 1) \div c.w
  <2> DEFINE landed == PixelOf(norm(from, history[c.of].w), history[c.of].w)
  <2>9. InjectedAt(c.x) = history[c.of].at + landed
    BY <2>3, <2>6, <2>7, <2>8 DEF InjectedAt
  <2>10. MadeFrom(c) = {history[c.of].at + p : p \in from .. to - 1}
    BY DEF MadeFrom
  <2>11. from <= to - 1 /\ from \in Int /\ to \in Int
    <3>1. from <= to - 1
      BY <2>3, <2>4, LandsInside
    <3>2. /\ c.x * history[c.of].w \in Int
          /\ (c.x + 1) * history[c.of].w + c.w - 1 \in Int
      <4> DEFINE w == history[c.of].w
      <4>1. w \in Int /\ c.x \in Int /\ c.w \in Int
        BY <2>3, <2>4
      <4> HIDE DEF w
      <4>2. c.x * w \in Int /\ (c.x + 1) * w \in Int
        BY <4>1
      <4>3. (c.x + 1) * w + c.w - 1 \in Int
        BY <4>1, <4>2
      <4> QED BY <4>2, <4>3 DEF w
    <3>3. \A a \in Int : a \div c.w \in Int
      BY <2>3
    <3> QED BY <3>1, <3>2, <3>3
  <2>12. from \in Nat /\ from < history[c.of].w
    <3> DEFINE w == history[c.of].w
    <3>1. w \in Nat \ {0} /\ c.x + 1 <= c.w
      BY <2>2, <2>3, <2>4
    <3> HIDE DEF w
    <3>2. (c.x * w) \div c.w \in Nat /\ (c.x * w) \div c.w < w
      BY <2>3, <3>1, ScaledUpInside
    <3> QED BY <3>2 DEF w
  <2> HIDE DEF from, to
  <2>13. landed \in {from - 1, from} /\ landed \in Nat
    BY <2>4, <2>12, StepsAndBack
  <2> HIDE DEF landed
  <2>14. history[c.of].at + from \in MadeFrom(c)
    BY <2>10, <2>11
  <2>15. history[c.of].at + landed \in Near(c)
    <3>1. CASE landed = from
      BY <2>14, <3>1 DEF Near
    <3>2. CASE landed = from - 1
      <4> DEFINE at == history[c.of].at
      <4>1. at \in Int
        BY <2>4
      <4> HIDE DEF at
      <4>2. at + landed = (at + from) - 1 /\ at + landed >= at
        BY <2>12, <2>13, <3>2, <4>1
      <4> QED BY <2>14, <4>2 DEF Near, at
    <3> QED BY <2>13, <3>1, <3>2
  <2> QED BY <2>9, <2>15 DEF c
<1>2. Typed /\ WidthsTold =>
        [batch # <<>> /\ batch' = Tail(batch) =>
           LET c == Head(batch)
           IN SameMonitors(c.of) /\ Whole(c) /\ c.shift = 0 => InjectedAt(c.x) \in Near(c)]_vars
  BY <1>1, Zenon
<1> QED
  BY <1>2, PictureTypes, WidthsAreTold, PTL DEF ClicksLand

-----------------------------------------------------------------------------
(* The flag of the sessions                                                *)

\* Every step of a task moves it from one known place to another.
LEMMA GotoType ==
  ASSUME SessionTypeOK, NEW c \in Conns, NEW from, NEW to \in Places, Goto(c, from, to)
  PROVE  pc' \in [Conns -> Places]
  BY DEF SessionTypeOK, Goto

\* The types hold in every state, for any set of tasks and hosts.
THEOREM SessionTypes == SessionSpec => []SessionTypeOK
<1>1. SessionInit => SessionTypeOK
  <2> SUFFICES ASSUME SessionInit PROVE SessionTypeOK
    OBVIOUS
  <2>1. connected \in BOOLEAN /\ stopped \in [Conns -> BOOLEAN] /\ writing \in [Conns -> BOOLEAN]
    BY Zenon DEF SessionInit
  <2>2. authFail \in [Hosts -> Nat]
    BY DEF SessionInit
  <2>3. pc \in [Conns -> Places] /\ addr \in [Conns -> Addrs]
    BY DEF SessionInit, Places
  <2>4. peer \in [Conns -> {"live", "silent", "gone"}]
    BY DEF SessionInit
  <2>5. threads \in [Conns -> SUBSET {"loops", "clip", "transfer"}]
    BY DEF SessionInit
  <2> QED BY <2>1, <2>2, <2>3, <2>4, <2>5 DEF SessionTypeOK
<1>2. SessionTypeOK /\ [SessionNext]_SessionVars => SessionTypeOK'
  <2> SUFFICES ASSUME SessionTypeOK, [SessionNext]_SessionVars PROVE SessionTypeOK'
    OBVIOUS
  <2> USE DEF SessionTypeOK
  <2>1. ASSUME NEW c \in Conns, Body(c) PROVE SessionTypeOK'
    <3>1. CASE CheckConnected(c)
      BY <3>1, GotoType DEF CheckConnected, Places
    <3>2. CASE Refuse(c)
      BY <3>2, GotoType DEF Refuse, Places
    <3>3. CASE Enter(c)
      BY <3>3, GotoType DEF Enter, Places, Holding
    <3>4. CASE SendHello(c)
      BY <3>4, GotoType DEF SendHello, Places, Holding
    <3>5. CASE AuthAbort(c)
      BY <3>5, GotoType DEF AuthAbort, Places, Holding
    <3>6. CASE CountFailure(c)
      <4>1. pc' \in [Conns -> Places]
        BY <3>6, GotoType DEF CountFailure, Places, Holding
      <4>2. authFail' \in [Hosts -> Nat]
        BY <3>6 DEF CountFailure, PeerIp, LastField
      <4> QED BY <3>6, <4>1, <4>2 DEF CountFailure
    <3>7. CASE ReadEof(c)
      BY <3>7, GotoType DEF ReadEof, Places, Holding
    <3>8. CASE ReadTimeout(c)
      BY <3>8, GotoType DEF ReadTimeout, BreakLoop, Places, Holding
    <3>9. CASE DrainEnd(c)
      BY <3>9, GotoType DEF DrainEnd, Places, Holding
    <3>10. CASE Leave(c)
      BY <3>10, GotoType DEF Leave, Places
    <3>11. CASE Stop(c)
      BY <3>11, GotoType DEF Stop, Places
    <3> QED
      BY <2>1, <3>1, <3>2, <3>3, <3>4, <3>5, <3>6, <3>7, <3>8, <3>9, <3>10, <3>11 DEF Body
  <2>2. ASSUME NEW c \in Conns, Client(c) PROVE SessionTypeOK'
    <3>1. CASE Accept(c)
      <4>1. pc' \in [Conns -> Places]
        BY <3>1, GotoType DEF Accept, Places
      <4>2. addr' \in [Conns -> Addrs]
        BY <3>1 DEF Accept
      <4> QED BY <3>1, <4>1, <4>2 DEF Accept
    <3>2. ASSUME NEW good \in BOOLEAN, NEW clipboard \in BOOLEAN, Authenticate(c, good, clipboard)
          PROVE SessionTypeOK'
      <4>1. PICK elapsed \in {FALSE, MinutesPass} :
               /\ ResetFail(PeerIp(addr[c]), elapsed)
               /\ LET refused == FailCount(PeerIp(addr[c]), elapsed) >= AUTH_FAIL_LIMIT IN
                  /\ pc' = [pc EXCEPT ![c] = IF refused THEN "leaving"
                                             ELSE IF good THEN "serving" ELSE "counting"]
                  /\ threads' = [threads EXCEPT ![c] =
                       IF good /\ ~refused
                       THEN {"loops"} \cup (IF clipboard THEN {"clip", "poll"} ELSE {})
                       ELSE @]
                  /\ writing' = [writing EXCEPT ![c] = @ \/ (good /\ ~refused)]
        BY <3>2, Zenon DEF Authenticate
      <4> DEFINE refused == FailCount(PeerIp(addr[c]), elapsed) >= AUTH_FAIL_LIMIT
      <4>2. pc' \in [Conns -> Places]
        BY <4>1 DEF Places, Holding
      <4>3. authFail' \in [Hosts -> Nat]
        BY <4>1 DEF ResetFail, PeerIp, LastField
      <4>4. threads' \in [Conns -> SUBSET {"loops", "clip", "poll", "transfer"}]
        BY <4>1
      <4>5. writing' \in [Conns -> BOOLEAN]
        BY <4>1, Zenon
      <4> QED BY <3>2, <4>2, <4>3, <4>4, <4>5 DEF Authenticate
    <3>3. CASE StartTransfer(c)
      BY <3>3 DEF StartTransfer
    <3>4. CASE BadFrame(c)
      BY <3>4, GotoType DEF BadFrame, BreakLoop, Places, Holding
    <3>5. CASE BadLength(c)
      BY <3>5, GotoType DEF BadLength, Places, Holding
    <3>6. CASE \E to \in {"silent", "gone"} : PeerChanges(c, to)
      BY <3>6 DEF PeerChanges
    <3> QED
      BY <2>2, <3>1, <3>2, <3>3, <3>4, <3>5, <3>6 DEF Client
  <2>3. ASSUME NEW c \in Conns, Workers(c) PROVE SessionTypeOK'
    <3>1. ASSUME NEW t \in {"loops", "clip"}, ThreadStops(c, t) PROVE SessionTypeOK'
      BY <3>1 DEF ThreadStops
    <3>2. CASE TransferEnds(c)
      BY <3>2 DEF TransferEnds
    <3>4. CASE PollerEnds(c)
      BY <3>4 DEF PollerEnds
    <3>3. CASE WriterEnds(c)
      <4>1. writing' \in [Conns -> BOOLEAN]
        BY <3>3, Zenon DEF WriterEnds
      <4> QED BY <3>3, <4>1 DEF WriterEnds
    <3> QED
      BY <2>3, <3>1, <3>2, <3>3, <3>4 DEF Workers
  <2>4. CASE UNCHANGED SessionVars
    BY <2>4 DEF SessionVars
  <2> QED
    BY <2>1, <2>2, <2>3, <2>4 DEF SessionNext
<1> QED
  BY <1>1, <1>2, PTL DEF SessionSpec

\* A step that neither stores to the flag nor takes a task out of Holding keeps
\* some holder for the flag.
LEMMA HolderKept ==
  ASSUME NoLockout, connected' = connected,
         \A c \in Conns : pc[c] \in Holding => pc'[c] \in Holding
  PROVE  NoLockout'
  BY DEF NoLockout

\* The flag is TRUE only while some task is between its two stores: the worker
\* always becomes free again, whatever error ends a session.
THEOREM FlagHasHolder == SessionSpec => []NoLockout
<1>1. SessionInit => NoLockout
  BY DEF SessionInit, NoLockout
<1>2. SessionTypeOK /\ NoLockout /\ [SessionNext]_SessionVars => NoLockout'
  <2> SUFFICES ASSUME SessionTypeOK, NoLockout, [SessionNext]_SessionVars PROVE NoLockout'
    OBVIOUS
  <2>1. ASSUME NEW c \in Conns, Enter(c) PROVE NoLockout'
    <3>1. pc'[c] = "hello"
      BY <2>1 DEF Enter, Goto, SessionTypeOK
    <3> QED BY <3>1 DEF NoLockout, Holding
  <2>2. ASSUME NEW c \in Conns, Leave(c) PROVE NoLockout'
    BY <2>2 DEF Leave, NoLockout
  <2>3. ASSUME NEW c \in Conns, Body(c), ~Enter(c), ~Leave(c) PROVE NoLockout'
    <3>1. connected' = connected
      BY <2>3 DEF Body, CheckConnected, Refuse, SendHello, AuthAbort, CountFailure,
                  ReadEof, ReadTimeout, BreakLoop, DrainEnd, Stop
    <3>2. \A d \in Conns : pc[d] \in Holding => pc'[d] \in Holding
      BY <2>3 DEF Body, CheckConnected, Refuse, SendHello, AuthAbort, CountFailure,
                  ReadEof, ReadTimeout, BreakLoop, DrainEnd, Stop, Goto, SessionTypeOK, Holding
    <3> QED BY <3>1, <3>2, HolderKept
  <2>4. ASSUME NEW c \in Conns, Client(c) PROVE NoLockout'
    <3>1. connected' = connected
      BY <2>4 DEF Client, Accept, Authenticate, StartTransfer, BadLength, BadFrame, BreakLoop, PeerChanges
    <3>2. ASSUME NEW good \in BOOLEAN, NEW clipboard \in BOOLEAN, Authenticate(c, good, clipboard)
          PROVE  \A d \in Conns : pc[d] \in Holding => pc'[d] \in Holding
      BY <3>2 DEF Authenticate, SessionTypeOK, Holding
    <3>3. \A d \in Conns : pc[d] \in Holding => pc'[d] \in Holding
      BY <2>4, <3>2 DEF Client, Accept, StartTransfer, BadLength, BadFrame, BreakLoop, PeerChanges,
                        Goto, SessionTypeOK, Holding
    <3> QED BY <3>1, <3>3, HolderKept
  <2>5. ASSUME NEW c \in Conns, Workers(c) PROVE NoLockout'
    BY <2>5 DEF Workers, ThreadStops, PollerEnds, TransferEnds, WriterEnds, NoLockout
  <2>6. CASE UNCHANGED SessionVars
    BY <2>6 DEF SessionVars, NoLockout
  <2> QED
    BY <2>1, <2>2, <2>3, <2>4, <2>5, <2>6 DEF SessionNext
<1> QED
  BY <1>1, <1>2, SessionTypes, PTL DEF SessionSpec

=============================================================================
