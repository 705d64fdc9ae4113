---------------------------- MODULE ClientProofs ----------------------------
(***************************************************************************)
(* What a person at the client relies on, for any texts, keys, buttons,    *)
(* hosts and bounds: when a copied text can be sent back to the side that  *)
(* wrote it; which keys and buttons are down on the controlled machine,    *)
(* and when the secure attention sequence is asked for; and, before there  *)
(* is a connection, what the list of hosts shows and keeps.  The three     *)
(* components share the lemmas on sequences and nothing else.              *)
(***************************************************************************)
EXTENDS Clipboard, Input, HostList, SequenceTheorems, WellFoundedInduction, TLAPS

-----------------------------------------------------------------------------
(* The clipboard                                                           *)

\* The types hold after a step of a person or of the lock screen.
LEMMA PersonType ==
  ASSUME ClipTypeOK, LockScreen \/ \E s \in Sides, t \in Texts : Copy(s, t)
  PROVE  ClipTypeOK'
<1> USE DEF server, client, history
<1>1. CASE LockScreen
  BY <1>1 DEF LockScreen, ClipTypeOK
<1>2. ASSUME NEW s \in Sides, NEW t \in Texts, Copy(s, t) PROVE ClipTypeOK'
  <2>1. copies' \in 0 .. MaxCopies
    BY <1>2, ClipboardAssumption DEF Copy, ClipTypeOK
  <2>2. clip' \in [Sides -> Contents] /\ author' \in [Sides -> {"person", "sync"}]
    BY <1>2 DEF Copy, ClipTypeOK, Contents
  <2>3. owed' \in BOOLEAN
    BY <1>2, Zenon DEF Copy
  <2> QED BY <1>2, <2>1, <2>2, <2>3 DEF Copy, ClipTypeOK
<1> QED BY <1>1, <1>2

\* Writing to a clipboard, well or not.
LEMMA SetType ==
  ASSUME ClipTypeOK, NEW s \in Sides, NEW t \in Contents,
         SetServer(t) \/ SetClient(t) \/ SetFails(s)
  PROVE  /\ clip' \in [Sides -> Contents] /\ author' \in [Sides -> {"person", "sync"}]
         /\ LAST_LOCAL_SET' \in Contents
         /\ overtaken' \in BOOLEAN /\ owed' \in BOOLEAN
<1>1. owed' \in BOOLEAN
  BY DEF SetServer, SetClient, SetFails, Arrived, ClipTypeOK
<1> QED BY <1>1 DEF SetServer, SetClient, SetFails, ClipTypeOK, Contents, Sides

\* The steps of the server.
LEMMA ServerType ==
  ASSUME ClipTypeOK, PollRead \/ PollCompare \/ ServerReceives PROVE ClipTypeOK'
<1> USE ClipboardAssumption DEF server, client, history
<1>1. CASE PollRead
  BY <1>1 DEF PollRead, ClipTypeOK, Sides
<1>2. CASE PollCompare
  <2>1. Sendable(polled) => polled \in Texts
    BY <1>2 DEF PollCompare, Sendable, ClipTypeOK, Contents
  <2>2. toClient' \in Seq(Texts) /\ last_sent' \in Contents
    BY <1>2, <2>1 DEF PollCompare, ClipTypeOK, Contents
  <2> QED BY <1>2, <2>2 DEF PollCompare, ClipTypeOK
<1>3. CASE ServerReceives
  <2>1. Head(toServer) \in Contents /\ toServer' \in Seq(Texts)
    BY <1>3 DEF ServerReceives, ClipTypeOK, Contents
  <2>2. /\ clip' \in [Sides -> Contents] /\ author' \in [Sides -> {"person", "sync"}]
        /\ LAST_LOCAL_SET' \in Contents
        /\ overtaken' \in BOOLEAN /\ owed' \in BOOLEAN
    BY <1>3, <2>1, SetType DEF ServerReceives, Sides
  <2> QED BY <1>3, <2>1, <2>2 DEF ServerReceives, ClipTypeOK
<1> QED BY <1>1, <1>2, <1>3

\* The steps of the client.
LEMMA ClientType ==
  ASSUME ClipTypeOK, ClientReceives \/ TakeIncoming \/ SendLocal PROVE ClipTypeOK'
<1> USE ClipboardAssumption DEF server, client, history
<1>1. CASE ClientReceives
  BY <1>1 DEF ClientReceives, ClipTypeOK, Contents
<1>2. CASE TakeIncoming
  <2>1. CASE clipboard_in \notin {None, clip_last_set}
    <3>1. clipboard_in \in Contents
      BY <2>1 DEF ClipTypeOK
    <3>2. /\ clip' \in [Sides -> Contents] /\ author' \in [Sides -> {"person", "sync"}]
          /\ LAST_LOCAL_SET' \in Contents
          /\ overtaken' \in BOOLEAN /\ owed' \in BOOLEAN
      BY <1>2, <2>1, <3>1, SetType DEF TakeIncoming, Sides
    <3>3. clip_last_set' \in Contents
      BY <1>2, <2>1, <3>1 DEF TakeIncoming, SetClient, ClipTypeOK
    <3> QED BY <1>2, <3>2, <3>3 DEF TakeIncoming, ClipTypeOK
  <2>2. CASE clipboard_in \in {None, clip_last_set}
    BY <1>2, <2>2 DEF TakeIncoming, ClipTypeOK
  <2> QED BY <2>1, <2>2
<1>3. CASE SendLocal
  <2>1. clip["client"] \in Contents
    BY DEF ClipTypeOK, Sides
  <2>2. CASE clip["client"] \notin {clip_last_sent, clip_last_set, Empty}
    <3>1. clip["client"] \in Texts
      BY <2>1, <2>2 DEF Contents
    <3>2. toServer' = Append(toServer, clip["client"]) /\ clip_last_sent' = clip["client"]
      BY <1>3, <2>2 DEF SendLocal
    <3>3. toServer' \in Seq(Texts)
      BY <3>1, <3>2 DEF ClipTypeOK
    <3> QED BY <1>3, <2>1, <3>2, <3>3 DEF SendLocal, ClipTypeOK
  <2>3. CASE clip["client"] \in {clip_last_sent, clip_last_set, Empty}
    BY <1>3, <2>3 DEF SendLocal, ClipTypeOK
  <2> QED BY <2>2, <2>3
<1> QED BY <1>1, <1>2, <1>3

\* The types hold in every state.
THEOREM ClipTypes == ClipSpec => []ClipTypeOK
<1>1. ASSUME ClipInit PROVE ClipTypeOK
  <2>1. clip \in [Sides -> Contents] /\ author \in [Sides -> {"person", "sync"}]
    BY <1>1 DEF ClipInit
  <2>2. toClient \in Seq(Texts) /\ toServer \in Seq(Texts) /\ copies \in 0 .. MaxCopies
    BY <1>1, ClipboardAssumption DEF ClipInit
  <2>3. {on_secure, applied, overtaken} \subseteq BOOLEAN /\ owed \in BOOLEAN
    BY <1>1, Zenon DEF ClipInit
  <2> QED BY <1>1, <2>1, <2>2, <2>3 DEF ClipInit, ClipTypeOK, Contents
<1>2. ASSUME ClipTypeOK, [ClipNext]_ClipVars PROVE ClipTypeOK'
  BY <1>2, PersonType, ServerType, ClientType
     DEF ClipNext, ClipVars, server, client, history, ClipTypeOK
<1> QED BY <1>1, <1>2, PTL DEF ClipSpec

-----------------------------------------------------------------------------
(* Marks                                                                   *)

\* A text that was written for the peer is the one that is marked; what the polling thread
\* holds is the one marked unless another was written since.
MarkInv ==
  /\ author["server"] = "sync" => clip["server"] = LAST_LOCAL_SET
  /\ author["client"] = "sync" => clip["client"] = clip_last_set
  /\ polled # None /\ polledAuthor = "sync" /\ ~overtaken => polled = LAST_LOCAL_SET

\* Every step keeps the marks true.
LEMMA NextKeepsMarks == ASSUME ClipTypeOK, MarkInv, [ClipNext]_ClipVars PROVE MarkInv'
<1> USE DEF MarkInv, ClipTypeOK, Sides, server, client, history
<1>1. ASSUME NEW s \in Sides, NEW t \in Texts, Copy(s, t) PROVE MarkInv'
  BY <1>1 DEF Copy
<1>2. CASE LockScreen
  BY <1>2 DEF LockScreen
<1>3. CASE PollRead
  BY <1>3 DEF PollRead
<1>4. CASE PollCompare
  BY <1>4 DEF PollCompare
<1>5. CASE ServerReceives
  BY <1>5 DEF ServerReceives, SetServer, SetFails
<1>6. CASE ClientReceives
  BY <1>6 DEF ClientReceives
<1>7. CASE TakeIncoming
  BY <1>7 DEF TakeIncoming, SetClient, SetFails
<1>8. CASE SendLocal
  BY <1>8 DEF SendLocal
<1>9. CASE UNCHANGED ClipVars
  BY <1>9 DEF ClipVars
<1> QED BY <1>1, <1>2, <1>3, <1>4, <1>5, <1>6, <1>7, <1>8, <1>9 DEF ClipNext

\* The marks are true in every state.
LEMMA MarksCorrect == ClipSpec => []MarkInv
<1>1. ClipInit => MarkInv
  BY DEF ClipInit, MarkInv, Sides
<1> QED BY <1>1, ClipTypes, NextKeepsMarks, PTL DEF ClipSpec

\* The server's polling thread sends a text back to the client that wrote it only when
\* another was written between its read and its comparison.
THEOREM ServerEchoes == ClipSpec => EchoOnlyWhenOvertaken
<1>1. ClipTypeOK /\ MarkInv
        => [PollCompare /\ toClient' # toClient /\ polledAuthor = "sync" => overtaken]_ClipVars
  BY DEF PollCompare, Sendable, MarkInv, ClipTypeOK
<1> QED BY <1>1, ClipTypes, MarksCorrect, PTL DEF EchoOnlyWhenOvertaken

\* The viewer never sends a text back to the server it came from.
THEOREM ViewerDoesNotEcho == ClipSpec => NoEchoToServer
<1>1. ASSUME ClipTypeOK, MarkInv, ClipNext, toServer' # toServer, Len(toServer') > Len(toServer)
      PROVE  author["client"] = "person"
  <2>1. CASE SendLocal
    BY <1>1, <2>1 DEF SendLocal, MarkInv, ClipTypeOK, Sides
  <2>2. CASE ServerReceives
    BY <1>1, <2>2 DEF ServerReceives, ClipTypeOK
  <2> QED BY <1>1, <2>1, <2>2 DEF ClipNext, Copy, LockScreen, PollRead, PollCompare,
             ClientReceives, TakeIncoming
<1>2. ClipTypeOK /\ MarkInv /\ [ClipNext]_ClipVars
        => [toServer' # toServer /\ Len(toServer') > Len(toServer)
              => author["client"] = "person"]_ClipVars
  BY <1>1
<1> QED BY <1>2, ClipTypes, MarksCorrect, PTL DEF NoEchoToServer, ClipSpec

-----------------------------------------------------------------------------
(* Sequences of messages                                                   *)

\* A set of naturals that is not empty has a least element,
LEMMA Least ==
  ASSUME NEW T, T \subseteq Nat, T # {}
  PROVE  \E x \in T : \A y \in T : ~(y < x)
<1>1. IsWellFoundedOn(OpToRel(<, Nat), Nat)
  BY NatLessThanWellFounded
<1>2. PICK x \in T : \A y \in T : <<y, x>> \notin OpToRel(<, Nat)
  BY <1>1, WFMin
<1>3. ASSUME NEW y \in T, y < x PROVE <<y, x>> \in OpToRel(<, Nat)
  <2>1. <<y, x>> \in Nat \X Nat /\ <<y, x>>[1] = y /\ <<y, x>>[2] = x
    OBVIOUS
  <2> QED BY <1>3, <2>1 DEF OpToRel
<1> QED BY <1>2, <1>3

\* and a set that holds 0 and with each natural the next one holds them all.
LEMMA Induct ==
  ASSUME NEW S, 0 \in S, \A n \in Nat : n \in S => n + 1 \in S
  PROVE  Nat \subseteq S
<1> SUFFICES ASSUME Nat \ S # {} PROVE FALSE
  OBVIOUS
<1>1. PICK x \in Nat \ S : \A y \in Nat \ S : ~(y < x)
  BY Least
<1>2. x # 0 /\ x - 1 \in Nat /\ x - 1 < x
  BY <1>1
<1>3. x - 1 \in S
  BY <1>1, <1>2
<1>4. (x - 1) + 1 \in S
  BY <1>2, <1>3
<1> QED BY <1>1, <1>4

\* What stands in a sequence.
In(m, s) == \E n \in DOMAIN s : s[n] = m

\* The function by which FlattenSeq is defined exists.
LEMMA FlattenExists ==
  ASSUME NEW ps, NEW N \in Nat
  PROVE  \E g : g = [i \in 1 .. N |-> IF i = 1 THEN ps[i] ELSE g[i - 1] \o ps[i]]
<1> DEFINE S == {n \in Nat :
                   \E g : g = [i \in 1 .. n |-> IF i = 1 THEN ps[i] ELSE g[i - 1] \o ps[i]]}
<1>1. 0 \in S
  <2>1. \A g : [i \in 1 .. 0 |-> IF i = 1 THEN ps[i] ELSE g[i - 1] \o ps[i]] = <<>>
    OBVIOUS
  <2> QED BY <2>1
<1>2. ASSUME NEW n \in Nat, n \in S PROVE n + 1 \in S
  <2>1. PICK f : f = [i \in 1 .. n |-> IF i = 1 THEN ps[i] ELSE f[i - 1] \o ps[i]]
    BY <1>2
  <2> DEFINE next == IF n = 0 THEN ps[1] ELSE f[n] \o ps[n + 1]
             h == [i \in 1 .. n + 1 |-> IF i = n + 1 THEN next ELSE f[i]]
  <2>2. ASSUME NEW i \in 1 .. n + 1 PROVE h[i] = IF i = 1 THEN ps[i] ELSE h[i - 1] \o ps[i]
    <3>1. CASE i = n + 1
      <4>1. h[i] = next /\ (n # 0 => h[i - 1] = f[n])
        BY <3>1
      <4> HIDE DEF h
      <4> QED BY <3>1, <4>1
    <3>2. CASE i # n + 1
      <4>1. i \in 1 .. n /\ h[i] = f[i] /\ (i # 1 => i - 1 \in 1 .. n /\ h[i - 1] = f[i - 1])
        BY <3>2
      <4>2. f[i] = IF i = 1 THEN ps[i] ELSE f[i - 1] \o ps[i]
        BY <2>1, <4>1
      <4> HIDE DEF h
      <4> QED BY <4>1, <4>2
    <3> QED BY <3>1, <3>2
  <2>3. h = [i \in 1 .. n + 1 |-> h[i]]
    OBVIOUS
  <2>4. h = [i \in 1 .. n + 1 |-> IF i = 1 THEN ps[i] ELSE h[i - 1] \o ps[i]]
    <3> DEFINE e(i) == IF i = 1 THEN ps[i] ELSE h[i - 1] \o ps[i]
    <3>1. \A i \in 1 .. n + 1 : h[i] = e(i)
      BY <2>2
    <3> HIDE DEF h, e
    <3>2. [i \in 1 .. n + 1 |-> h[i]] = [i \in 1 .. n + 1 |-> e(i)]
      BY <3>1
    <3>3. h = [i \in 1 .. n + 1 |-> e(i)]
      BY <2>3, <3>2
    <3> QED BY <3>3 DEF e
  <2>5. \E g : g = [i \in 1 .. n + 1 |-> IF i = 1 THEN ps[i] ELSE g[i - 1] \o ps[i]]
    <3> HIDE DEF h
    <3> WITNESS h
    <3> QED BY <2>4
  <2>6. n + 1 \in Nat
    OBVIOUS
  <2> QED BY <2>5, <2>6, Zenon
<1>3. Nat \subseteq S
  <2> HIDE DEF S
  <2> QED BY <1>1, <1>2, Induct
<1> QED BY <1>3

\* In a concatenation stands what stands in one of its parts,
LEMMA InConcat ==
  ASSUME NEW M, NEW s \in Seq(M), NEW t \in Seq(M)
  PROVE  /\ s \o t \in Seq(M)
         /\ \A m : In(m, s \o t) <=> In(m, s) \/ In(m, t)
<1>1. /\ s \o t \in Seq(M) /\ Len(s \o t) = Len(s) + Len(t) /\ Len(s) \in Nat /\ Len(t) \in Nat
      /\ \A n \in 1 .. Len(s) : (s \o t)[n] = s[n]
      /\ \A n \in 1 .. Len(t) : n + Len(s) \in 1 .. Len(s) + Len(t) /\ (s \o t)[n + Len(s)] = t[n]
      /\ \A n \in 1 .. Len(s) + Len(t) : n \notin 1 .. Len(s) =>
           n - Len(s) \in 1 .. Len(t) /\ (s \o t)[n] = t[n - Len(s)]
  OBVIOUS
<1>2. DOMAIN s = 1 .. Len(s) /\ DOMAIN t = 1 .. Len(t) /\ DOMAIN (s \o t) = 1 .. Len(s) + Len(t)
  BY <1>1
<1>3. ASSUME NEW m, In(m, s \o t) PROVE In(m, s) \/ In(m, t)
  <2>1. PICK n \in 1 .. Len(s) + Len(t) : (s \o t)[n] = m
    BY <1>2, <1>3 DEF In
  <2>2. CASE n \in 1 .. Len(s)
    BY <1>1, <1>2, <2>1, <2>2 DEF In
  <2>3. CASE n \notin 1 .. Len(s)
    <3>1. n - Len(s) \in 1 .. Len(t) /\ t[n - Len(s)] = m
      BY <1>1, <2>1, <2>3
    <3> QED BY <1>2, <3>1 DEF In
  <2> QED BY <2>2, <2>3
<1>4. ASSUME NEW m, In(m, s) PROVE In(m, s \o t)
  <2>1. PICK n \in 1 .. Len(s) : s[n] = m
    BY <1>2, <1>4 DEF In
  <2>2. n \in 1 .. Len(s) + Len(t) /\ (s \o t)[n] = m
    BY <1>1, <2>1
  <2> QED BY <1>2, <2>2 DEF In
<1>5. ASSUME NEW m, In(m, t) PROVE In(m, s \o t)
  <2>1. PICK n \in 1 .. Len(t) : t[n] = m
    BY <1>2, <1>5 DEF In
  <2>2. n + Len(s) \in 1 .. Len(s) + Len(t) /\ (s \o t)[n + Len(s)] = m
    BY <1>1, <2>1
  <2> QED BY <1>2, <2>2 DEF In
<1> QED BY <1>1, <1>3, <1>4, <1>5

\* and so of as many as there are; of parts with one element at most it has no more
\* elements than parts.
LEMMA FlattenIs ==
  ASSUME NEW M, NEW ps \in Seq(Seq(M))
  PROVE  /\ FlattenSeq(ps) \in Seq(M)
         /\ \A m : In(m, FlattenSeq(ps)) <=> \E k \in DOMAIN ps : In(m, ps[k])
         /\ (\A k \in DOMAIN ps : Len(ps[k]) <= 1) => Len(FlattenSeq(ps)) <= Len(ps)
<1> DEFINE Short == \A k \in DOMAIN ps : Len(ps[k]) <= 1
           N == Len(ps)
           flat == CHOOSE g : g = [i \in 1 .. N |-> IF i = 1 THEN ps[i] ELSE g[i - 1] \o ps[i]]
<1>1. N \in Nat /\ DOMAIN ps = 1 .. N /\ \A n \in 1 .. N : ps[n] \in Seq(M)
  OBVIOUS
<1>2. CASE N = 0
  <2>1. FlattenSeq(ps) = ps /\ ps = <<>>
    BY <1>2 DEF FlattenSeq
  <2>2. <<>> \in Seq(M) /\ DOMAIN <<>> = {} /\ Len(ps) <= Len(ps)
    OBVIOUS
  <2> QED BY <2>1, <2>2 DEF In
<1>3. CASE N # 0
  <2>1. FlattenSeq(ps) = flat[N]
    BY <1>3 DEF FlattenSeq
  <2>2. flat = [i \in 1 .. N |-> IF i = 1 THEN ps[i] ELSE flat[i - 1] \o ps[i]]
    <3>1. \E g : g = [i \in 1 .. N |-> IF i = 1 THEN ps[i] ELSE g[i - 1] \o ps[i]]
      <4> HIDE DEF N
      <4> QED BY <1>1, FlattenExists
    <3> QED BY <3>1, Zenon
  <2> HIDE DEF flat, N
  <2>3. \A n \in 1 .. N : flat[n] = IF n = 1 THEN ps[n] ELSE flat[n - 1] \o ps[n]
    BY <2>2
  <2> DEFINE Good(n) == /\ flat[n] \in Seq(M)
                        /\ \A m : In(m, flat[n]) <=> \E k \in 1 .. n : In(m, ps[k])
                        /\ Short => Len(flat[n]) <= n
             S == {n \in Nat : n + 1 \in 1 .. N => Good(n + 1)}
  <2>4. 0 \in S
    <3>1. CASE N = 0
      BY <1>3, <3>1
    <3>2. flat[1] = ps[1] /\ ps[1] \in Seq(M)
      BY <1>1, <1>3, <2>3
    <3>3. 1 .. 1 = {1} /\ 0 + 1 = 1 /\ 0 \in Nat
      OBVIOUS
    <3>4. Short => Len(flat[1]) <= 1
      <4>1. 1 \in DOMAIN ps
        BY <1>1, <1>3
      <4> QED BY <3>2, <4>1
    <3>5. Good(1)
      <4> HIDE DEF Short
      <4> QED BY <3>2, <3>3, <3>4
    <3> HIDE DEF Good
    <3> QED BY <3>3, <3>5
  <2>5. ASSUME NEW n \in Nat, n \in S PROVE n + 1 \in S
    <3> SUFFICES ASSUME (n + 1) + 1 \in 1 .. N PROVE Good((n + 1) + 1)
      OBVIOUS
    <3>1. /\ n + 1 \in 1 .. N /\ (n + 1) + 1 # 1 /\ ((n + 1) + 1) - 1 = n + 1
          /\ 1 .. (n + 1) + 1 = (1 .. n + 1) \cup {(n + 1) + 1}
      BY <1>1
    <3>2. Good(n + 1)
      BY <2>5, <3>1
    <3>3. flat[(n + 1) + 1] = flat[n + 1] \o ps[(n + 1) + 1] /\ ps[(n + 1) + 1] \in Seq(M)
      BY <1>1, <2>3, <3>1
    <3> DEFINE a == flat[n + 1]
               b == ps[(n + 1) + 1]
    <3>4. a \o b \in Seq(M) /\ \A m : In(m, a \o b) <=> In(m, a) \/ In(m, b)
      <4>1. a \in Seq(M) /\ b \in Seq(M)
        BY <3>2, <3>3
      <4> HIDE DEF a, b
      <4> QED BY <4>1, InConcat
    <3>5. \A m : (\E k \in 1 .. (n + 1) + 1 : In(m, ps[k]))
                   <=> (\E k \in 1 .. n + 1 : In(m, ps[k])) \/ In(m, b)
      BY <3>1, Zenon
    <3>6. Short => Len(a \o b) <= (n + 1) + 1
      <4>1. Short => Len(b) <= 1
        BY <1>1
      <4>2. Short => Len(a) <= n + 1
        BY <3>2
      <4>3. Len(a \o b) = Len(a) + Len(b) /\ Len(a) \in Nat /\ Len(b) \in Nat
        <5>1. a \in Seq(M) /\ b \in Seq(M)
          BY <3>2, <3>3
        <5> HIDE DEF a, b
        <5> QED BY <5>1
      <4> HIDE DEF a, b, Short
      <4> QED BY <4>1, <4>2, <4>3
    <3> HIDE DEF Short
    <3> QED BY <3>2, <3>3, <3>4, <3>5, <3>6, Zenon
  <2>6. Nat \subseteq S
    <3> HIDE DEF S
    <3> QED BY <2>4, <2>5, Induct
  <2>7. Good(N)
    <3>1. N - 1 \in Nat /\ (N - 1) + 1 = N /\ N \in 1 .. N
      BY <1>1, <1>3
    <3>2. N - 1 \in S
      BY <2>6, <3>1
    <3> HIDE DEF Good
    <3> QED BY <3>1, <3>2
  <2>8. Short => Len(FlattenSeq(ps)) <= Len(ps)
    BY <2>1, <2>7, Zenon DEF N
  <2> QED BY <1>1, <2>1, <2>7, <2>8, Zenon
<1> QED BY <1>2, <1>3

-----------------------------------------------------------------------------
(* What is down once messages have been injected                           *)

Messages == InputEvents \cup {Config, Sas}
Of(m, i) == m.kind = "input" /\ m.of = i

\* The two events of an input.
Down(i) == Event(i, TRUE)
Up(i) == Event(i, FALSE)

LEMMA MessageIs ==
  /\ \A m \in Messages, i \in Inputs : Of(m, i) <=> m = Down(i) \/ m = Up(i)
  /\ \A i \in Inputs : /\ Down(i) \in Messages /\ Of(Down(i), i) /\ Down(i).down
                      /\ Up(i) \in Messages /\ Of(Up(i), i) /\ ~Up(i).down
  /\ \A m \in Messages : m.kind # "input" <=> m \in {Config, Sas}
  /\ Config # Sas
<1>1. ASSUME NEW m \in Messages PROVE m.kind # "input" <=> m \in {Config, Sas}
  BY DEF Messages, InputEvents, Config, Sas, Event
<1>2. ASSUME NEW m \in Messages, NEW i \in Inputs
      PROVE  Of(m, i) <=> m = Down(i) \/ m = Up(i)
  <2>1. CASE m \in InputEvents
    <3>1. PICK j \in Inputs, b \in BOOLEAN : m = Event(j, b)
      BY <2>1 DEF InputEvents
    <3> QED BY <3>1 DEF Of, Event, Down, Up
  <2>2. CASE m \in {Config, Sas}
    BY <2>2 DEF Of, Config, Sas, Event, Down, Up
  <2> QED BY <2>1, <2>2 DEF Messages
<1>3. ASSUME NEW i \in Inputs
      PROVE  /\ Down(i) \in Messages /\ Of(Down(i), i) /\ Down(i).down
             /\ Up(i) \in Messages /\ Of(Up(i), i) /\ ~Up(i).down
  <2>1. Down(i) \in InputEvents /\ Up(i) \in InputEvents
    <3>1. \A b \in BOOLEAN : Event(i, b) \in InputEvents
      BY DEF InputEvents
    <3> QED BY <3>1 DEF Down, Up
  <2>2. Of(Down(i), i) /\ Down(i).down /\ Of(Up(i), i) /\ ~Up(i).down
    BY DEF Of, Event, Down, Up
  <2> QED BY <2>1, <2>2 DEF Messages
<1>4. Config # Sas
  BY DEF Config, Sas
<1> QED BY <1>1, <1>2, <1>3, <1>4

\* A set of indices that is not empty has a greatest element.
LEMMA MaxIs ==
  ASSUME NEW N \in Nat, NEW T, T \subseteq 1 .. N, T # {}
  PROVE  Max(T) \in T /\ \A y \in T : y <= Max(T)
<1>1. PICK d \in {N - y : y \in T} : \A e \in {N - y : y \in T} : ~(e < d)
  <2>1. \A y \in T : N - y \in Nat
    OBVIOUS
  <2>2. {N - y : y \in T} \subseteq Nat /\ {N - y : y \in T} # {}
    BY <2>1
  <2> QED BY <2>2, Least
<1>2. PICK x \in T : d = N - x
  BY <1>1
<1>3. ASSUME NEW y \in T PROVE x >= y
  <2>1. ~(N - y < N - x)
    BY <1>1, <1>2
  <2>2. x \in Nat /\ y \in Nat
    OBVIOUS
  <2> QED BY <2>1, <2>2
<1>4. Max(T) \in T /\ \A y \in T : Max(T) >= y
  <2>1. \E z \in T : \A y \in T : z >= y
    BY <1>3
  <2> QED BY <2>1 DEF Max
<1> DEFINE z == Max(T)
<1> HIDE DEF z
<1>5. z \in T /\ \A y \in T : z >= y
  BY <1>4 DEF z
<1>6. z \in T /\ \A y \in T : y <= z
  BY <1>5
<1> QED BY <1>6 DEF z

\* The last of an input's events decides.
LEMMA LastSays ==
  ASSUME NEW down, NEW msgs \in Seq(Messages), NEW i \in Inputs
  PROVE  /\ i \notin Mentioned(msgs) => (i \in After(down, msgs) <=> i \in down)
         /\ i \in Mentioned(msgs) <=> \E n \in DOMAIN msgs : Of(msgs[n], i)
         /\ \A n \in DOMAIN msgs :
              /\ Of(msgs[n], i)
              /\ \A k \in DOMAIN msgs : k > n => ~Of(msgs[k], i)
              => (i \in After(down, msgs) <=> msgs[n].down)
         /\ i \in Mentioned(msgs) =>
              \E n \in DOMAIN msgs :
                /\ Of(msgs[n], i)
                /\ \A k \in DOMAIN msgs : k > n => ~Of(msgs[k], i)
<1> DEFINE of == {n \in DOMAIN msgs : msgs[n].kind = "input" /\ msgs[n].of = i}
<1>1. i \in After(down, msgs) <=> IF of = {} THEN i \in down ELSE msgs[Max(of)].down
  BY Zenon DEF After
<1>2. i \in Mentioned(msgs) <=> of # {}
  BY DEF Mentioned
<1>3. \A n \in DOMAIN msgs : n \in of <=> Of(msgs[n], i)
  BY DEF Of
<1>4. Len(msgs) \in Nat /\ DOMAIN msgs = 1 .. Len(msgs) /\ of \subseteq 1 .. Len(msgs)
  OBVIOUS
<1> HIDE DEF of
<1>5. ASSUME of # {} PROVE Max(of) \in of /\ \A y \in of : y <= Max(of)
  BY <1>4, <1>5, MaxIs
<1>6. ASSUME NEW n \in DOMAIN msgs, Of(msgs[n], i),
             \A k \in DOMAIN msgs : k > n => ~Of(msgs[k], i)
      PROVE  i \in After(down, msgs) <=> msgs[n].down
  <2>1. n \in of /\ of # {}
    BY <1>3, <1>6
  <2>2. Max(of) \in of /\ Max(of) \in DOMAIN msgs /\ n <= Max(of)
    BY <1>4, <1>5, <2>1
  <2>3. ~(Max(of) > n)
    BY <1>3, <1>6, <2>2
  <2>4. Max(of) = n
    BY <1>4, <2>2, <2>3
  <2> QED BY <1>1, <2>1, <2>4
<1>7. ASSUME of # {}
      PROVE  \E n \in DOMAIN msgs :
               /\ Of(msgs[n], i)
               /\ \A k \in DOMAIN msgs : k > n => ~Of(msgs[k], i)
  <2> DEFINE x == Max(of)
  <2>1. x \in of /\ x \in DOMAIN msgs /\ \A y \in of : y <= x
    BY <1>4, <1>5, <1>7
  <2> HIDE DEF x
  <2>2. ASSUME NEW k \in DOMAIN msgs, k > x PROVE ~Of(msgs[k], i)
    BY <1>3, <1>4, <2>1, <2>2
  <2> QED BY <1>3, <2>1, <2>2
<1>8. i \in Mentioned(msgs) <=> \E n \in DOMAIN msgs : Of(msgs[n], i)
  BY <1>2, <1>3, <1>4
<1>9. i \notin Mentioned(msgs) => (i \in After(down, msgs) <=> i \in down)
  BY <1>1, <1>2
<1> QED BY <1>2, <1>6, <1>7, <1>8, <1>9, Zenon

\* What was injected before counts for the inputs that are not mentioned after it.
LEMMA AfterConcat ==
  ASSUME NEW s \in Seq(Messages), NEW t \in Seq(Messages), NEW i \in Inputs
  PROVE  /\ s \o t \in Seq(Messages)
         /\ i \in Mentioned(s \o t) <=> i \in Mentioned(s) \/ i \in Mentioned(t)
         /\ \A d, e : i \in Mentioned(t) => (i \in After(d, s \o t) <=> i \in After(e, t))
         /\ \A d : i \notin Mentioned(t) => (i \in After(d, s \o t) <=> i \in After(d, s))
<1> DEFINE u == s \o t
           last(n, w) == Of(w[n], i) /\ \A k \in DOMAIN w : k > n => ~Of(w[k], i)
<1>1. /\ u \in Seq(Messages) /\ Len(u) = Len(s) + Len(t) /\ Len(s) \in Nat /\ Len(t) \in Nat
      /\ DOMAIN s = 1 .. Len(s) /\ DOMAIN t = 1 .. Len(t) /\ DOMAIN u = 1 .. Len(s) + Len(t)
      /\ \A n \in 1 .. Len(s) : n \in 1 .. Len(s) + Len(t) /\ u[n] = s[n]
      /\ \A n \in 1 .. Len(t) : n + Len(s) \in 1 .. Len(s) + Len(t) /\ u[n + Len(s)] = t[n]
      /\ \A n \in 1 .. Len(s) + Len(t) : n \notin 1 .. Len(s) =>
           n - Len(s) \in 1 .. Len(t) /\ u[n] = t[n - Len(s)] /\ n > Len(s)
  OBVIOUS
<1> HIDE DEF u
<1>2. \A w \in Seq(Messages) :
        /\ i \in Mentioned(w) <=> \E n \in DOMAIN w : Of(w[n], i)
        /\ i \in Mentioned(w) => \E n \in DOMAIN w : last(n, w)
        /\ \A d : i \notin Mentioned(w) => (i \in After(d, w) <=> i \in d)
        /\ \A d : \A n \in DOMAIN w : last(n, w) => (i \in After(d, w) <=> w[n].down)
  BY LastSays, Zenon
<1>3. i \in Mentioned(u) <=> i \in Mentioned(s) \/ i \in Mentioned(t)
  <2> DEFINE has(w) == \E n \in DOMAIN w : Of(w[n], i)
  <2>1. ASSUME has(u) PROVE has(s) \/ has(t)
    <3>1. PICK n \in DOMAIN u : Of(u[n], i)
      BY <2>1
    <3>2. CASE n \in 1 .. Len(s)
      BY <1>1, <3>1, <3>2
    <3>3. CASE n \notin 1 .. Len(s)
      <4>1. n - Len(s) \in DOMAIN t /\ Of(t[n - Len(s)], i)
        BY <1>1, <3>1, <3>3
      <4> QED BY <4>1
    <3> QED BY <3>2, <3>3
  <2>2. ASSUME has(s) PROVE has(u)
    BY <1>1, <2>2
  <2>3. ASSUME has(t) PROVE has(u)
    <3>1. PICK n \in DOMAIN t : Of(t[n], i)
      BY <2>3
    <3>2. n + Len(s) \in DOMAIN u /\ Of(u[n + Len(s)], i)
      BY <1>1, <3>1
    <3> QED BY <3>2
  <2> QED BY <1>1, <1>2, <2>1, <2>2, <2>3, Zenon
<1>4. ASSUME NEW d, NEW e, i \in Mentioned(t)
      PROVE  i \in After(d, u) <=> i \in After(e, t)
  <2>1. PICK n \in DOMAIN t : last(n, t)
    BY <1>2, <1>4
  <2> DEFINE m == n + Len(s)
  <2>2. m \in DOMAIN u /\ u[m] = t[n] /\ Of(u[m], i)
    BY <1>1, <2>1
  <2>3. ASSUME NEW k \in DOMAIN u, k > m PROVE ~Of(u[k], i)
    <3>1. k - Len(s) \in DOMAIN t /\ u[k] = t[k - Len(s)] /\ k - Len(s) > n
      BY <1>1, <2>3
    <3> QED BY <2>1, <3>1
  <2>4. last(m, u)
    BY <2>2, <2>3
  <2> HIDE DEF last, m
  <2> QED BY <1>1, <1>2, <2>1, <2>2, <2>4
<1>5. ASSUME NEW d, i \notin Mentioned(t)
      PROVE  i \in After(d, u) <=> i \in After(d, s)
  <2>1. CASE i \in Mentioned(s)
    <3>1. PICK n \in DOMAIN s : last(n, s)
      BY <1>2, <2>1
    <3>2. n \in DOMAIN u /\ u[n] = s[n] /\ Of(u[n], i)
      BY <1>1, <3>1
    <3>3. ASSUME NEW k \in DOMAIN u, k > n PROVE ~Of(u[k], i)
      <4>1. CASE k \in 1 .. Len(s)
        BY <1>1, <3>1, <3>3, <4>1
      <4>2. CASE k \notin 1 .. Len(s)
        <5>1. k - Len(s) \in DOMAIN t /\ u[k] = t[k - Len(s)]
          BY <1>1, <3>3, <4>2
        <5> QED BY <1>2, <1>5, <5>1
      <4> QED BY <4>1, <4>2
    <3>4. last(n, u)
      BY <3>2, <3>3
    <3> HIDE DEF last
    <3>5. i \in After(d, u) <=> u[n].down
      BY <1>1, <1>2, <3>2, <3>4, Zenon
    <3>6. i \in After(d, s) <=> s[n].down
      BY <1>2, <3>1, Zenon
    <3>7. u[n] = s[n]
      BY <3>2
    <3> QED BY <3>5, <3>6, <3>7, Zenon
  <2>2. CASE i \notin Mentioned(s)
    BY <1>1, <1>2, <1>3, <1>5, <2>2
  <2> QED BY <2>1, <2>2
<1> QED BY <1>1, <1>3, <1>4, <1>5 DEF u

\* Events that all say the same.
LEMMA Uniform ==
  ASSUME NEW s \in Seq(Messages), NEW i \in Inputs, NEW d
  PROVE  /\ i \in Mentioned(s) <=> In(Down(i), s) \/ In(Up(i), s)
         /\ In(Down(i), s) /\ ~In(Up(i), s) => i \in After(d, s)
         /\ In(Up(i), s) /\ ~In(Down(i), s) => i \notin After(d, s)
<1>1. \A n \in DOMAIN s : Of(s[n], i) <=> s[n] = Down(i) \/ s[n] = Up(i)
  <2>1. \A n \in DOMAIN s : s[n] \in Messages
    OBVIOUS
  <2> QED BY <2>1, MessageIs, Zenon
<1>2. i \in Mentioned(s) <=> In(Down(i), s) \/ In(Up(i), s)
  <2>1. i \in Mentioned(s) <=> \E n \in DOMAIN s : Of(s[n], i)
    BY LastSays
  <2> QED BY <1>1, <2>1, Zenon DEF In
<1>3. ASSUME i \in Mentioned(s)
      PROVE  \E n \in DOMAIN s : Of(s[n], i) /\ (i \in After(d, s) <=> s[n].down)
  BY <1>3, LastSays, Zenon
<1>4. Down(i).down /\ ~Up(i).down
  BY MessageIs
<1>5. ASSUME In(Down(i), s), ~In(Up(i), s) PROVE i \in After(d, s)
  <2>1. PICK n \in DOMAIN s : Of(s[n], i) /\ (i \in After(d, s) <=> s[n].down)
    BY <1>2, <1>3, <1>5
  <2>2. s[n] = Down(i)
    BY <1>1, <1>5, <2>1, Zenon DEF In
  <2> QED BY <1>4, <2>1, <2>2
<1>6. ASSUME In(Up(i), s), ~In(Down(i), s) PROVE i \notin After(d, s)
  <2>1. PICK n \in DOMAIN s : Of(s[n], i) /\ (i \in After(d, s) <=> s[n].down)
    BY <1>2, <1>3, <1>6
  <2>2. s[n] = Up(i)
    BY <1>1, <1>6, <2>1, Zenon DEF In
  <2> QED BY <1>4, <2>1, <2>2
<1> QED BY <1>2, <1>5, <1>6

-----------------------------------------------------------------------------
(* What one round of the viewer's loop sends                               *)

LEMMA Single ==
  /\ \A m : ~In(m, <<>>) /\ \A x : In(m, <<x>>) <=> m = x
  /\ <<>> \in Seq(Messages) /\ \A x \in Messages : <<x>> \in Seq(Messages)
  BY DEF In

\* Each key that was remembered is released when the focus is lost,
LEMMA ReleaseIs ==
  ASSUME InputAssumption, pressed \subseteq Keys
  PROVE  /\ ReleaseSends \in Seq(Messages)
         /\ \A m : In(m, ReleaseSends) <=> FocusLost /\ \E k \in pressed : m = Up(k)
<1> DEFINE ps == [n \in DOMAIN Table |->
                    IF Table[n] \in pressed THEN <<Up(Table[n])>> ELSE <<>>]
<1>1. /\ Table \in Seq(Keys) /\ DOMAIN Table = 1 .. Len(Table) /\ Len(Table) \in Nat
      /\ \A n \in DOMAIN Table : Table[n] \in Keys
      /\ \A k \in Keys : \E n \in DOMAIN Table : Table[n] = k
  BY DEF InputAssumption, Keys, Range
<1>2. \A k \in Keys : Up(k) \in Messages
  BY MessageIs DEF Inputs
<1>3. \A n \in DOMAIN Table :
        ps[n] = IF Table[n] \in pressed THEN <<Up(Table[n])>> ELSE <<>>
  OBVIOUS
<1>4. ps \in Seq(Seq(Messages)) /\ DOMAIN ps = DOMAIN Table
  <2>1. ASSUME NEW n \in DOMAIN Table PROVE ps[n] \in Seq(Messages)
    <3>1. Up(Table[n]) \in Messages
      BY <1>1, <1>2
    <3>2. ps[n] = <<Up(Table[n])>> \/ ps[n] = <<>>
      BY <1>3
    <3>3. <<Up(Table[n])>> \in Seq(Messages)
      BY <3>1
    <3> HIDE DEF ps
    <3> QED BY <3>2, <3>3, Single
  <2>2. ps = [n \in 1 .. Len(Table) |-> ps[n]]
    BY <1>1
  <2> HIDE DEF ps
  <2> QED BY <1>1, <2>1, <2>2
<1> HIDE DEF ps
<1>5. /\ FlattenSeq(ps) \in Seq(Messages)
      /\ \A m : In(m, FlattenSeq(ps)) <=> \E n \in DOMAIN Table : In(m, ps[n])
  BY <1>4, FlattenIs, Zenon
<1>6. ASSUME NEW m
      PROVE  (\E n \in DOMAIN Table : In(m, ps[n])) <=> \E k \in pressed : m = Up(k)
  <2>1. \A n \in DOMAIN Table : In(m, ps[n]) <=> Table[n] \in pressed /\ m = Up(Table[n])
    <3> TAKE n \in DOMAIN Table
    <3>1. ps[n] = IF Table[n] \in pressed THEN <<Up(Table[n])>> ELSE <<>>
      BY <1>3
    <3>2. ~In(m, <<>>) /\ (In(m, <<Up(Table[n])>>) <=> m = Up(Table[n]))
      BY Single
    <3> QED BY <3>1, <3>2
  <2>2. \A k \in pressed : \E n \in DOMAIN Table : Table[n] = k
    BY <1>1
  <2> QED BY <2>1, <2>2, Zenon
<1>7. CASE FocusLost
  <2>1. ReleaseSends = FlattenSeq(ps)
    BY <1>7 DEF ReleaseSends, ps, Up
  <2> QED BY <1>5, <1>6, <1>7, <2>1, Zenon
<1>8. CASE ~FocusLost
  <2>1. ReleaseSends = <<>> /\ <<>> \in Seq(Messages)
    BY <1>8 DEF ReleaseSends
  <2> QED BY <1>8, <2>1, Single, Zenon
<1> QED BY <1>7, <1>8

\* the secure attention sequence is asked for by its own message,
LEMMA InsertIs ==
  /\ InsertSends \in Seq(Messages)
  /\ \A m : In(m, InsertSends) <=> m = Sas /\ alt /\ ctrl /\ Insert \in Newly /\ system_priv
<1>1. Sas \in Messages
  BY DEF Messages
<1>2. InsertSends \in Seq(Messages)
  BY <1>1 DEF InsertSends
<1>3. CASE alt /\ ctrl /\ Insert \in Newly /\ system_priv
  <2>1. InsertSends = <<Sas>>
    BY <1>3 DEF InsertSends
  <2> QED BY <1>2, <1>3, <2>1, Single, Zenon
<1>4. CASE ~(alt /\ ctrl /\ Insert \in Newly /\ system_priv)
  <2>1. InsertSends = <<>>
    BY <1>4, Zenon DEF InsertSends
  <2> QED BY <1>2, <1>4, <2>1, Single, Zenon
<1> QED BY <1>3, <1>4

\* of the keys those that differ from what is remembered,
KeySays(k, m) ==
  \/ k \in window_down \ Kept /\ IsSas(k) /\ m = Sas
  \/ k \in window_down \ Kept /\ ~IsSas(k) /\ k # F9 /\ m = Down(k)
  \/ k \in Kept \ window_down /\ k \notin KeptSwallowed /\ m = Up(k)

LEMMA KeyIs ==
  ASSUME NEW k \in Keys
  PROVE  KeySends(k) \in Seq(Messages) /\ \A m : In(m, KeySends(k)) <=> KeySays(k, m)
<1>1. /\ Sas \in Messages /\ Down(k) \in Messages /\ Up(k) \in Messages
      /\ <<>> \in Seq(Messages) /\ <<Sas>> \in Seq(Messages)
      /\ <<Down(k)>> \in Seq(Messages) /\ <<Up(k)>> \in Seq(Messages)
  <2>1. Sas \in Messages /\ Down(k) \in Messages /\ Up(k) \in Messages
    <3>1. k \in Inputs
      BY DEF Inputs
    <3> QED BY <3>1, MessageIs, Zenon DEF Messages
  <2> QED BY <2>1
<1>2. CASE k \in window_down \ Kept
  <2>1. KeySends(k) = IF IsSas(k) THEN <<Sas>> ELSE IF k = F9 THEN <<>> ELSE <<Down(k)>>
    BY <1>2, Zenon DEF KeySends, Down
  <2>2. CASE IsSas(k)
    <3>1. KeySends(k) = <<Sas>>
      BY <2>1, <2>2
    <3>2. \A m : KeySays(k, m) <=> m = Sas
      BY <1>2, <2>2 DEF KeySays
    <3>3. \A m : In(m, <<Sas>>) <=> m = Sas
      BY Single
    <3> QED BY <1>1, <3>1, <3>2, <3>3, Zenon
  <2>3. CASE ~IsSas(k) /\ k = F9
    <3>1. KeySends(k) = <<>>
      BY <2>1, <2>3
    <3>2. \A m : KeySays(k, m) <=> FALSE
      BY <1>2, <2>3 DEF KeySays
    <3> QED BY <1>1, <3>1, <3>2, Single, Zenon
  <2>4. CASE ~IsSas(k) /\ k # F9
    <3>1. KeySends(k) = <<Down(k)>>
      BY <2>1, <2>4
    <3>2. \A m : KeySays(k, m) <=> m = Down(k)
      BY <1>2, <2>4 DEF KeySays
    <3>3. \A m : In(m, <<Down(k)>>) <=> m = Down(k)
      BY Single
    <3> QED BY <1>1, <3>1, <3>2, <3>3, Zenon
  <2> QED BY <2>2, <2>3, <2>4
<1>3. CASE k \in Kept \ window_down
  <2>1. KeySends(k) = IF k \in KeptSwallowed THEN <<>> ELSE <<Up(k)>>
    BY <1>3 DEF KeySends, Up
  <2>2. CASE k \in KeptSwallowed
    <3>1. KeySends(k) = <<>>
      BY <2>1, <2>2
    <3>2. \A m : KeySays(k, m) <=> FALSE
      BY <1>3, <2>2 DEF KeySays
    <3> QED BY <1>1, <3>1, <3>2, Single, Zenon
  <2>3. CASE k \notin KeptSwallowed
    <3>1. KeySends(k) = <<Up(k)>>
      BY <2>1, <2>3
    <3>2. \A m : KeySays(k, m) <=> m = Up(k)
      BY <1>3, <2>3 DEF KeySays
    <3>3. \A m : In(m, <<Up(k)>>) <=> m = Up(k)
      BY Single
    <3> QED BY <1>1, <3>1, <3>2, <3>3, Zenon
  <2> QED BY <2>2, <2>3
<1>4. CASE k \notin window_down \ Kept /\ k \notin Kept \ window_down
  <2>1. KeySends(k) = <<>>
    BY <1>4 DEF KeySends
  <2> QED BY <1>1, <1>4, <2>1, Single, Zenon DEF KeySays
<1> QED BY <1>2, <1>3, <1>4

LEMMA KeyboardIs ==
  ASSUME InputAssumption
  PROVE  /\ KeyboardSends \in Seq(Messages)
         /\ \A m : In(m, KeyboardSends) <=> ~view_only /\ \E k \in Keys : KeySays(k, m)
<1> DEFINE ps == [n \in DOMAIN Table |-> KeySends(Table[n])]
<1>1. /\ DOMAIN Table = 1 .. Len(Table) /\ Len(Table) \in Nat
      /\ \A n \in DOMAIN Table : Table[n] \in Keys
      /\ \A k \in Keys : \E n \in DOMAIN Table : Table[n] = k
  BY DEF InputAssumption, Keys, Range
<1>2. ps \in Seq(Seq(Messages)) /\ DOMAIN ps = DOMAIN Table
  <2>1. \A n \in DOMAIN Table : ps[n] \in Seq(Messages)
    BY <1>1, KeyIs
  <2>2. ps = [n \in 1 .. Len(Table) |-> ps[n]]
    BY <1>1
  <2> HIDE DEF ps
  <2> QED BY <1>1, <2>1, <2>2
<1>3. \A n \in DOMAIN Table : ps[n] = KeySends(Table[n])
  OBVIOUS
<1> HIDE DEF ps
<1>4. /\ FlattenSeq(ps) \in Seq(Messages)
      /\ \A m : In(m, FlattenSeq(ps)) <=> \E n \in DOMAIN Table : In(m, ps[n])
  BY <1>2, FlattenIs, Zenon
<1>5. ASSUME NEW m
      PROVE  (\E n \in DOMAIN Table : In(m, ps[n])) <=> \E k \in Keys : KeySays(k, m)
  <2>1. ASSUME NEW n \in DOMAIN Table PROVE In(m, ps[n]) <=> KeySays(Table[n], m)
    <3>1. Table[n] \in Keys /\ ps[n] = KeySends(Table[n])
      BY <1>1, <1>3
    <3>2. In(m, KeySends(Table[n])) <=> KeySays(Table[n], m)
      BY <3>1, KeyIs, Zenon
    <3> QED BY <3>1, <3>2
  <2>2. ASSUME NEW k \in Keys, KeySays(k, m) PROVE \E n \in DOMAIN Table : In(m, ps[n])
    <3>1. PICK n \in DOMAIN Table : Table[n] = k
      BY <1>1
    <3> QED BY <2>1, <2>2, <3>1
  <2> QED BY <1>1, <2>1, <2>2, Zenon
<1>6. CASE view_only
  <2>1. KeyboardSends = <<>>
    BY <1>6 DEF KeyboardSends
  <2> QED BY <1>6, <2>1, Single
<1>7. CASE ~view_only
  <2>1. KeyboardSends = FlattenSeq(ps)
    BY <1>7 DEF KeyboardSends, ps
  <2> QED BY <1>4, <1>5, <1>7, <2>1, Zenon
<1> QED BY <1>6, <1>7

\* and of the buttons a press on the picture and the release that belongs to it.
ButtonSays(b, m) ==
  \/ b \in WentDown /\ Forwards /\ m = Down(b)
  \/ b \in WentUp \cap btn_sent /\ m = Up(b)

LEMMA ButtonIs ==
  ASSUME NEW b \in Buttons
  PROVE  ButtonSends(b) \in Seq(Messages) /\ \A m : In(m, ButtonSends(b)) <=> ButtonSays(b, m)
<1>1. <<Down(b)>> \in Seq(Messages) /\ <<Up(b)>> \in Seq(Messages)
  <2>1. Down(b) \in Messages /\ Up(b) \in Messages
    BY MessageIs DEF Inputs
  <2> QED BY <2>1
<1>2. /\ \A m : In(m, <<Down(b)>>) <=> m = Down(b)
      /\ \A m : In(m, <<Up(b)>>) <=> m = Up(b)
      /\ <<>> \in Seq(Messages) /\ \A m : ~In(m, <<>>)
  BY Single
<1>3. b \in WentDown => b \notin WentUp
  BY DEF WentDown, WentUp
<1>4. CASE b \in WentDown /\ Forwards
  <2>1. ButtonSends(b) = <<Down(b)>>
    BY <1>3, <1>4 DEF ButtonSends, Down
  <2>2. \A m : ButtonSays(b, m) <=> m = Down(b)
    BY <1>3, <1>4 DEF ButtonSays
  <2> QED BY <1>1, <1>2, <2>1, <2>2, Zenon
<1>5. CASE b \in WentUp \cap btn_sent
  <2>1. ButtonSends(b) = <<Up(b)>>
    BY <1>3, <1>5, Zenon DEF ButtonSends, Up
  <2>2. \A m : ButtonSays(b, m) <=> m = Up(b)
    BY <1>3, <1>5 DEF ButtonSays
  <2> QED BY <1>1, <1>2, <2>1, <2>2, Zenon
<1>6. CASE ~(b \in WentDown /\ Forwards) /\ b \notin WentUp \cap btn_sent
  <2>1. ButtonSends(b) = <<>>
    BY <1>6, Zenon DEF ButtonSends
  <2>2. \A m : ~ButtonSays(b, m)
    BY <1>6 DEF ButtonSays
  <2> QED BY <1>2, <2>1, <2>2, Zenon
<1> QED BY <1>4, <1>5, <1>6

LEMMA MouseIs ==
  ASSUME InputAssumption
  PROVE  /\ MouseSends \in Seq(Messages)
         /\ \A m : In(m, MouseSends) <=> Looks /\ \E b \in Buttons : ButtonSays(b, m)
<1> DEFINE ps == [n \in DOMAIN Btns |-> ButtonSends(Btns[n])]
<1>1. /\ DOMAIN Btns = 1 .. Len(Btns) /\ Len(Btns) \in Nat
      /\ \A n \in DOMAIN Btns : Btns[n] \in Buttons
      /\ \A b \in Buttons : \E n \in DOMAIN Btns : Btns[n] = b
  BY DEF InputAssumption, Buttons, Range
<1>2. ps \in Seq(Seq(Messages)) /\ DOMAIN ps = DOMAIN Btns
  <2>1. \A n \in DOMAIN Btns : ps[n] \in Seq(Messages)
    BY <1>1, ButtonIs
  <2>2. ps = [n \in 1 .. Len(Btns) |-> ps[n]]
    BY <1>1
  <2> HIDE DEF ps
  <2> QED BY <1>1, <2>1, <2>2
<1>3. \A n \in DOMAIN Btns : ps[n] = ButtonSends(Btns[n])
  OBVIOUS
<1> HIDE DEF ps
<1>4. /\ FlattenSeq(ps) \in Seq(Messages)
      /\ \A m : In(m, FlattenSeq(ps)) <=> \E n \in DOMAIN Btns : In(m, ps[n])
  BY <1>2, FlattenIs, Zenon
<1>5. ASSUME NEW m
      PROVE  (\E n \in DOMAIN Btns : In(m, ps[n])) <=> \E b \in Buttons : ButtonSays(b, m)
  <2>1. \A n \in DOMAIN Btns : In(m, ps[n]) <=> ButtonSays(Btns[n], m)
    <3> TAKE n \in DOMAIN Btns
    <3>1. Btns[n] \in Buttons /\ ps[n] = ButtonSends(Btns[n])
      BY <1>1, <1>3
    <3>2. \A x : In(x, ButtonSends(Btns[n])) <=> ButtonSays(Btns[n], x)
      BY <3>1, ButtonIs
    <3> QED BY <3>1, <3>2
  <2>2. ASSUME NEW b \in Buttons, ButtonSays(b, m) PROVE \E n \in DOMAIN Btns : In(m, ps[n])
    <3>1. PICK n \in DOMAIN Btns : Btns[n] = b
      BY <1>1
    <3> QED BY <2>1, <2>2, <3>1
  <2> QED BY <1>1, <2>1, <2>2, Zenon
<1>6. CASE Looks
  <2>1. MouseSends = FlattenSeq(ps)
    BY <1>6 DEF MouseSends, ps
  <2> QED BY <1>4, <1>5, <1>6, <2>1, Zenon
<1>7. CASE ~Looks
  <2>1. MouseSends = <<>>
    BY <1>7 DEF MouseSends
  <2> QED BY <1>7, <2>1, Single
<1> QED BY <1>6, <1>7

\* The messages of a round, in their order.
Round == ReleaseSends \o InsertSends \o KeyboardSends \o MouseSends

LEMMA RoundIs ==
  ASSUME InputAssumption, pressed \subseteq Keys
  PROVE  /\ Round \in Seq(Messages)
         /\ \A m : In(m, Round) <=> \/ FocusLost /\ \E k \in pressed : m = Up(k)
                                    \/ m = Sas /\ alt /\ ctrl /\ Insert \in Newly /\ system_priv
                                    \/ ~view_only /\ \E k \in Keys : KeySays(k, m)
                                    \/ Looks /\ \E b \in Buttons : ButtonSays(b, m)
<1> DEFINE rel == ReleaseSends
           ins == InsertSends
           key == KeyboardSends
           btn == MouseSends
<1>1. /\ {rel, ins, key, btn} \subseteq Seq(Messages)
      /\ \A m : In(m, rel) <=> FocusLost /\ \E j \in pressed : m = Up(j)
      /\ \A m : In(m, ins) <=> m = Sas /\ alt /\ ctrl /\ Insert \in Newly /\ system_priv
      /\ \A m : In(m, key) <=> ~view_only /\ \E j \in Keys : KeySays(j, m)
      /\ \A m : In(m, btn) <=> Looks /\ \E j \in Buttons : ButtonSays(j, m)
  BY ReleaseIs, InsertIs, KeyboardIs, MouseIs
<1>2. Round = ((rel \o ins) \o key) \o btn
  BY DEF Round
<1> HIDE DEF rel, ins, key, btn
<1>3. (rel \o ins) \in Seq(Messages) /\ \A m : In(m, rel \o ins) <=> In(m, rel) \/ In(m, ins)
  BY <1>1, InConcat
<1>4. (rel \o ins) \o key \in Seq(Messages) /\ \A m : In(m, (rel \o ins) \o key) <=> In(m, rel \o ins) \/ In(m, key)
  <2> DEFINE x == rel \o ins
  <2> HIDE DEF x
  <2>0. x \in Seq(Messages) /\ key \in Seq(Messages)
    BY <1>1, <1>3 DEF x
  <2>1. x \o key \in Seq(Messages) /\ \A m : In(m, x \o key) <=> In(m, x) \/ In(m, key)
    BY <2>0, InConcat
  <2> QED BY <2>1 DEF x
<1>5. /\ ((rel \o ins) \o key) \o btn \in Seq(Messages)
      /\ \A m : In(m, ((rel \o ins) \o key) \o btn) <=> In(m, (rel \o ins) \o key) \/ In(m, btn)
  <2> DEFINE x == (rel \o ins) \o key
  <2>0. x \in Seq(Messages)
    BY <1>4
  <2> HIDE DEF x
  <2>1. x \o btn \in Seq(Messages) /\ \A m : In(m, x \o btn) <=> In(m, x) \/ In(m, btn)
    BY <1>1, <2>0, InConcat
  <2> QED BY <2>1 DEF x
<1>6. Round \in Seq(Messages)
  BY <1>2, <1>5
<1>7. ASSUME NEW m
      PROVE  In(m, Round) <=> In(m, rel) \/ In(m, ins) \/ In(m, key) \/ In(m, btn)
  <2>1. In(m, Round) <=> In(m, (rel \o ins) \o key) \/ In(m, btn)
    BY <1>2, <1>5
  <2>2. In(m, (rel \o ins) \o key) <=> In(m, rel \o ins) \/ In(m, key)
    BY <1>4
  <2>3. In(m, rel \o ins) <=> In(m, rel) \/ In(m, ins)
    BY <1>3
  <2> QED BY <2>1, <2>2, <2>3
<1>8. ASSUME NEW m
      PROVE  In(m, Round) <=> \/ FocusLost /\ \E j \in pressed : m = Up(j)
                              \/ m = Sas /\ alt /\ ctrl /\ Insert \in Newly /\ system_priv
                              \/ ~view_only /\ \E j \in Keys : KeySays(j, m)
                              \/ Looks /\ \E j \in Buttons : ButtonSays(j, m)
  <2>1. In(m, rel) <=> FocusLost /\ \E j \in pressed : m = Up(j)
    BY <1>1
  <2>2. In(m, ins) <=> m = Sas /\ alt /\ ctrl /\ Insert \in Newly /\ system_priv
    BY <1>1
  <2>3. In(m, key) <=> ~view_only /\ \E j \in Keys : KeySays(j, m)
    BY <1>1
  <2>4. In(m, btn) <=> Looks /\ \E j \in Buttons : ButtonSays(j, m)
    BY <1>1
  <2> QED BY <1>7, <2>1, <2>2, <2>3, <2>4, Zenon
<1> QED BY <1>6, <1>8, Zenon

LEMMA Distinct ==
  \A i, j : /\ Down(i) # Up(j) /\ Down(i) # Sas /\ Up(i) # Sas
            /\ (Down(i) = Down(j) => i = j) /\ (Up(i) = Up(j) => i = j)
  BY DEF Down, Up, Event, Sas

\* Which parts of a round have events of a key,
LEMMA KeyEvents ==
  ASSUME InputAssumption, pressed \subseteq Keys, NEW i \in Keys
  PROVE  /\ In(Up(i), ReleaseSends) <=> FocusLost /\ i \in pressed
         /\ In(Down(i), KeyboardSends)
              <=> ~view_only /\ i \in window_down \ Kept /\ ~IsSas(i) /\ i # F9
         /\ In(Up(i), KeyboardSends)
              <=> ~view_only /\ i \in Kept \ window_down /\ i \notin KeptSwallowed
         /\ ~In(Down(i), ReleaseSends)
         /\ ~In(Down(i), InsertSends) /\ ~In(Up(i), InsertSends)
         /\ ~In(Down(i), MouseSends) /\ ~In(Up(i), MouseSends)
<1>1. \A k : /\ KeySays(k, Down(i)) <=> k = i /\ i \in window_down \ Kept /\ ~IsSas(i) /\ i # F9
             /\ KeySays(k, Up(i)) <=> k = i /\ i \in Kept \ window_down /\ i \notin KeptSwallowed
  BY Distinct DEF KeySays
<1>2. \A b \in Buttons : ~ButtonSays(b, Down(i)) /\ ~ButtonSays(b, Up(i))
  <2>1. \A b \in Buttons : b # i
    BY DEF InputAssumption
  <2> QED BY <2>1, Distinct DEF ButtonSays
<1>3. /\ In(Up(i), ReleaseSends) <=> FocusLost /\ i \in pressed
      /\ ~In(Down(i), ReleaseSends)
  BY ReleaseIs, Distinct
<1>4. ~In(Down(i), InsertSends) /\ ~In(Up(i), InsertSends)
  BY InsertIs, Distinct
<1>5. ~In(Down(i), MouseSends) /\ ~In(Up(i), MouseSends)
  BY <1>2, MouseIs
<1>6. /\ In(Down(i), KeyboardSends)
           <=> ~view_only /\ i \in window_down \ Kept /\ ~IsSas(i) /\ i # F9
      /\ In(Up(i), KeyboardSends)
           <=> ~view_only /\ i \in Kept \ window_down /\ i \notin KeptSwallowed
  BY <1>1, KeyboardIs
<1> QED BY <1>3, <1>4, <1>5, <1>6

\* and which of a button.
LEMMA ButtonEvents ==
  ASSUME InputAssumption, pressed \subseteq Keys, NEW i \in Buttons
  PROVE  /\ In(Down(i), MouseSends) <=> Looks /\ i \in WentDown /\ Forwards
         /\ In(Up(i), MouseSends) <=> Looks /\ i \in WentUp \cap btn_sent
         /\ In(Down(i), Round) <=> In(Down(i), MouseSends)
         /\ In(Up(i), Round) <=> In(Up(i), MouseSends)
<1>1. \A b : /\ ButtonSays(b, Down(i)) <=> b = i /\ i \in WentDown /\ Forwards
             /\ ButtonSays(b, Up(i)) <=> b = i /\ i \in WentUp \cap btn_sent
  BY Distinct DEF ButtonSays
<1>2. \A k \in Keys : k # i /\ ~KeySays(k, Down(i)) /\ ~KeySays(k, Up(i))
  <2>1. \A k \in Keys : k # i
    BY DEF InputAssumption
  <2> QED BY <2>1, Distinct DEF KeySays
<1>3. /\ In(Down(i), MouseSends) <=> Looks /\ i \in WentDown /\ Forwards
      /\ In(Up(i), MouseSends) <=> Looks /\ i \in WentUp \cap btn_sent
  BY <1>1, MouseIs
<1>4. /\ In(Down(i), Round) <=> Looks /\ \E b \in Buttons : ButtonSays(b, Down(i))
      /\ In(Up(i), Round) <=> Looks /\ \E b \in Buttons : ButtonSays(b, Up(i))
  BY <1>2, RoundIs, Distinct
<1> QED BY <1>1, <1>3, <1>4

\* A view-only viewer remembers nothing as down.
HoldsNothing == view_only => pressed = {} /\ btn_sent = {}

\* After a round the viewer believes of a key what the round's last event of it says, and
\* what it believed before if there is none.
LEMMA KeyRound ==
  ASSUME InputAssumption, TypeOK, HoldsNothing, Keyboard, NEW i \in Keys, NEW d
  PROVE  /\ i \in Mentioned(Round)
              => (i \in After(d, Round) <=> i \in pressed' \ swallowed')
         /\ i \notin Mentioned(Round)
              => (i \in pressed' \ swallowed' <=> i \in pressed \ swallowed)
<1> DEFINE rel == ReleaseSends
           ins == InsertSends
           key == KeyboardSends
           btn == MouseSends
<1>0. i \in Inputs /\ pressed \subseteq Keys /\ swallowed \subseteq pressed
  BY DEF TypeOK, Inputs
<1>1. /\ rel \in Seq(Messages) /\ ins \in Seq(Messages)
      /\ key \in Seq(Messages) /\ btn \in Seq(Messages)
  BY <1>0, ReleaseIs, InsertIs, KeyboardIs, MouseIs
<1>2. Round = ((rel \o ins) \o key) \o btn
  BY DEF Round
<1>3. /\ In(Up(i), rel) <=> FocusLost /\ i \in pressed
      /\ In(Down(i), key) <=> ~view_only /\ i \in window_down \ Kept /\ ~IsSas(i) /\ i # F9
      /\ In(Up(i), key) <=> ~view_only /\ i \in Kept \ window_down /\ i \notin KeptSwallowed
      /\ ~In(Down(i), rel) /\ ~In(Down(i), ins) /\ ~In(Up(i), ins)
      /\ ~In(Down(i), btn) /\ ~In(Up(i), btn)
  BY <1>0, KeyEvents
<1> HIDE DEF rel, ins, key, btn
<1> DEFINE x == rel \o ins
           y == x \o key
<1>4. x \in Seq(Messages) /\ y \in Seq(Messages)
  BY <1>1
<1>5. /\ i \in Mentioned(rel) <=> In(Down(i), rel) \/ In(Up(i), rel)
      /\ i \in Mentioned(ins) <=> In(Down(i), ins) \/ In(Up(i), ins)
      /\ i \in Mentioned(key) <=> In(Down(i), key) \/ In(Up(i), key)
      /\ i \in Mentioned(btn) <=> In(Down(i), btn) \/ In(Up(i), btn)
  BY <1>0, <1>1, Uniform
<1>6. /\ i \in Mentioned(x) <=> i \in Mentioned(rel)
      /\ i \in After(d, x) <=> i \in After(d, rel)
  BY <1>0, <1>1, <1>3, <1>5, AfterConcat
<1> HIDE DEF x
<1>7. /\ i \in Mentioned(y) <=> i \in Mentioned(x) \/ i \in Mentioned(key)
      /\ i \in Mentioned(key) => (i \in After(d, y) <=> i \in After(d, key))
      /\ i \notin Mentioned(key) => (i \in After(d, y) <=> i \in After(d, x))
  BY <1>0, <1>1, <1>4, AfterConcat
<1> HIDE DEF y
<1>8. /\ i \in Mentioned(Round) <=> i \in Mentioned(y)
      /\ i \in After(d, Round) <=> i \in After(d, y)
  <2>1. /\ i \in Mentioned(y \o btn) <=> i \in Mentioned(y)
        /\ i \in After(d, y \o btn) <=> i \in After(d, y)
    BY <1>0, <1>1, <1>3, <1>4, <1>5, AfterConcat
  <2> QED BY <1>2, <2>1 DEF x, y
<1>9. i \in Mentioned(Round) <=> In(Down(i), key) \/ In(Up(i), key) \/ In(Up(i), rel)
  BY <1>3, <1>5, <1>6, <1>7, <1>8
<1>10. CASE view_only
  <2>1. pressed = {} /\ swallowed = {} /\ ~FocusLost /\ pressed' = {} /\ swallowed' = {}
    BY <1>0, <1>10 DEF HoldsNothing, Keyboard, Kept, KeptSwallowed, FocusLost
  <2> QED BY <1>3, <1>9, <1>10, <2>1
<1>11. CASE ~view_only
  <2>1. /\ i \in pressed' <=> i \in window_down
        /\ i \in swallowed' <=> \/ i \in KeptSwallowed /\ i \in window_down
                                \/ i \in window_down /\ i \notin Kept /\ (IsSas(i) \/ i = F9)
    BY <1>11 DEF Keyboard, Swallow
  <2>2. IF FocusLost THEN Kept = {} /\ KeptSwallowed = {}
                     ELSE Kept = pressed /\ KeptSwallowed = swallowed
    BY DEF Kept, KeptSwallowed
  <2>3. CASE In(Down(i), key)
    <3>1. i \in After(d, key)
      BY <1>0, <1>1, <1>3, <2>3, Uniform
    <3>2. i \in pressed' \ swallowed'
      BY <1>0, <1>3, <2>1, <2>2, <2>3
    <3> QED BY <1>5, <1>7, <1>8, <1>9, <2>3, <3>1, <3>2
  <2>4. CASE In(Up(i), key)
    <3>1. i \notin After(d, key)
      BY <1>0, <1>1, <1>3, <2>4, Uniform
    <3>2. i \notin pressed'
      BY <1>3, <2>1, <2>4
    <3> QED BY <1>5, <1>7, <1>8, <1>9, <2>4, <3>1, <3>2
  <2>5. CASE ~In(Down(i), key) /\ ~In(Up(i), key)
    <3>1. i \in After(d, Round) <=> i \in After(d, rel)
      BY <1>5, <1>6, <1>7, <1>8, <2>5
    <3>2. CASE FocusLost /\ i \in pressed
      <4>1. i \notin After(d, rel)
        BY <1>0, <1>1, <1>3, <3>2, Uniform
      <4>2. i \notin pressed' \ swallowed'
        BY <1>3, <1>11, <2>1, <2>2, <2>5, <3>2
      <4> QED BY <1>3, <1>9, <3>1, <3>2, <4>1, <4>2
    <3>3. CASE ~(FocusLost /\ i \in pressed)
      <4>1. i \notin Mentioned(Round)
        BY <1>3, <1>9, <2>5, <3>3
      <4>2. i \in pressed' \ swallowed' <=> i \in pressed \ swallowed
        BY <1>0, <1>3, <1>11, <2>1, <2>2, <2>5, <3>3
      <4> QED BY <4>1, <4>2
    <3> QED BY <3>2, <3>3
  <2> QED BY <2>3, <2>4, <2>5
<1> QED BY <1>10, <1>11

LEMMA ButtonRound ==
  ASSUME InputAssumption, TypeOK, HoldsNothing, Mouse, NEW i \in Buttons, NEW d
  PROVE  /\ i \in Mentioned(Round) => (i \in After(d, Round) <=> i \in btn_sent')
         /\ i \notin Mentioned(Round) => (i \in btn_sent' <=> i \in btn_sent)
<1>1. i \in Inputs /\ pressed \subseteq Keys /\ btn_sent \subseteq mouse_btn
  BY DEF TypeOK, Inputs
<1>2. /\ In(Down(i), Round) <=> Looks /\ i \in WentDown /\ Forwards
      /\ In(Up(i), Round) <=> Looks /\ i \in WentUp \cap btn_sent
  BY <1>1, ButtonEvents
<1>3. Round \in Seq(Messages)
  BY <1>1, RoundIs
<1>4. /\ i \in Mentioned(Round) <=> In(Down(i), Round) \/ In(Up(i), Round)
      /\ In(Down(i), Round) /\ ~In(Up(i), Round) => i \in After(d, Round)
      /\ In(Up(i), Round) /\ ~In(Down(i), Round) => i \notin After(d, Round)
  BY <1>1, <1>3, Uniform
<1>5. i \in WentDown => i \notin WentUp /\ i \notin btn_sent
  BY <1>1 DEF WentDown, WentUp
<1>6. CASE Looks
  <2>1. i \in btn_sent' <=> (i \in btn_sent /\ i \notin WentUp) \/ (Forwards /\ i \in WentDown)
    BY <1>6 DEF Mouse
  <2> QED BY <1>2, <1>4, <1>5, <1>6, <2>1
<1>7. CASE ~Looks
  <2>1. btn_sent' = btn_sent
    BY <1>7 DEF Mouse
  <2> QED BY <1>2, <1>4, <1>7, <2>1
<1> QED BY <1>6, <1>7

-----------------------------------------------------------------------------
(* Types of the viewer, the worker and the controlled machine              *)

\* While the viewer is open its window reports everything that is held.
InputTyped == TypeOK /\ (viewer = "open" => held \subseteq window_down)

LEMMA PersonKeepsTypes ==
  ASSUME InputAssumption, InputTyped, Person \/ SwitchDesktop PROVE InputTyped'
<1> USE DEF fixed, frame, worker, machine
<1>1. MaxActs \in Nat
  BY DEF InputAssumption
<1>2. Act => acts' \in 0 .. MaxActs
  BY <1>1 DEF Act, InputTyped, TypeOK
<1>3. ASSUME NEW i \in Inputs, Press(i) PROVE InputTyped'
  BY <1>2, <1>3 DEF Press, InputTyped, TypeOK
<1>4. ASSUME NEW i \in Inputs, Release(i) PROVE InputTyped'
  <2>1. CASE Noticed(i)
    BY <1>2, <1>4, <2>1 DEF Release, Noticed, InputTyped, TypeOK
  <2>2. CASE Unnoticed(i)
    <3>1. i \in window_down
      BY <1>4 DEF Release, Act, InputTyped
    <3> QED BY <1>2, <1>4, <2>2, <3>1 DEF Release, Unnoticed, InputTyped, TypeOK
  <2> QED BY <1>4, <2>1, <2>2 DEF Release
<1>5. CASE SwitchWindow
  <2>1. zone' \in Zones /\ focus' \in BOOLEAN
    <3>1. CASE focus
      BY <1>5, <3>1 DEF SwitchWindow, Zones, InputTyped, TypeOK
    <3>2. CASE ~focus
      BY <1>5, <3>2 DEF SwitchWindow, Zones, InputTyped, TypeOK
    <3> QED BY <3>1, <3>2
  <2> QED BY <1>2, <1>5, <2>1 DEF SwitchWindow, InputTyped, TypeOK
<1>6. CASE MovePointer
  BY <1>2, <1>6 DEF MovePointer, Zones, InputTyped, TypeOK
<1>7. CASE SwitchDesktop
  BY <1>2, <1>7 DEF SwitchDesktop, Desktops, InputTyped, TypeOK
<1> QED BY <1>3, <1>4, <1>5, <1>6, <1>7 DEF Person

LEMMA ViewerKeepsTypes ==
  ASSUME InputAssumption, InputTyped, Viewer PROVE InputTyped'
<1> USE DEF fixed, person, worker, machine
<1>1. pressed \subseteq Keys /\ wire \in Seq(Messages)
  BY DEF InputTyped, TypeOK, Messages
<1>2. Round \in Seq(Messages) /\ ReleaseSends \in Seq(Messages)
  BY <1>1, RoundIs, ReleaseIs
<1>3. CASE Iterate
  <2>1. wire' = wire \o Round
    BY <1>3 DEF Iterate, Send, Round
  <2>2. wire' \in Seq(Messages)
    BY <1>1, <1>2, <2>1
  <2>3. pressed' \subseteq Keys /\ swallowed' \subseteq pressed'
    BY <1>3 DEF Iterate, Keyboard, Kept, KeptSwallowed, InputTyped, TypeOK
  <2>4. mouse_btn' \subseteq Buttons /\ btn_sent' \subseteq mouse_btn' /\ grab' \in BOOLEAN
    <3>1. CASE Looks
      <4>1. mouse_btn' = window_down \cap Buttons
        BY <1>3, <3>1 DEF Iterate, Mouse
      <4>2. btn_sent' \subseteq (btn_sent \ WentUp) \cup WentDown
        BY <1>3, <3>1 DEF Iterate, Mouse
      <4>3. btn_sent \ WentUp \subseteq window_down \cap Buttons
        BY DEF WentUp, InputTyped, TypeOK
      <4>4. WentDown \subseteq window_down \cap Buttons
        BY DEF WentDown
      <4>5. grab' \in BOOLEAN
        BY <1>3, <3>1 DEF Iterate, Mouse
      <4> QED BY <4>1, <4>2, <4>3, <4>4, <4>5
    <3>2. CASE ~Looks
      BY <1>3, <3>2 DEF Iterate, Mouse, InputTyped, TypeOK
    <3> QED BY <3>1, <3>2
  <2> QED BY <1>3, <2>2, <2>3, <2>4 DEF Iterate, InputTyped, TypeOK, Messages
<1>4. CASE Escaped
  <2>1. wire' \in Seq(Messages)
    BY <1>1, <1>2, <1>4 DEF Escaped, Send
  <2> QED BY <1>4, <2>1 DEF Escaped, Return, InputTyped, TypeOK, Messages
<1>5. CASE CloseViewer
  BY <1>5 DEF CloseViewer, Return, InputTyped, TypeOK
<1> QED BY <1>3, <1>4, <1>5 DEF Viewer

LEMMA SameSequence ==
  ASSUME NEW M, NEW s \in Seq(M), NEW t \in Seq(M), Len(s) = Len(t),
         \A n \in 1 .. Len(t) : s[n] = t[n]
  PROVE  s = t
  OBVIOUS

\* What a batch takes and leaves of the queue.
Batch == IF Len(input_rx) < BatchMax THEN Len(input_rx) ELSE BatchMax

LEMMA BatchIs ==
  ASSUME InputAssumption, TypeOK, input_rx # <<>>
  PROVE  LET taken == SubSeq(input_rx, 1, Batch)
             rest == SubSeq(input_rx, Batch + 1, Len(input_rx))
         IN /\ Batch \in 1 .. Len(input_rx)
            /\ taken \in Seq(Messages) /\ rest \in Seq(Messages)
            /\ rest \in Seq(InputEvents \cup {Sas})
            /\ Len(rest) < Len(input_rx)
            /\ taken \o rest = input_rx
<1>1. BatchMax \in Nat /\ BatchMax >= 1
  BY DEF InputAssumption
<1> DEFINE M == InputEvents \cup {Sas}
<1>2. input_rx \in Seq(M) /\ Len(input_rx) >= 1
  BY DEF TypeOK
<1>3. \A m \in M : m \in Messages
  BY DEF Messages
<1> HIDE DEF M
<1>4. Batch \in 1 .. Len(input_rx)
  BY <1>1, <1>2 DEF Batch
<1> DEFINE n == Batch
           taken == SubSeq(input_rx, 1, n)
           rest == SubSeq(input_rx, n + 1, Len(input_rx))
<1> HIDE DEF n
<1>5. /\ taken \in Seq(M) /\ rest \in Seq(M)
      /\ Len(taken) = n /\ Len(rest) = Len(input_rx) - n
      /\ \A j \in 1 .. n : taken[j] = input_rx[j]
      /\ \A j \in 1 .. Len(input_rx) - n : rest[j] = input_rx[n + j]
  BY <1>2, <1>4 DEF n
<1> HIDE DEF taken, rest
<1>6. taken \o rest = input_rx
  <2>1. Len(taken \o rest) = Len(input_rx) /\ taken \o rest \in Seq(M)
    <3>0. taken \in Seq(M) /\ rest \in Seq(M)
      BY <1>5
    <3>1. Len(taken \o rest) = Len(taken) + Len(rest) /\ taken \o rest \in Seq(M)
      BY <3>0
    <3>2. n \in Int /\ Len(input_rx) \in Int
      BY <1>2, <1>4 DEF n
    <3> QED BY <1>5, <3>1, <3>2
  <2>2. ASSUME NEW j \in 1 .. Len(input_rx) PROVE (taken \o rest)[j] = input_rx[j]
    <3>1. n \in 1 .. Len(input_rx)
      BY <1>4 DEF n
    <3>2. CASE j \in 1 .. n
      BY <1>2, <1>5, <3>1, <3>2
    <3>3. CASE j \notin 1 .. n
      <4>1. j - n \in 1 .. Len(input_rx) - n /\ n + (j - n) = j
        BY <1>2, <3>1, <3>3
      <4>2. (taken \o rest)[j] = rest[j - n]
        <5>1. taken \in Seq(M) /\ rest \in Seq(M) /\ Len(taken) = n /\ Len(rest) = Len(input_rx) - n
          BY <1>5
        <5>2. j = Len(taken) + (j - n)
          BY <3>1, <4>1, <5>1
        <5>3. \A i \in 1 .. Len(taken) + Len(rest) : (taken \o rest)[i] =
                 IF i <= Len(taken) THEN taken[i] ELSE rest[i - Len(taken)]
          BY <5>1, ConcatProperties, Zenon
        <5>4. j \in 1 .. Len(taken) + Len(rest) /\ ~(j <= Len(taken)) /\ j - Len(taken) = j - n
          <6>1. n \in Int /\ Len(input_rx) \in Int /\ j \in Int
            BY <1>2, <3>1
          <6> QED BY <3>1, <3>3, <5>1, <6>1
        <5> QED BY <5>3, <5>4, Zenon
      <4> QED BY <1>5, <4>1, <4>2
    <3> QED BY <3>2, <3>3
  <2> QED BY <1>2, <2>1, <2>2, SameSequence
<1>7. taken \in Seq(Messages) /\ rest \in Seq(Messages)
  BY <1>3, <1>5
<1>8. Len(rest) < Len(input_rx)
  BY <1>2, <1>4, <1>5 DEF n
<1> QED BY <1>4, <1>5, <1>6, <1>7, <1>8 DEF n, taken, rest, M

LEMMA WorkerKeepsTypes ==
  ASSUME InputAssumption, InputTyped, ServerReads \/ SessionEnds \/ InputLoop
  PROVE  InputTyped'
<1> USE DEF fixed, person, frame, worker, machine
<1>1. CASE ServerReads
  <2> DEFINE m == Head(wire)
  <2>1. wire \in Seq(Messages) /\ wire # <<>>
    BY <1>1 DEF ServerReads, InputTyped, TypeOK, Messages
  <2>2. m \in Messages /\ wire' \in Seq(Messages)
    BY <1>1, <2>1 DEF ServerReads
  <2>3. MaxQueue \in Nat
    BY DEF InputAssumption
  <2>4. CASE m = Config
    BY <1>1, <2>2, <2>4, MessageIs DEF ServerReads, InputTyped, TypeOK, Messages
  <2>5. CASE m # Config
    <3>1. m \in InputEvents \cup {Sas}
      BY <2>2, <2>5 DEF Messages
    <3>2. input_rx' = input_rx \/ input_rx' = Append(input_rx, m)
      BY <1>1, <2>5 DEF ServerReads
    <3> DEFINE M == InputEvents \cup {Sas}
    <3>3. m \in M /\ input_rx \in Seq(M) /\ Len(input_rx) < MaxQueue
      BY <1>1, <3>1 DEF ServerReads, InputTyped, TypeOK
    <3> HIDE DEF m, M
    <3>4. input_rx' \in Seq(M) /\ Len(input_rx') <= MaxQueue
      <4>1. /\ Append(input_rx, m) \in Seq(M) /\ Len(input_rx) \in Nat
            /\ Len(Append(input_rx, m)) = Len(input_rx) + 1
        BY <3>3
      <4>2. CASE input_rx' = Append(input_rx, m)
        <5>1. Len(input_rx) + 1 <= MaxQueue
          BY <2>3, <3>3, <4>1
        <5> QED BY <4>1, <4>2, <5>1
      <4>3. CASE input_rx' = input_rx
        <5>1. Len(input_rx) <= MaxQueue
          BY <2>3, <3>3, <4>1
        <5> QED BY <3>3, <4>3, <5>1
      <4> QED BY <3>2, <4>2, <4>3
    <3>5. input_rx' \in Seq(InputEvents \cup {Sas}) /\ Len(input_rx') <= MaxQueue
      BY <3>4 DEF M
    <3>6. cfg_view_only' \in BOOLEAN
      BY <1>1 DEF ServerReads, InputTyped, TypeOK
    <3> QED BY <1>1, <2>2, <3>5, <3>6 DEF ServerReads, InputTyped, TypeOK, Messages
  <2> QED BY <2>4, <2>5
<1>2. CASE SessionEnds
  BY <1>2 DEF SessionEnds, InputTyped, TypeOK
<1>3. ASSUME Inject PROVE /\ input_rx' \in Seq(InputEvents \cup {Sas}) /\ Len(input_rx') <= MaxQueue
                          /\ desk_name' \in Desktops \cup {"none"}
                          /\ remote' \subseteq Inputs /\ missed' \subseteq Inputs
  <2>1. TypeOK
    BY DEF InputTyped
  <2> DEFINE taken == SubSeq(input_rx, 1, Batch)
             rest == SubSeq(input_rx, Batch + 1, Len(input_rx))
  <2>2. /\ taken \in Seq(Messages) /\ rest \in Seq(InputEvents \cup {Sas})
        /\ Len(rest) < Len(input_rx)
    BY <1>3, <2>1, BatchIs DEF Inject
  <2>3. /\ Ensure /\ input_rx' = rest
        /\ \/ remote' = After(remote, taken) /\ missed' = missed \ Mentioned(taken)
           \/ missed' = missed \cup Mentioned(taken) /\ remote' = remote
    BY <1>3 DEF Inject, Batch
  <2> HIDE DEF taken, rest
  <2>4. Mentioned(taken) \subseteq Inputs
    <3>1. ASSUME NEW n \in DOMAIN taken, taken[n].kind = "input" PROVE taken[n].of \in Inputs
      <4>1. taken[n] \in Messages
        BY <2>2
      <4>2. taken[n] \in InputEvents
        BY <3>1, <4>1, MessageIs DEF Messages
      <4> QED BY <4>2 DEF InputEvents, Event
    <3> QED BY <3>1 DEF Mentioned
  <2>5. After(remote, taken) \subseteq Inputs
    BY DEF After
  <2>6. MaxQueue \in Nat
    BY DEF InputAssumption
  <2>7. Len(input_rx') <= MaxQueue
    BY <2>1, <2>2, <2>3, <2>6 DEF TypeOK
  <2>8. desk_name' \in Desktops \cup {"none"}
    BY <2>1, <2>3 DEF Ensure, TypeOK
  <2>9. remote' \subseteq Inputs /\ missed' \subseteq Inputs
    BY <2>1, <2>3, <2>4, <2>5 DEF TypeOK
  <2> QED BY <2>2, <2>3, <2>7, <2>8, <2>9
<1>4. CASE InjectBatch
  BY <1>3, <1>4 DEF InjectBatch, InputTyped, TypeOK
<1>5. CASE InputIdle
  BY <1>5 DEF InputIdle, Ensure, InputTyped, TypeOK
<1>6. CASE InputEnds
  <2>1. CASE Inject
    BY <1>3, <1>6, <2>1 DEF InputEnds, InputTyped, TypeOK
  <2>2. CASE ~Inject
    BY <1>6, <2>2 DEF InputEnds, InputTyped, TypeOK
  <2> QED BY <2>1, <2>2
<1> QED BY <1>1, <1>2, <1>4, <1>5, <1>6 DEF InputLoop

LEMMA InputTypesHold == Spec => []InputTyped
<1> USE InputAssumption
<1>1. Init => InputTyped
  <2>1. MaxActs \in Nat /\ MaxQueue \in Nat
    BY DEF InputAssumption
  <2>2. ASSUME Init PROVE wire \in Seq(InputEvents \cup {Config, Sas})
    BY <2>2 DEF Init
  <2>3. ASSUME Init PROVE input_rx \in Seq(InputEvents \cup {Sas}) /\ Len(input_rx) = 0
    BY <2>3 DEF Init
  <2>4. ASSUME Init
        PROVE  /\ {view_only, system_priv, focus, grab, cfg_view_only, stopped} \subseteq BOOLEAN
               /\ desktop \in Desktops /\ zone \in Zones
    BY <2>4 DEF Init, Zones, Desktops
  <2>5. ASSUME Init PROVE Len(input_rx) <= MaxQueue /\ acts \in 0 .. MaxActs
    BY <2>1, <2>3, <2>5 DEF Init
  <2>6. ASSUME Init
        PROVE  /\ held \subseteq Inputs /\ window_down \subseteq Inputs /\ window_seen \subseteq Inputs
               /\ pressed \subseteq Keys /\ swallowed \subseteq pressed
               /\ mouse_btn \subseteq Buttons /\ btn_sent \subseteq mouse_btn
               /\ remote \subseteq Inputs /\ missed \subseteq Inputs /\ strayed \subseteq window_down
               /\ held \subseteq window_down
    BY <2>6 DEF Init
  <2>7. ASSUME Init
        PROVE  /\ desk_name \in Desktops \cup {"none"} /\ viewer \in {"open", "closed"}
               /\ input \in {"loop", "done"}
    BY <2>7 DEF Init
  <2> QED BY <2>2, <2>3, <2>4, <2>5, <2>6, <2>7 DEF InputTyped, TypeOK
<1>2. ASSUME InputTyped, UNCHANGED vars PROVE InputTyped'
  BY <1>2 DEF vars, fixed, person, frame, worker, machine, InputTyped, TypeOK
<1>3. InputTyped /\ [Next]_vars => InputTyped'
  BY <1>2, PersonKeepsTypes, ViewerKeepsTypes, WorkerKeepsTypes DEF Next
<1> QED BY <1>1, <1>3, PTL DEF Spec

\* The types of what the person does, the viewer's loop, the messages under way, the input
\* thread and the controlled machine.
THEOREM InputTypes == Spec => []TypeOK
<1>1. InputTyped => TypeOK
  BY DEF InputTyped
<1> QED BY <1>1, InputTypesHold, PTL

-----------------------------------------------------------------------------
(* The viewer knows what is down                                           *)

\* No event is on its way to a view-only session, and until the worker has heard of that
\* the message that says so is the next one.
Silent ==
  viewer = "open" /\ ~stopped =>
    /\ HoldsNothing
    /\ view_only => \A m : In(m, wire) => m.kind # "input"
    /\ (view_only <=> cfg_view_only) \/ (wire # <<>> /\ Head(wire) = Config)

KnowInv == InputTyped /\ Silent /\ ViewerKnows

LEMMA QueuesTyped ==
  ASSUME InputTyped
  PROVE  /\ input_rx \in Seq(Messages) /\ wire \in Seq(Messages)
         /\ input_rx \o wire \in Seq(Messages)
         /\ view_only \in BOOLEAN /\ cfg_view_only \in BOOLEAN
<1>1. wire \in Seq(Messages) /\ view_only \in BOOLEAN /\ cfg_view_only \in BOOLEAN
  BY DEF InputTyped, TypeOK, Messages
<1>2. input_rx \in Seq(InputEvents \cup {Sas})
  BY DEF InputTyped, TypeOK
<1>3. input_rx \in Seq(Messages)
  <2> DEFINE M == InputEvents \cup {Sas}
  <2>1. \A m \in M : m \in Messages
    BY DEF Messages
  <2>2. input_rx \in Seq(M)
    BY <1>2
  <2> HIDE DEF M
  <2> QED BY <2>1, <2>2
<1> QED BY <1>1, <1>3

\* What ViewerKnows says of one input, before and after a step.
Known(view, over, pending, down, not, believed) ==
  view = "open" /\ ~over =>
    \A i \in Inputs : i \notin not \/ i \in Mentioned(pending) =>
      (i \in After(down, pending) <=> i \in believed)

LEMMA Knows ==
  /\ ViewerKnows <=> Known(viewer, stopped, input_rx \o wire, remote, missed, Believed)
  /\ ViewerKnows' <=> Known(viewer', stopped', input_rx' \o wire', remote', missed', Believed')
<1>1. \A S, T : \A i \in Inputs : i \in Inputs \ (S \ T) <=> i \notin S \/ i \in T
  OBVIOUS
<1>2. ViewerKnows <=> Known(viewer, stopped, input_rx \o wire, remote, missed, Believed)
  BY <1>1, Zenon DEF ViewerKnows, Known
<1>3. ViewerKnows' <=> Known(viewer', stopped', input_rx' \o wire', remote', missed', Believed')
  BY <1>1, Zenon DEF ViewerKnows, Known, Mentioned, After
<1> QED BY <1>2, <1>3

\* What follows on the socket follows in the queue, whichever is joined first.
LEMMA ConcatAssociates ==
  ASSUME NEW s \in Seq(Messages), NEW t \in Seq(Messages), NEW u \in Seq(Messages)
  PROVE  (s \o t) \o u = s \o (t \o u)
  OBVIOUS

LEMMA RoundFollows ==
  ASSUME input_rx \in Seq(Messages), wire \in Seq(Messages), Round \in Seq(Messages)
  PROVE  (input_rx \o wire) \o Round = input_rx \o (wire \o Round)
BY ConcatAssociates, Zenon

LEMMA HeadFollows ==
  ASSUME input_rx \in Seq(Messages), NEW m, <<m>> \in Seq(Messages), NEW t \in Seq(Messages)
  PROVE  (input_rx \o <<m>>) \o t = input_rx \o (<<m>> \o t)
BY ConcatAssociates, Zenon

LEMMA RoundKeepsKnowing ==
  ASSUME InputAssumption, KnowInv, Iterate PROVE Silent' /\ ViewerKnows'
<1>1. InputTyped /\ Silent /\ ViewerKnows /\ TypeOK /\ pressed \subseteq Keys
  BY DEF KnowInv, InputTyped, TypeOK
<1>2. /\ viewer = "open" /\ ~stopped /\ Keyboard /\ Mouse
      /\ UNCHANGED <<view_only, cfg_view_only, input_rx, remote, missed, viewer, stopped>>
      /\ wire' = wire \o Round
  BY DEF Iterate, Send, Round, fixed, worker, machine
<1>3. HoldsNothing
  BY <1>1, <1>2 DEF Silent
<1>4. /\ input_rx \in Seq(Messages) /\ wire \in Seq(Messages) /\ Round \in Seq(Messages)
      /\ input_rx \o wire \in Seq(Messages)
  BY <1>1, QueuesTyped, RoundIs
<1>5. (input_rx \o wire)' = (input_rx \o wire) \o Round
  <2>1. (input_rx \o wire)' = input_rx \o (wire \o Round)
    BY <1>2
  <2>2. (input_rx \o wire) \o Round = input_rx \o (wire \o Round)
    BY <1>4, RoundFollows, Zenon
  <2> QED BY <2>1, <2>2
<1>6. InputTyped'
  BY <1>1, ViewerKeepsTypes DEF Viewer
<1>7. ViewerKnows'
  <2> DEFINE old == input_rx \o wire
             new == old \o Round
  <2>1. old \in Seq(Messages)
    BY <1>4
  <2> SUFFICES ASSUME NEW i \in Inputs, i \notin missed \/ i \in Mentioned(new)
               PROVE  i \in After(remote, new) <=> i \in Believed'
    <3>1. input_rx' \o wire' = new
      BY <1>5
    <3> HIDE DEF new
    <3>2. ASSUME \A i \in Inputs : i \notin missed \/ i \in Mentioned(new) =>
                   (i \in After(remote, new) <=> i \in Believed')
          PROVE  ViewerKnows'
      BY <1>2, <3>1, <3>2, Knows DEF Known
    <3> QED BY <3>2
  <2>2. i \notin missed \/ i \in Mentioned(old) =>
          (i \in After(remote, old) <=> i \in Believed)
    BY <1>1, <1>2, Knows, Zenon DEF Known
  <2> HIDE DEF old
  <2>3. /\ i \in Mentioned(new) <=> i \in Mentioned(old) \/ i \in Mentioned(Round)
        /\ i \in Mentioned(Round) => (i \in After(remote, new) <=> i \in After(remote, Round))
        /\ i \notin Mentioned(Round) => (i \in After(remote, new) <=> i \in After(remote, old))
    BY <1>4, <2>1, AfterConcat
  <2> HIDE DEF new
  <2>4. /\ i \in Mentioned(Round) => (i \in After(remote, Round) <=> i \in Believed')
        /\ i \notin Mentioned(Round) => (i \in Believed' <=> i \in Believed)
    <3>1. btn_sent \subseteq Buttons /\ btn_sent' \subseteq Buttons
          /\ pressed \subseteq Keys /\ pressed' \subseteq Keys
      BY <1>6 DEF InputTyped, TypeOK, KnowInv
    <3>2. CASE i \in Keys
      <4>1. i \notin Buttons
        BY <3>2 DEF InputAssumption
      <4>2. /\ i \in Believed <=> i \in pressed \ swallowed
            /\ i \in Believed' <=> i \in pressed' \ swallowed'
        BY <3>1, <4>1 DEF Believed
      <4>3. /\ i \in Mentioned(Round)
                 => (i \in After(remote, Round) <=> i \in pressed' \ swallowed')
            /\ i \notin Mentioned(Round)
                 => (i \in pressed' \ swallowed' <=> i \in pressed \ swallowed)
        BY <1>1, <1>2, <1>3, <3>2, KeyRound
      <4> QED BY <4>2, <4>3
    <3>3. CASE i \in Buttons
      <4>1. i \notin Keys
        BY <3>3 DEF InputAssumption
      <4>2. /\ i \in Believed <=> i \in btn_sent
            /\ i \in Believed' <=> i \in btn_sent'
        BY <3>1, <4>1 DEF Believed
      <4>3. /\ i \in Mentioned(Round) => (i \in After(remote, Round) <=> i \in btn_sent')
            /\ i \notin Mentioned(Round) => (i \in btn_sent' <=> i \in btn_sent)
        BY <1>1, <1>2, <1>3, <3>3, ButtonRound
      <4> QED BY <4>2, <4>3
    <3> QED BY <3>2, <3>3 DEF Inputs
  <2> QED BY <2>2, <2>3, <2>4
<1>8. Silent'
  <2>1. HoldsNothing'
    <3> SUFFICES ASSUME view_only PROVE pressed' = {} /\ btn_sent' = {}
      BY <1>2 DEF HoldsNothing
    <3> QED BY <1>2, <1>3 DEF HoldsNothing, Keyboard, Kept, Mouse, Forwards
  <2>2. ASSUME view_only, NEW m, In(m, wire') PROVE m.kind # "input"
    <3>1. In(m, wire) \/ In(m, Round)
      BY <1>2, <1>4, <2>2, InConcat
    <3>2. CASE In(m, wire)
      BY <1>1, <1>2, <2>2, <3>2 DEF Silent
    <3>3. CASE In(m, Round)
      <4>1. pressed = {} /\ btn_sent = {} /\ ~Forwards
        BY <1>3, <2>2 DEF HoldsNothing, Forwards
      <4>2. m = Sas
        BY <1>1, <2>2, <3>3, <4>1, RoundIs DEF ButtonSays
      <4> QED BY <4>2 DEF Sas
    <3> QED BY <3>1, <3>2, <3>3
  <2>3. wire # <<>> => wire' # <<>> /\ Head(wire') = Head(wire)
    BY <1>2, <1>4
  <2> QED BY <1>1, <1>2, <2>1, <2>2, <2>3 DEF Silent
<1> QED BY <1>7, <1>8

\* A message without an event of i makes no difference to i.
LEMMA WithoutHead ==
  ASSUME NEW m \in Messages, NEW t \in Seq(Messages), NEW i \in Inputs, ~Of(m, i), NEW d
  PROVE  /\ i \in Mentioned(<<m>> \o t) <=> i \in Mentioned(t)
         /\ i \in After(d, <<m>> \o t) <=> i \in After(d, t)
<1>1. <<m>> \in Seq(Messages) /\ \A n \in DOMAIN <<m>> : <<m>>[n] = m
  OBVIOUS
<1> DEFINE s == <<m>>
<1>2. s \in Seq(Messages) /\ \A n \in DOMAIN s : ~Of(s[n], i)
  BY <1>1
<1> HIDE DEF s
<1>3. i \notin Mentioned(s)
  BY <1>2, LastSays
<1>4. /\ i \in Mentioned(s \o t) <=> i \in Mentioned(t)
      /\ i \in Mentioned(t) => (i \in After(d, s \o t) <=> i \in After(d, t))
      /\ i \notin Mentioned(t) => (i \in After(d, s \o t) <=> i \in After(d, s))
  BY <1>2, <1>3, AfterConcat
<1>5. i \in After(d, s) <=> i \in d
  BY <1>2, <1>3, LastSays
<1>6. i \notin Mentioned(t) => (i \in After(d, t) <=> i \in d)
  BY LastSays
<1>7. i \in After(d, s \o t) <=> i \in After(d, t)
  BY <1>4, <1>5, <1>6
<1> QED BY <1>4, <1>7 DEF s

LEMMA ReadingKeepsKnowing ==
  ASSUME InputAssumption, KnowInv, ServerReads PROVE Silent' /\ ViewerKnows'
<1> DEFINE m == Head(wire)
           t == Tail(wire)
<1>1. InputTyped /\ Silent /\ ViewerKnows /\ TypeOK
  BY DEF KnowInv, InputTyped
<1>2. /\ ~stopped /\ wire # <<>> /\ wire' = t
      /\ \/ m = Config /\ cfg_view_only' = view_only /\ UNCHANGED input_rx
         \/ /\ m # Config
            /\ input_rx' = IF m # Sas /\ cfg_view_only THEN input_rx ELSE Append(input_rx, m)
            /\ UNCHANGED cfg_view_only
      /\ UNCHANGED <<view_only, pressed, swallowed, btn_sent, remote, missed, viewer, stopped>>
  BY DEF ServerReads, fixed, person, frame, machine
<1>3. input_rx \in Seq(Messages) /\ wire \in Seq(Messages)
      /\ view_only \in BOOLEAN /\ cfg_view_only \in BOOLEAN
  BY <1>1, QueuesTyped
<1>4. m \in Messages /\ t \in Seq(Messages) /\ wire = <<m>> \o t /\ In(m, wire)
      /\ \A x : In(x, t) => In(x, wire)
  <2>1. /\ m \in Messages /\ t \in Seq(Messages) /\ wire = <<m>> \o t
        /\ 1 \in DOMAIN wire /\ wire[1] = m
        /\ \A n \in DOMAIN t : n + 1 \in DOMAIN wire /\ wire[n + 1] = t[n]
    BY <1>2, <1>3
  <2> HIDE DEF m, t
  <2> QED BY <2>1 DEF In
<1>5. ASSUME viewer = "open" PROVE Silent' /\ (m # Config => (view_only <=> cfg_view_only))
  <2>1. /\ HoldsNothing /\ HoldsNothing'
        /\ view_only => \A x : In(x, wire) => x.kind # "input"
        /\ (view_only <=> cfg_view_only) \/ m = Config
    BY <1>1, <1>2, <1>5 DEF Silent, HoldsNothing
  <2> HIDE DEF m, t
  <2>2. view_only => \A x : In(x, wire') => x.kind # "input"
    BY <1>2, <1>4, <2>1
  <2>3. view_only' <=> cfg_view_only'
    BY <1>2, <2>1
  <2> QED BY <1>2, <2>1, <2>2, <2>3 DEF Silent
<1>6. ASSUME viewer # "open" PROVE Silent'
  BY <1>2, <1>6 DEF Silent
<1> HIDE DEF m, t
<1>7. input_rx' \o wire' \in {input_rx \o wire, input_rx \o t}
      /\ (viewer = "open" => input_rx' \o wire' = input_rx \o wire \/ m = Config)
  <2>1. CASE input_rx' = Append(input_rx, m)
    <3>1. Append(input_rx, m) = input_rx \o <<m>> /\ <<m>> \in Seq(Messages)
      BY <1>3, <1>4
    <3>2. (input_rx \o <<m>>) \o t = input_rx \o (<<m>> \o t)
      <4>1. input_rx \in Seq(Messages) /\ <<m>> \in Seq(Messages) /\ t \in Seq(Messages)
        BY <1>3, <1>4, <3>1
      <4> QED BY <4>1, HeadFollows, Zenon
    <3>3. input_rx' \o wire' = input_rx \o wire
      BY <1>2, <1>4, <2>1, <3>1, <3>2
    <3> QED BY <3>3
  <2>2. CASE input_rx' = input_rx /\ m # Config /\ m # Sas /\ cfg_view_only
    <3>1. m.kind = "input"
      BY <1>4, <2>2, MessageIs
    <3>2. viewer # "open"
      BY <1>1, <1>2, <1>4, <1>5, <2>2, <3>1 DEF Silent
    <3> QED BY <1>2, <2>2, <3>2
  <2>3. CASE input_rx' = input_rx /\ m = Config
    BY <1>2, <2>3
  <2> QED BY <1>2, <2>1, <2>2, <2>3
<1>8. ASSUME viewer = "open" PROVE ViewerKnows'
  <2> DEFINE old == input_rx \o wire
             new == input_rx' \o wire'
  <2>1. Believed' = Believed
    BY <1>2 DEF Believed
  <2>2. ASSUME NEW i \in Inputs
        PROVE  /\ i \in Mentioned(new) <=> i \in Mentioned(old)
               /\ i \in After(remote, new) <=> i \in After(remote, old)
    <3>1. CASE new = old
      BY <3>1
    <3>2. CASE new # old
      <4>1. m = Config /\ new = input_rx \o t
        BY <1>7, <1>8, <3>2
      <4>2. ~Of(m, i)
        BY <4>1 DEF Of, Config
      <4>3. /\ i \in Mentioned(wire) <=> i \in Mentioned(t)
            /\ i \in After(remote, wire) <=> i \in After(remote, t)
        BY <1>4, <4>2, WithoutHead
      <4>4. /\ i \in Mentioned(old) <=> i \in Mentioned(input_rx) \/ i \in Mentioned(wire)
            /\ i \in Mentioned(wire) => (i \in After(remote, old) <=> i \in After(remote, wire))
            /\ i \notin Mentioned(wire)
                 => (i \in After(remote, old) <=> i \in After(remote, input_rx))
        BY <1>3, AfterConcat
      <4> DEFINE new1 == input_rx \o t
      <4>5. /\ i \in Mentioned(new1) <=> i \in Mentioned(input_rx) \/ i \in Mentioned(t)
            /\ i \in Mentioned(t) => (i \in After(remote, new1) <=> i \in After(remote, t))
            /\ i \notin Mentioned(t)
                 => (i \in After(remote, new1) <=> i \in After(remote, input_rx))
        BY <1>3, <1>4, AfterConcat
      <4>6. new = new1
        BY <4>1
      <4> HIDE DEF old, new, new1
      <4> QED BY <4>3, <4>4, <4>5, <4>6
    <3> QED BY <3>1, <3>2
  <2>3. Known(viewer, stopped, old, remote, missed, Believed)
    BY <1>1, Knows
  <2> HIDE DEF old, new
  <2>4. Known(viewer, stopped, new, remote, missed, Believed)
    BY <2>2, <2>3 DEF Known
  <2> QED BY <1>2, <2>1, <2>4, Knows DEF new
<1>9. ASSUME viewer # "open" PROVE ViewerKnows'
  <2>1. Known(viewer', stopped', input_rx' \o wire', remote', missed', Believed')
    BY <1>2, <1>9 DEF Known
  <2> QED BY <2>1, Knows
<1> QED BY <1>5, <1>6, <1>8, <1>9

LEMMA InjectingKeepsKnowing ==
  ASSUME InputAssumption, KnowInv, InjectBatch PROVE Silent' /\ ViewerKnows'
<1> DEFINE taken == SubSeq(input_rx, 1, Batch)
           rest == SubSeq(input_rx, Batch + 1, Len(input_rx))
<1>1. InputTyped /\ Silent /\ ViewerKnows /\ TypeOK
  BY DEF KnowInv, InputTyped
<1>2. /\ input_rx # <<>> /\ input_rx' = rest
      /\ \/ remote' = After(remote, taken) /\ missed' = missed \ Mentioned(taken)
         \/ remote' = remote /\ missed' = missed \cup Mentioned(taken)
      /\ UNCHANGED <<view_only, cfg_view_only, pressed, swallowed, btn_sent, wire, viewer, stopped>>
  BY DEF InjectBatch, Inject, Batch, fixed, person, frame
<1>3. /\ taken \in Seq(Messages) /\ rest \in Seq(Messages) /\ wire \in Seq(Messages)
      /\ taken \o rest = input_rx
  BY <1>1, <1>2, BatchIs, QueuesTyped
<1> HIDE DEF taken, rest
<1>4. Silent'
  BY <1>1, <1>2 DEF Silent, HoldsNothing
<1> DEFINE new == rest \o wire
           old == taken \o new
<1>5. new \in Seq(Messages) /\ input_rx \o wire = old /\ input_rx' \o wire' = new
  <2>1. (taken \o rest) \o wire = taken \o (rest \o wire)
    <3>1. taken \in Seq(Messages) /\ rest \in Seq(Messages) /\ wire \in Seq(Messages)
      BY <1>3
    <3> QED BY <3>1, ConcatAssociates, Zenon
  <2> QED BY <1>2, <1>3, <2>1
<1>6. Known(viewer, stopped, old, remote, missed, Believed)
  BY <1>1, <1>5, Knows
<1>7. Believed' = Believed
  BY <1>2 DEF Believed
<1>8. ASSUME NEW i \in Inputs
      PROVE  /\ i \in Mentioned(old) <=> i \in Mentioned(taken) \/ i \in Mentioned(new)
             /\ i \in Mentioned(new)
                  => (i \in After(remote, old) <=> i \in After(remote', new))
             /\ i \notin Mentioned(new)
                  => /\ i \in After(remote, old) <=> i \in After(remote, taken)
                     /\ i \in After(remote', new) <=> i \in remote'
             /\ i \notin Mentioned(taken) => (i \in After(remote, taken) <=> i \in remote)
  <2>1. /\ i \in Mentioned(old) <=> i \in Mentioned(taken) \/ i \in Mentioned(new)
        /\ i \in Mentioned(new)
             => (i \in After(remote, old) <=> i \in After(remote', new))
        /\ i \notin Mentioned(new)
             => (i \in After(remote, old) <=> i \in After(remote, taken))
    <3> HIDE DEF new
    <3> QED BY <1>3, <1>5, AfterConcat
  <2>2. i \notin Mentioned(new) => (i \in After(remote', new) <=> i \in remote')
    <3> HIDE DEF new
    <3> QED BY <1>5, LastSays
  <2>3. i \notin Mentioned(taken) => (i \in After(remote, taken) <=> i \in remote)
    BY <1>3, LastSays
  <2> QED BY <2>1, <2>2, <2>3
<1> HIDE DEF old, new
<1>9. ASSUME viewer = "open", ~stopped, NEW i \in Inputs, i \notin missed' \/ i \in Mentioned(new)
      PROVE  i \in After(remote', new) <=> i \in Believed
  <2>1. i \notin missed \/ i \in Mentioned(old) => (i \in After(remote, old) <=> i \in Believed)
    BY <1>6, <1>9 DEF Known
  <2>2. CASE i \in Mentioned(new)
    BY <1>8, <2>1, <2>2
  <2>3. CASE i \notin Mentioned(new)
    <3>1. CASE remote' = After(remote, taken) /\ missed' = missed \ Mentioned(taken)
      BY <1>8, <1>9, <2>1, <2>3, <3>1
    <3>2. CASE remote' = remote /\ missed' = missed \cup Mentioned(taken)
      BY <1>8, <1>9, <2>1, <2>3, <3>2
    <3> QED BY <1>2, <3>1, <3>2
  <2> QED BY <2>2, <2>3
<1>10. Known(viewer', stopped', input_rx' \o wire', remote', missed', Believed')
  BY <1>2, <1>5, <1>7, <1>9 DEF Known
<1> QED BY <1>4, <1>10, Knows

\* Every other step leaves alone what ViewerKnows speaks of, or ends viewer or session.
LEMMA OthersKeepKnowing ==
  ASSUME KnowInv,
         \/ viewer' # "open" \/ stopped'
         \/ UNCHANGED <<fixed, viewer, stopped, wire, pressed, swallowed, btn_sent, cfg_view_only,
                        input_rx, remote, missed>>
  PROVE  Silent' /\ ViewerKnows'
<1>1. Silent /\ Known(viewer, stopped, input_rx \o wire, remote, missed, Believed)
  BY Knows DEF KnowInv
<1>2. CASE viewer' # "open" \/ stopped'
  BY <1>2, Knows DEF Silent, Known
<1>3. CASE UNCHANGED <<fixed, viewer, stopped, wire, pressed, swallowed, btn_sent, cfg_view_only,
                       input_rx, remote, missed>>
  <2>1. Believed' = Believed
    BY <1>3 DEF Believed
  <2>2. Known(viewer', stopped', input_rx' \o wire', remote', missed', Believed')
    BY <1>1, <1>3, <2>1
  <2>3. Silent'
    BY <1>1, <1>3 DEF Silent, HoldsNothing, fixed
  <2> QED BY <2>2, <2>3, Knows
<1> QED BY <1>2, <1>3

\* While viewer and session stand, what is down on the controlled machine, once everything
\* under way has been injected, is what the viewer believes, except inputs whose last event
\* met the wrong desktop.
THEOREM ViewerKnowsWhatIsDown == Spec => []ViewerKnows
<1> USE InputAssumption
<1>1. Init => Silent /\ ViewerKnows
  <2> SUFFICES ASSUME Init PROVE Silent /\ ViewerKnows
    OBVIOUS
  <2>1. /\ wire = <<Config>> /\ input_rx = <<>> /\ pressed = {} /\ swallowed = {}
        /\ btn_sent = {} /\ remote = {} /\ missed = {}
    BY DEF Init
  <2>2. Config \in Messages /\ Config.kind = "config" /\ \A i \in Inputs : ~Of(Config, i)
    BY DEF Messages, Config, Of
  <2>3. Silent
    <3>1. \A m : In(m, wire) => m.kind # "input"
      <4>1. \A m : In(m, wire) <=> m = Config
        BY <2>1, Single
      <4>2. Config.kind # "input"
        BY <2>2
      <4> QED BY <4>1, <4>2
    <3>2. Head(wire) = Config /\ wire # <<>> /\ HoldsNothing
      BY <2>1 DEF HoldsNothing
    <3> QED BY <3>1, <3>2 DEF Silent
  <2>4. ASSUME NEW i \in Inputs PROVE i \notin After(remote, input_rx \o wire)
    <3>1. <<>> \in Seq(Messages) /\ <<Config>> \o <<>> = <<Config>> /\ <<>> \o <<Config>> = <<Config>>
      BY <2>2
    <3>2. i \in After(remote, <<Config>> \o <<>>) <=> i \in After(remote, <<>>)
      BY <2>2, <3>1, WithoutHead
    <3>3. i \notin Mentioned(<<>>)
      BY DEF Mentioned
    <3>4. i \in After(remote, <<>>) <=> i \in remote
      BY <3>1, <3>3, LastSays
    <3> QED BY <2>1, <3>1, <3>2, <3>4
  <2>5. Believed = {}
    BY <2>1 DEF Believed
  <2>6. Known(viewer, stopped, input_rx \o wire, remote, missed, Believed)
    BY <2>4, <2>5 DEF Known
  <2> QED BY <2>3, <2>6, Knows
<1>2. InputTyped /\ (Silent /\ ViewerKnows) /\ [Next]_vars => (Silent /\ ViewerKnows)'
  <2> SUFFICES ASSUME KnowInv, [Next]_vars PROVE Silent' /\ ViewerKnows'
    BY DEF KnowInv
  <2> USE DEF fixed, person, frame, worker, machine
  <2>1. ASSUME NEW i \in Inputs, Press(i) \/ Release(i) PROVE Silent' /\ ViewerKnows'
    BY <2>1, OthersKeepKnowing DEF Press, Release
  <2>2. CASE SwitchWindow \/ MovePointer \/ SwitchDesktop
    BY <2>2, OthersKeepKnowing DEF SwitchWindow, MovePointer, SwitchDesktop
  <2>3. CASE Iterate
    BY <2>3, RoundKeepsKnowing
  <2>4. CASE Escaped \/ CloseViewer
    BY <2>4, OthersKeepKnowing DEF Escaped, CloseViewer, Return
  <2>5. CASE ServerReads
    BY <2>5, ReadingKeepsKnowing
  <2>6. CASE SessionEnds
    BY <2>6, OthersKeepKnowing DEF SessionEnds
  <2>7. CASE InjectBatch
    BY <2>7, InjectingKeepsKnowing
  <2>8. CASE InputIdle
    BY <2>8, OthersKeepKnowing DEF InputIdle
  <2>9. CASE InputEnds
    BY <2>9, OthersKeepKnowing DEF InputEnds
  <2>10. CASE UNCHANGED vars
    BY <2>10, OthersKeepKnowing DEF vars
  <2> QED BY <2>1, <2>2, <2>3, <2>4, <2>5, <2>6, <2>7, <2>8, <2>9, <2>10
          DEF Next, Person, Viewer, InputLoop
<1> QED BY <1>1, <1>2, InputTypesHold, PTL DEF Spec

-----------------------------------------------------------------------------
(* The secure attention sequence                                           *)

\* The keys remembered are those that were down one frame ago.
SeenInv == viewer = "open" /\ ~view_only => pressed = window_seen \cap Keys

LEMMA SeenKept == ASSUME SeenInv, [Next]_vars PROVE SeenInv'
<1> USE DEF SeenInv, fixed, person, frame, worker, machine
<1>1. ASSUME NEW i \in Inputs, Press(i) \/ Release(i) PROVE SeenInv'
  BY <1>1 DEF Press, Release
<1>2. CASE SwitchWindow \/ MovePointer \/ SwitchDesktop
  BY <1>2 DEF SwitchWindow, MovePointer, SwitchDesktop
<1>3. CASE Iterate
  BY <1>3 DEF Iterate, Keyboard
<1>4. CASE Escaped \/ CloseViewer
  BY <1>4 DEF Escaped, CloseViewer, Return
<1>5. CASE ServerReads \/ SessionEnds \/ InputLoop
  BY <1>5 DEF ServerReads, SessionEnds, InputLoop, InjectBatch, InputIdle, InputEnds
<1>6. CASE UNCHANGED vars
  BY <1>6 DEF vars
<1> QED BY <1>1, <1>2, <1>3, <1>4, <1>5, <1>6 DEF Next, Person, Viewer

\* What was put on the wire.
LEMMA Appended ==
  ASSUME NEW s \in Seq(Messages), NEW t \in Seq(Messages)
  PROVE  SubSeq(s \o t, Len(s) + 1, Len(s \o t)) = t
<1> DEFINE u == SubSeq(s \o t, Len(s) + 1, Len(s \o t))
<1>1. Len(s \o t) = Len(s) + Len(t) /\ s \o t \in Seq(Messages) /\ Len(s) \in Nat /\ Len(t) \in Nat
  OBVIOUS
<1>2. u \in Seq(Messages) /\ Len(u) = Len(t)
  BY <1>1
<1>3. ASSUME NEW n \in 1 .. Len(t) PROVE u[n] = t[n]
  <2>1. (s \o t)[Len(s) + n] = t[n]
    BY <1>1
  <2>2. u[n] = (s \o t)[(Len(s) + 1) + n - 1] /\ (Len(s) + 1) + n - 1 = Len(s) + n
    BY <1>1, <1>2
  <2> QED BY <2>1, <2>2
<1> HIDE DEF u
<1>4. u = t
  BY <1>2, <1>3, SameSequence
<1> QED BY <1>4 DEF u

\* A round asks for the secure attention sequence only when Delete or Insert was pressed since
\* the round before, or was down when the focus went.
LEMMA RoundAsks ==
  ASSUME InputAssumption, InputTyped, SeenInv, viewer = "open", In(Sas, Round)
  PROVE  Newly \cap {Delete, Insert} # {} \/ (FocusLost /\ Delete \in pressed)
<1>1. pressed \subseteq Keys
  BY DEF InputTyped, TypeOK
<1>2. \/ Insert \in Newly
      \/ ~view_only /\ \E k \in Keys : KeySays(k, Sas)
  BY <1>1, RoundIs, Distinct DEF ButtonSays
<1>3. ASSUME ~view_only, NEW k \in Keys, KeySays(k, Sas)
      PROVE  Delete \in Newly \/ (FocusLost /\ Delete \in pressed)
  <2>1. k = Delete /\ Delete \in window_down \ Kept
    BY <1>3, Distinct DEF KeySays, IsSas
  <2> QED BY <1>3, <2>1 DEF SeenInv, Kept, Newly
<1> QED BY <1>2, <1>3

\* The secure attention sequence is asked for once per press of Delete or Insert; only a
\* window that lost the focus with Delete down asks again.
THEOREM SasOnce == Spec => SasOncePerPress
<1> USE InputAssumption
<1> DEFINE Goal == Len(wire') > Len(wire) /\ Asks(SubSeq(wire', Len(wire) + 1, Len(wire')))
                     => Newly \cap {Delete, Insert} # {} \/ (FocusLost /\ Delete \in pressed)
<1>1. Init => SeenInv
  BY DEF Init, SeenInv
<1>2. InputTyped /\ SeenInv /\ [Next]_vars => SeenInv'
  BY SeenKept
<1>3. ASSUME InputTyped, SeenInv, Next PROVE Goal
  <2> USE DEF fixed, person, frame, worker, machine
  <2>0. wire \in Seq(Messages) /\ pressed \subseteq Keys /\ Len(wire) \in Nat
    BY <1>3, QueuesTyped DEF InputTyped, TypeOK
  <2>1. ASSUME wire' = wire PROVE Goal
    BY <2>0, <2>1
  <2>2. CASE Iterate
    <3>1. wire' = wire \o Round /\ viewer = "open"
      BY <2>2 DEF Iterate, Send, Round
    <3>2. Round \in Seq(Messages)
      BY <2>0, RoundIs
    <3>3. SubSeq(wire', Len(wire) + 1, Len(wire')) = Round
      BY <2>0, <3>1, <3>2, Appended
    <3>4. Asks(Round) => In(Sas, Round)
      BY DEF Asks, In
    <3>5. In(Sas, Round) => Newly \cap {Delete, Insert} # {} \/ (FocusLost /\ Delete \in pressed)
      BY <1>3, <3>1, RoundAsks
    <3> QED BY <3>3, <3>4, <3>5
  <2>3. CASE Escaped
    <3>1. wire' = wire \o ReleaseSends
      BY <2>3 DEF Escaped, Send
    <3>2. ReleaseSends \in Seq(Messages) /\ ~In(Sas, ReleaseSends)
      BY <2>0, ReleaseIs, Distinct
    <3>3. SubSeq(wire', Len(wire) + 1, Len(wire')) = ReleaseSends
      BY <2>0, <3>1, <3>2, Appended
    <3>4. ~Asks(ReleaseSends)
      BY <3>2 DEF Asks, In
    <3> QED BY <3>3, <3>4
  <2>4. CASE ServerReads
    <3>1. wire # <<>> /\ wire' = Tail(wire)
      BY <2>4 DEF ServerReads
    <3>2. Len(Tail(wire)) = Len(wire) - 1
      BY <2>0, <3>1
    <3> QED BY <2>0, <3>1, <3>2
  <2>5. CASE SessionEnds
    <3>1. Len(wire') = 0
      BY <2>5 DEF SessionEnds
    <3> QED BY <2>0, <3>1
  <2>6. CASE CloseViewer
    BY <2>1, <2>6 DEF CloseViewer
  <2>7. CASE Person
    BY <2>1, <2>7 DEF Person, Press, Release, SwitchWindow, MovePointer
  <2>8. CASE SwitchDesktop
    BY <2>1, <2>8 DEF SwitchDesktop
  <2>9. CASE InputLoop
    BY <2>1, <2>9 DEF InputLoop, InjectBatch, InputIdle, InputEnds
  <2> QED BY <1>3, <2>2, <2>3, <2>4, <2>5, <2>6, <2>7, <2>8, <2>9 DEF Next, Viewer
<1>4. InputTyped /\ SeenInv /\ [Next]_vars => [Goal]_vars
  BY <1>3
<1> QED BY <1>1, <1>2, <1>4, InputTypesHold, PTL DEF Spec, SasOncePerPress
-----------------------------------------------------------------------------
(* The list of hosts                                                       *)

\* Each client has a list in memory, rows and the outcome of its last save: all that is
\* needed of the types.
ListShape == DOMAIN hosts = Clients /\ DOMAIN rows = Clients /\ DOMAIN failed = Clients

\* The operations find the entry in memory by the number of a row: the rows show the list
\* in memory, unless the last change was announced as not saved.
RowsAreHosts == \A c \in Clients : failed[c] \/ rows[c] = hosts[c]

RowInv == ListShape /\ RowsAreHosts

\* A save that succeeds renews the rows, one that fails is remembered; the other clients'
\* lists are their own.
LEMMA SaveKeepsRows ==
  ASSUME RowInv, NEW c \in Clients, NEW list, hosts' = [hosts EXCEPT ![c] = list], save_hosts(c)
  PROVE  RowInv'
<1> USE DEF RowInv, ListShape, RowsAreHosts
<1>1. CASE fill_list(c) /\ failed' = [failed EXCEPT ![c] = FALSE]
  BY <1>1 DEF fill_list
<1>2. CASE failed' = [failed EXCEPT ![c] = TRUE] /\ UNCHANGED rows
  BY <1>2
<1> QED BY <1>1, <1>2 DEF save_hosts

\* The dialog's end leaves neither list nor rows.
LEMMA DestroyKeepsRows ==
  ASSUME RowInv, NEW c \in Clients, Destroy(c), UNCHANGED failed
  PROVE  RowInv'
BY DEF RowInv, ListShape, RowsAreHosts, Destroy

\* No step of any client separates rows from list.
LEMMA NextKeepsRows == ASSUME RowInv, [DialogNext]_DialogVars PROVE RowInv'
<1> USE DEF outcome
<1>1. ASSUME NEW c \in Clients, Open(c) PROVE RowInv'
  BY <1>1 DEF Open, RowInv, ListShape, RowsAreHosts
<1>2. ASSUME NEW c \in Clients, Quit(c) PROVE RowInv'
  BY <1>2, DestroyKeepsRows DEF Quit
<1>3. ASSUME NEW c \in Clients, on_connect(c) PROVE RowInv'
  BY <1>3, DestroyKeepsRows DEF on_connect, ConnectWith
<1>4. ASSUME NEW c \in Clients, NEW r, NEW s, DoubleClick(c, r, s) PROVE RowInv'
  BY <1>4, DestroyKeepsRows DEF DoubleClick, ConnectWith
<1>5. ASSUME NEW c \in Clients, NEW s \in SUBSET (1 .. MaxHosts),
             Click(c, s) \/ ArrowKey(c, s)
      PROVE RowInv'
  BY <1>5 DEF Click, ArrowKey, RowInv, ListShape, RowsAreHosts
<1>6. ASSUME NEW c \in Clients, NEW h \in Hosts, Type(c, h) PROVE RowInv'
  BY <1>6 DEF Type, RowInv, ListShape, RowsAreHosts
<1>7. ASSUME NEW c \in Clients, on_add(c) PROVE RowInv'
  BY <1>7, SaveKeepsRows DEF on_add
<1>8. ASSUME NEW c \in Clients, on_update(c) PROVE RowInv'
  BY <1>8, SaveKeepsRows DEF on_update
<1>9. ASSUME NEW c \in Clients, on_delete(c) PROVE RowInv'
  BY <1>9, SaveKeepsRows DEF on_delete
<1>10. CASE UNCHANGED DialogVars
  BY <1>10 DEF DialogVars, memory, connection, RowInv, ListShape, RowsAreHosts
<1> QED BY <1>1, <1>2, <1>3, <1>4, <1>5, <1>6, <1>7, <1>8, <1>9, <1>10 DEF DialogNext

\* A row stands for the entry it shows, unless the client was told that its last change
\* was not saved.
THEOREM RowsStandForHosts == DialogSpec => []RowsAreHosts
<1>1. DialogInit => RowInv
  BY DEF DialogInit, RowInv, ListShape, RowsAreHosts
<1>2. RowInv => RowsAreHosts
  BY DEF RowInv
<1> QED BY <1>1, <1>2, NextKeepsRows, PTL DEF DialogSpec

\* The lists of entries that the file, a client and its rows can hold.
LEMMA ListIs == \A s : s \in Lists <=> s \in Seq(Entries) /\ Len(s) <= MaxHosts
<1> MaxHosts \in Nat
  BY HostListAssumption
<1>1. ASSUME NEW s \in Lists PROVE s \in Seq(Entries) /\ Len(s) <= MaxHosts
  <2>1. PICK m \in 0 .. MaxHosts : s \in [1 .. m -> Entries]
    BY <1>1 DEF Lists, BoundedSeq, SeqOf
  <2> QED BY <2>1
<1>2. ASSUME NEW s \in Seq(Entries), Len(s) <= MaxHosts PROVE s \in Lists
  <2>1. s \in [1 .. Len(s) -> Entries] /\ Len(s) \in 0 .. MaxHosts
    BY <1>2
  <2> QED BY <2>1 DEF Lists, BoundedSeq, SeqOf
<1> QED BY <1>1, <1>2

\* Reading the file loses no entry but those that are read as comments.
LEMMA LoadIs ==
  ASSUME NEW text \in Lists
  PROVE  /\ load_hosts(text) \in Lists
         /\ \A h : In(h, text) /\ h \notin Hashed => In(h, load_hosts(text))
<1> DEFINE line(n) == IF text[n] \in Hashed THEN <<>> ELSE <<text[n]>>
           ps == [n \in DOMAIN text |-> line(n)]
           read == FlattenSeq(ps)
<1>1. text \in Seq(Entries) /\ Len(text) <= MaxHosts /\ Len(text) \in Nat
  BY ListIs
<1>2. ps \in Seq(Seq(Entries)) /\ Len(ps) = Len(text) /\ DOMAIN ps = DOMAIN text
  <2>1. \A n \in DOMAIN text : line(n) \in Seq(Entries)
    BY <1>1
  <2> HIDE DEF line
  <2> QED BY <1>1, <2>1
<1>3. \A n \in DOMAIN ps : ps[n] = line(n) /\ Len(ps[n]) <= 1
  BY <1>2
<1>4. /\ read \in Seq(Entries) /\ Len(read) <= Len(text)
      /\ \A h : In(h, read) <=> \E n \in DOMAIN text : In(h, ps[n])
  <2> HIDE DEF ps
  <2> QED BY <1>2, <1>3, FlattenIs
<1>5. ASSUME NEW h, In(h, text), h \notin Hashed PROVE In(h, read)
  <2>1. PICK n \in DOMAIN text : text[n] = h
    BY <1>5 DEF In
  <2>2. ps[n] = <<h>>
    BY <1>2, <1>3, <1>5, <2>1
  <2>3. In(h, <<h>>)
    BY 1 \in DOMAIN <<h>> DEF In
  <2> HIDE DEF ps
  <2> QED BY <1>4, <2>1, <2>2, <2>3
<1>6. ASSUME NEW h PROVE ~In(h, <<>>)
  BY DEF In
<1>7. load_hosts(text) = IF read = <<>> /\ last_addr THEN <<Prefilled>> ELSE read
  BY DEF load_hosts
<1>8. <<Prefilled>> \in Seq(Entries) /\ Len(<<Prefilled>>) <= MaxHosts
  BY HostListAssumption DEF Entries
<1> HIDE DEF read
<1>9. load_hosts(text) \in Seq(Entries) /\ Len(load_hosts(text)) <= MaxHosts
  <2>1. Len(read) <= MaxHosts
    <3>1. Len(read) \in Nat /\ MaxHosts \in Nat
      BY <1>4, HostListAssumption
    <3> QED BY <1>1, <1>4, <3>1
  <2> QED BY <1>4, <1>7, <1>8, <2>1
<1>10. \A h : In(h, text) /\ h \notin Hashed => In(h, load_hosts(text))
  BY <1>5, <1>6, <1>7, Zenon
<1> QED BY <1>9, <1>10, ListIs

\* What adding, updating and deleting do to a list: one entry at most is taken out, and
\* then the list is no longer than before.
Replaced(s, i, t, g) == s # <<>> /\ i \in DOMAIN s /\ s[i] = g /\ Len(t) <= Len(s)
OnlySelectedGoes(s, i, t) == \A g : In(g, s) => In(g, t) \/ Replaced(s, i, t, g)

LEMMA AppendIs ==
  ASSUME NEW s \in Lists, NEW i, NEW h \in Entries, Len(s) < MaxHosts
  PROVE  Append(s, h) \in Lists /\ OnlySelectedGoes(s, i, Append(s, h))
<1> DEFINE t == Append(s, h)
<1>1. s \in Seq(Entries) /\ Len(s) \in Nat /\ MaxHosts \in Nat
  BY ListIs, HostListAssumption
<1>2. t \in Seq(Entries) /\ Len(t) = Len(s) + 1 /\ \A n \in DOMAIN s : n \in DOMAIN t /\ t[n] = s[n]
  BY <1>1
<1> HIDE DEF t
<1>3. Len(t) <= MaxHosts
  BY <1>1, <1>2
<1>4. ASSUME NEW g, In(g, s) PROVE In(g, t)
  BY <1>2, <1>4 DEF In
<1>5. t \in Lists /\ OnlySelectedGoes(s, i, t)
  BY <1>2, <1>3, <1>4, ListIs DEF OnlySelectedGoes
<1> QED BY <1>5 DEF t

LEMMA UpdateIs ==
  ASSUME NEW s \in Lists, NEW i \in DOMAIN s, NEW h \in Entries
  PROVE  /\ [s EXCEPT ![i] = h] \in Lists
         /\ OnlySelectedGoes(s, i, [s EXCEPT ![i] = h])
<1> DEFINE t == [s EXCEPT ![i] = h]
<1>1. s \in Seq(Entries) /\ Len(s) \in Nat /\ Len(s) <= MaxHosts
  BY ListIs
<1>2. /\ t \in Seq(Entries) /\ Len(t) = Len(s) /\ DOMAIN t = DOMAIN s
      /\ \A n \in DOMAIN s : n # i => t[n] = s[n]
  BY <1>1
<1>3. s # <<>>
  BY <1>1
<1> HIDE DEF t
<1>4. Len(t) <= Len(s)
  BY <1>1, <1>2
<1>5. ASSUME NEW g, In(g, s) PROVE In(g, t) \/ Replaced(s, i, t, g)
  BY <1>2, <1>3, <1>4, <1>5 DEF In, Replaced
<1>6. t \in Lists /\ OnlySelectedGoes(s, i, t)
  BY <1>1, <1>2, <1>5, ListIs DEF OnlySelectedGoes
<1> QED BY <1>6 DEF t

LEMMA SubSeqIs ==
  ASSUME NEW s \in Seq(Entries), NEW a \in Nat, NEW b \in Int, 1 <= a, b <= Len(s)
  PROVE  /\ SubSeq(s, a, b) \in Seq(Entries)
         /\ Len(SubSeq(s, a, b)) = IF a <= b THEN (b - a) + 1 ELSE 0
         /\ \A n \in a .. b : In(s[n], SubSeq(s, a, b))
<1>1. Len(s) \in Nat /\ \A n \in a .. b : s[n] \in Entries
  OBVIOUS
<1>2. /\ SubSeq(s, a, b) \in Seq(Entries)
      /\ Len(SubSeq(s, a, b)) = IF a <= b THEN (b - a) + 1 ELSE 0
      /\ \A i \in 1 .. (b - a) + 1 : SubSeq(s, a, b)[i] = s[(a + i) - 1]
  BY <1>1, SubSeqProperties
<1>3. ASSUME NEW n \in a .. b PROVE In(s[n], SubSeq(s, a, b))
  <2> DEFINE t == SubSeq(s, a, b)
             i == (n - a) + 1
  <2>1. i \in 1 .. (b - a) + 1 /\ (a + i) - 1 = n /\ a <= b
    OBVIOUS
  <2>2. t[i] = s[n] /\ DOMAIN t = 1 .. Len(t) /\ Len(t) = (b - a) + 1
    BY <1>2, <2>1
  <2> HIDE DEF t, i
  <2>3. i \in DOMAIN t
    BY <2>1, <2>2
  <2>4. In(s[n], t)
    BY <2>2, <2>3 DEF In
  <2> QED BY <2>4 DEF t
<1> QED BY <1>2, <1>3

LEMMA RemoveIs ==
  ASSUME NEW s \in Lists, NEW i \in DOMAIN s
  PROVE  RemoveAt(s, i) \in Lists /\ OnlySelectedGoes(s, i, RemoveAt(s, i))
<1> DEFINE a == SubSeq(s, 1, i - 1)
           b == SubSeq(s, i + 1, Len(s))
           t == a \o b
<1>1. /\ s \in Seq(Entries) /\ Len(s) \in Nat /\ Len(s) <= MaxHosts /\ MaxHosts \in Nat
      /\ i \in 1 .. Len(s) /\ DOMAIN s = 1 .. Len(s) /\ s # <<>>
  BY ListIs, HostListAssumption
<1>2. /\ a \in Seq(Entries) /\ Len(a) = i - 1
      /\ \A n \in 1 .. i - 1 : In(s[n], a)
  <2>1. 1 \in Nat /\ i - 1 \in Int /\ 1 <= 1 /\ i - 1 <= Len(s)
    BY <1>1
  <2>2. /\ a \in Seq(Entries) /\ Len(a) = IF 1 <= i - 1 THEN ((i - 1) - 1) + 1 ELSE 0
        /\ \A n \in 1 .. i - 1 : In(s[n], a)
    BY <1>1, <2>1, SubSeqIs
  <2>3. (IF 1 <= i - 1 THEN ((i - 1) - 1) + 1 ELSE 0) = i - 1
    BY <1>1
  <2> HIDE DEF a
  <2> QED BY <2>2, <2>3
<1>3. /\ b \in Seq(Entries) /\ Len(b) = Len(s) - i
      /\ \A n \in i + 1 .. Len(s) : In(s[n], b)
  <2>1. i + 1 \in Nat /\ Len(s) \in Int /\ 1 <= i + 1 /\ Len(s) <= Len(s)
    BY <1>1
  <2>2. /\ b \in Seq(Entries) /\ Len(b) = IF i + 1 <= Len(s) THEN (Len(s) - (i + 1)) + 1 ELSE 0
        /\ \A n \in i + 1 .. Len(s) : In(s[n], b)
    BY <1>1, <2>1, SubSeqIs
  <2>3. (IF i + 1 <= Len(s) THEN (Len(s) - (i + 1)) + 1 ELSE 0) = Len(s) - i
    BY <1>1
  <2> HIDE DEF b
  <2> QED BY <2>2, <2>3
<1> HIDE DEF a, b
<1>4. t \in Seq(Entries) /\ \A g : In(g, t) <=> In(g, a) \/ In(g, b)
  BY <1>2, <1>3, InConcat
<1>5. Len(t) = Len(s) - 1
  <2>1. Len(t) = Len(a) + Len(b)
    BY <1>2, <1>3, ConcatProperties
  <2> HIDE DEF t
  <2> QED BY <1>1, <1>2, <1>3, <2>1
<1> HIDE DEF t
<1>6. Len(t) <= Len(s) /\ Len(t) <= MaxHosts
  BY <1>1, <1>5
<1>7. ASSUME NEW g, In(g, s) PROVE In(g, t) \/ Replaced(s, i, t, g)
  <2>1. PICK n \in 1 .. Len(s) : s[n] = g
    BY <1>1, <1>7 DEF In
  <2>2. n \in 1 .. i - 1 \/ n = i \/ n \in i + 1 .. Len(s)
    BY <1>1
  <2> QED BY <1>1, <1>2, <1>3, <1>4, <1>6, <2>1, <2>2 DEF Replaced
<1>8. t \in Lists /\ OnlySelectedGoes(s, i, t)
  BY <1>4, <1>6, <1>7, ListIs DEF OnlySelectedGoes
<1> QED BY <1>8 DEF t, a, b, RemoveAt

\* A client whose list is as new as the file holds every entry that the file will be read
\* to hold.
Reads ==
  \A c \in Clients : dialog[c] /\ ~stale[c] =>
    \A h : In(h, file) /\ h \notin Hashed => In(h, hosts[c])

ListInv == DialogTypeOK /\ Reads

\* A change of the list takes out the selected entry at most.
LEMMA ChangeIs ==
  ASSUME ListInv, NEW c \in Clients, on_add(c) \/ on_update(c) \/ on_delete(c)
  PROVE  /\ dialog[c] /\ save_hosts(c)
         /\ \E list \in Lists : /\ hosts' = [hosts EXCEPT ![c] = list]
                               /\ OnlySelectedGoes(hosts[c], lv_selected(selected[c]), list)
<1>1. hosts \in [Clients -> Lists] /\ hosts[c] \in Lists /\ (form[c] # Blank => form[c] \in Entries)
  BY DEF ListInv, DialogTypeOK
<1>2. CASE on_add(c)
  <2> DEFINE list == Append(hosts[c], form[c])
  <2>1. list \in Lists /\ OnlySelectedGoes(hosts[c], lv_selected(selected[c]), list)
    BY <1>1, <1>2, AppendIs DEF on_add
  <2>2. hosts' = [hosts EXCEPT ![c] = list]
    BY <1>2 DEF on_add
  <2> QED BY <1>2, <2>1, <2>2 DEF on_add
<1>3. CASE on_update(c)
  <2> DEFINE list == [hosts[c] EXCEPT ![lv_selected(selected[c])] = form[c]]
  <2>1. list \in Lists /\ OnlySelectedGoes(hosts[c], lv_selected(selected[c]), list)
    BY <1>1, <1>3, UpdateIs DEF on_update
  <2>2. hosts' = [hosts EXCEPT ![c] = list]
    BY <1>3 DEF on_update
  <2> QED BY <1>3, <2>1, <2>2 DEF on_update
<1>4. CASE on_delete(c)
  <2> DEFINE list == RemoveAt(hosts[c], lv_selected(selected[c]))
  <2>1. list \in Lists /\ OnlySelectedGoes(hosts[c], lv_selected(selected[c]), list)
    BY <1>1, <1>4, RemoveIs DEF on_delete
  <2>2. hosts' = [hosts EXCEPT ![c] = list]
    BY <1>4 DEF on_delete
  <2> QED BY <1>4, <2>1, <2>2 DEF on_delete
<1> QED BY <1>2, <1>3, <1>4

\* After a save the client that wrote has what is in the file, and it alone; if the write
\* failed, no client is sure to.
LEMMA ChangeKeepsLists ==
  ASSUME ListInv, NEW c \in Clients, on_add(c) \/ on_update(c) \/ on_delete(c)
  PROVE  ListInv'
<1>1. PICK list \in Lists : hosts' = [hosts EXCEPT ![c] = list]
  BY ChangeIs
<1>2. save_hosts(c)
  BY ChangeIs
<1>3. hosts' \in [Clients -> Lists] /\ hosts'[c] = list
  BY <1>1 DEF ListInv, DialogTypeOK
<1>4. list \in Seq(Entries) /\ Len(list) \in Nat /\ Len(list) <= MaxHosts /\ MaxHosts \in Nat
  BY <1>1, ListIs, HostListAssumption
<1>5. /\ last_addr' = last_addr /\ dialog' = dialog /\ form' = form
      /\ result' = result /\ pointed' = pointed
  BY <1>2 DEF save_hosts, connection
<1>6. edits' \in 0 .. MaxEdits
  BY <1>2, HostListAssumption DEF save_hosts, ListInv, DialogTypeOK
<1>7. CASE /\ file' = hosts'[c] /\ fill_list(c) /\ failed' = [failed EXCEPT ![c] = FALSE]
           /\ stale' = [d \in Clients |-> d # c] /\ faults' = faults
  <2>1. rows' \in [Clients -> Lists] /\ selected' \in [Clients -> SUBSET (1 .. MaxHosts)]
    BY <1>3, <1>4, <1>7 DEF fill_list, ListInv, DialogTypeOK
  <2>2. stale' \in [Clients -> BOOLEAN] /\ failed' \in [Clients -> BOOLEAN]
    <3>1. \A d \in Clients : (d # c) \in BOOLEAN
      OBVIOUS
    <3> QED BY <1>7, <3>1 DEF ListInv, DialogTypeOK
  <2>3. DialogTypeOK'
    BY <1>1, <1>3, <1>5, <1>6, <1>7, <2>1, <2>2 DEF ListInv, DialogTypeOK
  <2>4. \A d \in Clients : ~stale'[d] => d = c
    BY <1>7
  <2>5. Reads'
    BY <1>7, <2>4, Zenon DEF Reads, In
  <2> QED BY <2>3, <2>5 DEF ListInv
<1>8. CASE /\ Fault
           /\ \/ UNCHANGED file
              \/ \E n \in 0 .. Len(hosts'[c]) : file' = SubSeq(hosts'[c], 1, n)
           /\ failed' = [failed EXCEPT ![c] = TRUE]
           /\ stale' = [d \in Clients |-> TRUE]
           /\ UNCHANGED <<rows, selected>>
  <2>1. file' \in Lists
    <3>1. CASE UNCHANGED file
      BY <3>1 DEF ListInv, DialogTypeOK
    <3>2. ASSUME NEW n \in 0 .. Len(list), file' = SubSeq(list, 1, n) PROVE file' \in Lists
      <4>1. 1 \in Nat /\ n \in Int /\ 1 <= 1 /\ n <= Len(list)
        BY <1>4
      <4>2. file' \in Seq(Entries) /\ Len(file') = IF 1 <= n THEN (n - 1) + 1 ELSE 0
        BY <1>4, <3>2, <4>1, SubSeqIs
      <4>3. Len(file') <= MaxHosts
        BY <1>4, <4>2
      <4> QED BY <4>2, <4>3, ListIs
    <3> QED BY <1>3, <1>8, <3>1, <3>2
  <2>2. faults' \in 0 .. MaxFaults
    BY <1>8, HostListAssumption DEF Fault, ListInv, DialogTypeOK
  <2>3. stale' \in [Clients -> BOOLEAN] /\ failed' \in [Clients -> BOOLEAN]
    BY <1>8 DEF ListInv, DialogTypeOK
  <2>4. DialogTypeOK'
    BY <1>3, <1>5, <1>6, <1>8, <2>1, <2>2, <2>3 DEF ListInv, DialogTypeOK
  <2>5. Reads'
    BY <1>8 DEF Reads
  <2> QED BY <2>4, <2>5 DEF ListInv
<1> QED BY <1>2, <1>7, <1>8 DEF save_hosts

LEMMA DestroyKeepsLists ==
  ASSUME ListInv, NEW c \in Clients, Destroy(c), last_addr' \in BOOLEAN,
         result' \in [Clients -> Hosts \cup {Blank}], pointed' \in [Clients -> Entries \cup {Blank}],
         UNCHANGED <<file, failed, stale, edits, faults>>
  PROVE  ListInv'
<1>1. <<>> \in Lists /\ MaxHosts \in Nat
  <2>1. <<>> \in Seq(Entries) /\ Len(<<>>) <= MaxHosts /\ MaxHosts \in Nat
    BY HostListAssumption
  <2> QED BY <2>1, ListIs
<1>2. /\ hosts' \in [Clients -> Lists] /\ rows' \in [Clients -> Lists]
      /\ selected' \in [Clients -> SUBSET (1 .. MaxHosts)]
  BY <1>1 DEF Destroy, ListInv, DialogTypeOK
<1>3. dialog' \in [Clients -> BOOLEAN] /\ form' \in [Clients -> Entries \cup {Blank}]
  BY DEF Destroy, ListInv, DialogTypeOK
<1>4. DialogTypeOK'
  BY <1>2, <1>3 DEF ListInv, DialogTypeOK
<1>5. ASSUME NEW d \in Clients, dialog'[d] PROVE d # c /\ dialog[d] /\ hosts'[d] = hosts[d]
  BY <1>5 DEF Destroy, ListInv, DialogTypeOK
<1>6. Reads'
  BY <1>5, Zenon DEF ListInv, Reads
<1> QED BY <1>4, <1>6 DEF ListInv

\* Opening the dialog reads the file, or fails to and knows nothing of it.
LEMMA OpenKeepsLists == ASSUME ListInv, NEW c \in Clients, Open(c) PROVE ListInv'
<1>1. <<>> \in Lists /\ file \in Lists /\ MaxHosts \in Nat
  <2>1. <<>> \in Seq(Entries) /\ Len(<<>>) <= MaxHosts /\ MaxHosts \in Nat
    BY HostListAssumption
  <2> QED BY <2>1, ListIs DEF ListInv, DialogTypeOK
<1>2. load_hosts(<<>>) \in Lists /\ load_hosts(file) \in Lists
  BY <1>1, LoadIs
<1>3. hosts' \in [Clients -> Lists] /\ rows' \in [Clients -> Lists]
  BY <1>2 DEF Open, ListInv, DialogTypeOK
<1>4. /\ selected' \in [Clients -> SUBSET (1 .. MaxHosts)]
      /\ form' \in [Clients -> Entries \cup {Blank}]
      /\ result' \in [Clients -> Hosts \cup {Blank}] /\ pointed' \in [Clients -> Entries \cup {Blank}]
  BY <1>1 DEF Open, ListInv, DialogTypeOK
<1>5. /\ dialog' \in [Clients -> BOOLEAN] /\ failed' \in [Clients -> BOOLEAN]
      /\ stale' \in [Clients -> BOOLEAN]
  BY DEF Open, ListInv, DialogTypeOK
<1>6. faults' \in 0 .. MaxFaults
  BY HostListAssumption DEF Open, Fault, ListInv, DialogTypeOK
<1>7. DialogTypeOK'
  BY <1>3, <1>4, <1>5, <1>6 DEF Open, ListInv, DialogTypeOK
<1>8. ASSUME NEW d \in Clients, d # c
      PROVE  dialog'[d] = dialog[d] /\ stale'[d] = stale[d] /\ hosts'[d] = hosts[d]
  BY <1>8 DEF Open, ListInv, DialogTypeOK
<1>9. ~stale'[c] => hosts'[c] = load_hosts(file)
  BY DEF Open, ListInv, DialogTypeOK
<1>10. \A h : In(h, file) /\ h \notin Hashed => In(h, load_hosts(file))
  BY <1>1, LoadIs
<1>11. file' = file
  BY DEF Open
<1>12. Reads'
  <2> SUFFICES ASSUME NEW d \in Clients, dialog'[d], ~stale'[d],
                      NEW h, In(h, file'), h \notin Hashed
               PROVE  In(h, hosts'[d])
    BY DEF Reads
  <2>1. CASE d = c
    BY <1>9, <1>10, <1>11, <2>1
  <2>2. CASE d # c
    BY <1>8, <1>11, <2>2, Zenon DEF ListInv, Reads
  <2> QED BY <2>1, <2>2
<1> QED BY <1>7, <1>12 DEF ListInv

LEMMA FormIs ==
  ASSUME DialogTypeOK, NEW c \in Clients, NEW s
  PROVE  FormOf(c, s) \in Entries \cup {Blank}
<1>1. hosts[c] \in Seq(Entries) /\ form[c] \in Entries \cup {Blank}
  BY ListIs DEF DialogTypeOK
<1> QED BY <1>1 DEF FormOf

LEMMA NextKeepsLists == ASSUME ListInv, [DialogNext]_DialogVars PROVE ListInv'
<1> USE DEF outcome
<1>0. /\ selected \in [Clients -> SUBSET (1 .. MaxHosts)] /\ dialog \in [Clients -> BOOLEAN]
      /\ form \in [Clients -> Entries \cup {Blank}] /\ last_addr \in BOOLEAN
      /\ result \in [Clients -> Hosts \cup {Blank}] /\ pointed \in [Clients -> Entries \cup {Blank}]
      /\ rows \in [Clients -> Lists]
  BY DEF ListInv, DialogTypeOK
<1>1. ASSUME NEW c \in Clients, Open(c) PROVE ListInv'
  BY <1>1, OpenKeepsLists
<1>2. ASSUME NEW c \in Clients, Quit(c) PROVE ListInv'
  <2>1. /\ last_addr' \in BOOLEAN /\ result' \in [Clients -> Hosts \cup {Blank}]
        /\ pointed' \in [Clients -> Entries \cup {Blank}]
    BY <1>0, <1>2 DEF Quit, connection
  <2> QED BY <1>2, <2>1, DestroyKeepsLists DEF Quit
<1>3. ASSUME NEW c \in Clients, on_connect(c) PROVE ListInv'
  <2>1. /\ last_addr' \in BOOLEAN /\ result' \in [Clients -> Hosts \cup {Blank}]
        /\ pointed' \in [Clients -> Entries \cup {Blank}]
    BY <1>0, <1>3 DEF on_connect, ConnectWith
  <2> QED BY <1>3, <2>1, DestroyKeepsLists DEF on_connect, ConnectWith
<1>4. ASSUME NEW c \in Clients, NEW r, NEW s, DoubleClick(c, r, s) PROVE ListInv'
  <2>1. last_addr' \in BOOLEAN /\ result' \in [Clients -> Hosts \cup {Blank}]
    BY <1>0, <1>4 DEF DoubleClick, ConnectWith
  <2>2. (IF r # 0 /\ r = lv_selected(s) THEN rows[c][r] ELSE Blank) \in Entries \cup {Blank}
    <3>1. rows[c] \in Seq(Entries)
      BY <1>0, ListIs
    <3> QED BY <1>4, <3>1 DEF DoubleClick
  <2>3. pointed' \in [Clients -> Entries \cup {Blank}]
    BY <1>0, <1>4, <2>2 DEF DoubleClick
  <2> QED BY <1>4, <2>1, <2>3, DestroyKeepsLists DEF DoubleClick, ConnectWith
<1>5. ASSUME NEW c \in Clients, NEW s \in SUBSET (1 .. MaxHosts),
             Click(c, s) \/ ArrowKey(c, s)
      PROVE  ListInv'
  <2>1. FormOf(c, s) \in Entries \cup {Blank}
    BY FormIs DEF ListInv
  <2>2. form' \in [Clients -> Entries \cup {Blank}] /\ selected' \in [Clients -> SUBSET (1 .. MaxHosts)]
    BY <1>0, <1>5, <2>1, HostListAssumption DEF Click, ArrowKey
  <2> QED BY <1>5, <2>2 DEF Click, ArrowKey, connection, ListInv, DialogTypeOK, Reads
<1>6. ASSUME NEW c \in Clients, NEW h \in Hosts, Type(c, h) PROVE ListInv'
  BY <1>6 DEF Type, connection, ListInv, DialogTypeOK, Reads, Entries
<1>7. ASSUME NEW c \in Clients, on_add(c) \/ on_update(c) \/ on_delete(c) PROVE ListInv'
  BY <1>7, ChangeKeepsLists
<1>8. CASE UNCHANGED DialogVars
  BY <1>8 DEF DialogVars, memory, connection, ListInv, DialogTypeOK, Reads
<1> QED BY <1>1, <1>2, <1>3, <1>4, <1>5, <1>6, <1>7, <1>8 DEF DialogNext

LEMMA ListInvHolds == DialogSpec => []ListInv
<1>1. DialogInit => ListInv
  <2>1. <<>> \in Lists /\ MaxHosts \in Nat /\ MaxEdits \in Nat /\ MaxFaults \in Nat
    <3>1. <<>> \in Seq(Entries) /\ Len(<<>>) <= MaxHosts
      BY HostListAssumption
    <3> QED BY <3>1, ListIs, HostListAssumption
  <2>2. ASSUME DialogInit PROVE DialogTypeOK
    <3>1. 0 \in 0 .. MaxHosts /\ 0 \in 0 .. MaxEdits /\ 0 \in 0 .. MaxFaults
      BY <2>1
    <3> QED BY <2>1, <2>2, <3>1 DEF DialogInit, DialogTypeOK
  <2>3. ASSUME DialogInit PROVE Reads
    BY <2>3, Zenon DEF DialogInit, Reads
  <2> QED BY <2>2, <2>3 DEF ListInv
<1> QED BY <1>1, NextKeepsLists, PTL DEF DialogSpec

\* The dialog's types hold for any number of clients, entries, changes and faults: in
\* particular every list a client reads back is one that fits, and every selection is
\* within bounds.
THEOREM DialogTypes == DialogSpec => []DialogTypeOK
<1>1. ListInv => DialogTypeOK
  BY DEF ListInv
<1> QED BY <1>1, ListInvHolds, PTL

\* A client whose dialog is on the screen has not connected yet.
ConnectInv == (\A c \in Clients : dialog[c] => pointed[c] = Blank) /\ DoubleClickConnects

\* The row of a double click is the one the entry in memory is found by, or it is not the
\* first of the selected ones.
LEMMA DoubleClickKeeps ==
  ASSUME DialogTypeOK, RowsAreHosts, ConnectInv, NEW c \in Clients, NEW r, NEW s, DoubleClick(c, r, s)
  PROVE  ConnectInv'
<1>1. /\ result' = [result EXCEPT ![c] = FormOf(c, s)] /\ dialog' = [dialog EXCEPT ![c] = FALSE]
      /\ pointed' = [pointed EXCEPT ![c] = IF r # 0 /\ r = lv_selected(s) THEN rows[c][r] ELSE Blank]
      /\ failed' = failed /\ r \in DOMAIN rows[c] \cup {0}
  BY DEF DoubleClick, ConnectWith, Destroy, outcome
<1>2. ASSUME pointed'[c] # Blank, ~failed[c] PROVE result'[c] = pointed'[c]
  <2>1. r # 0 /\ r = lv_selected(s) /\ pointed'[c] = rows[c][r]
    BY <1>1, <1>2 DEF DialogTypeOK
  <2>2. rows[c] = hosts[c] /\ r \in DOMAIN hosts[c]
    BY <1>1, <1>2, <2>1 DEF RowsAreHosts
  <2>3. FormOf(c, s) = rows[c][r]
    BY <2>1, <2>2 DEF FormOf
  <2> QED BY <1>1, <2>1, <2>3 DEF DialogTypeOK
<1>3. ASSUME NEW d \in Clients, d # c
      PROVE  result'[d] = result[d] /\ pointed'[d] = pointed[d] /\ dialog'[d] = dialog[d]
  BY <1>1, <1>3 DEF DialogTypeOK
<1>4. ~dialog'[c]
  BY <1>1 DEF DialogTypeOK
<1> QED BY <1>1, <1>2, <1>3, <1>4 DEF ConnectInv, DoubleClickConnects

LEMMA NextKeepsConnected ==
  ASSUME DialogTypeOK, RowsAreHosts, ConnectInv, [DialogNext]_DialogVars
  PROVE  ConnectInv'
<1> USE DEF outcome, connection
<1>1. ASSUME NEW c \in Clients, Open(c) PROVE ConnectInv'
  BY <1>1 DEF Open, ConnectInv, DoubleClickConnects, DialogTypeOK
<1>2. ASSUME NEW c \in Clients, Quit(c) PROVE ConnectInv'
  BY <1>2 DEF Quit, Destroy, ConnectInv, DoubleClickConnects, DialogTypeOK
<1>3. ASSUME NEW c \in Clients, on_connect(c) PROVE ConnectInv'
  <2>1. /\ dialog[c] /\ dialog' = [dialog EXCEPT ![c] = FALSE]
        /\ result' = [result EXCEPT ![c] = form[c]] /\ pointed' = pointed /\ failed' = failed
    BY <1>3 DEF on_connect, ConnectWith, Destroy
  <2> QED BY <2>1 DEF ConnectInv, DoubleClickConnects, DialogTypeOK
<1>4. ASSUME NEW c \in Clients, NEW r, NEW s, DoubleClick(c, r, s) PROVE ConnectInv'
  BY <1>4, DoubleClickKeeps
<1>5. ASSUME NEW c \in Clients, NEW s, Click(c, s) \/ ArrowKey(c, s) PROVE ConnectInv'
  BY <1>5 DEF Click, ArrowKey, ConnectInv, DoubleClickConnects
<1>6. ASSUME NEW c \in Clients, NEW h, Type(c, h) PROVE ConnectInv'
  BY <1>6 DEF Type, ConnectInv, DoubleClickConnects
<1>7. ASSUME NEW c \in Clients, on_add(c) \/ on_update(c) \/ on_delete(c) PROVE ConnectInv'
  <2>1. dialog[c] /\ save_hosts(c)
    BY <1>7 DEF on_add, on_update, on_delete
  <2>2. dialog' = dialog /\ result' = result /\ pointed' = pointed /\ pointed[c] = Blank
    BY <2>1 DEF save_hosts, ConnectInv
  <2>3. \A d \in Clients : d # c => failed'[d] = failed[d]
    BY <2>1 DEF save_hosts, DialogTypeOK
  <2> QED BY <2>2, <2>3 DEF ConnectInv, DoubleClickConnects
<1>8. CASE UNCHANGED DialogVars
  BY <1>8 DEF DialogVars, ConnectInv, DoubleClickConnects
<1> QED BY <1>1, <1>2, <1>3, <1>4, <1>5, <1>6, <1>7, <1>8 DEF DialogNext

\* A double click connects to the machine its row shows, for any number of clients,
\* entries, changes and faults: unless the client was told that its last change was not
\* saved, or a row above the one clicked is selected too.
THEOREM DoubleClickLeads == DialogSpec => []DoubleClickConnects
<1>1. DialogInit => ConnectInv
  BY DEF DialogInit, ConnectInv, DoubleClickConnects
<1>2. ConnectInv => DoubleClickConnects
  BY DEF ConnectInv
<1> QED BY <1>1, <1>2, NextKeepsConnected, DialogTypes, RowsStandForHosts, PTL DEF DialogSpec

\* No client takes an entry out of the file but the one its person replaces or deletes,
\* unless its list was older than the file.
LEMMA SavingKeeps ==
  ASSUME ListInv, NEW c \in Clients, on_add(c) \/ on_update(c) \/ on_delete(c),
         NEW h \in ToSet(file) \ ToSet(file'), h \notin Hashed, faults' = faults
  PROVE  TakesOut(c, h) \/ (stale[c] /\ dialog[c] /\ ~stale'[c])
<1>1. dialog[c] /\ save_hosts(c)
  BY ChangeIs
<1>2. PICK list \in Lists : /\ hosts' = [hosts EXCEPT ![c] = list]
                           /\ OnlySelectedGoes(hosts[c], lv_selected(selected[c]), list)
  BY ChangeIs
<1>3. ~Fault
  <2>1. faults \in Nat
    BY HostListAssumption DEF ListInv, DialogTypeOK
  <2> QED BY <2>1 DEF Fault
<1>4. file' = hosts'[c] /\ stale' = [d \in Clients |-> d # c]
  BY <1>1, <1>3 DEF save_hosts
<1>5. hosts'[c] = list
  BY <1>2 DEF ListInv, DialogTypeOK
<1>6. In(h, file) /\ ~In(h, list)
  BY <1>4, <1>5 DEF In, ToSet
<1>7. CASE stale[c]
  BY <1>1, <1>4, <1>7
<1>8. CASE ~stale[c]
  <2>1. In(h, hosts[c])
    BY <1>1, <1>6, <1>8 DEF ListInv, Reads
  <2>2. Replaced(hosts[c], lv_selected(selected[c]), list, h)
    BY <1>2, <1>6, <2>1 DEF OnlySelectedGoes
  <2>3. list # hosts[c]
    BY <1>6, <2>1
  <2> QED BY <1>5, <2>2, <2>3 DEF Replaced, TakesOut
<1> QED BY <1>7, <1>8

\* An entry in the file stays there until a person replaces or deletes it, for any number
\* of clients that share the file, whatever each of them does in between.
THEOREM SavedEntriesStay == DialogSpec => SavedStays
<1>1. ASSUME ListInv, [DialogNext]_DialogVars,
             NEW h \in ToSet(file) \ ToSet(file'), h \notin Hashed, faults' = faults
      PROVE  \E c \in Clients : \/ TakesOut(c, h)
                                \/ stale[c] /\ dialog[c] /\ ~stale'[c]
  <2>1. file' # file
    BY <1>1
  <2>2. PICK c \in Clients : on_add(c) \/ on_update(c) \/ on_delete(c)
    BY <1>1, <2>1 DEF DialogNext, DialogVars, Open, Quit, on_connect, Click, DoubleClick,
                      ArrowKey, Type
  <2> QED BY <1>1, <2>2, SavingKeeps
<1>2. ListInv /\ [DialogNext]_DialogVars =>
        [\A h \in ToSet(file) \ ToSet(file') :
           \/ h \in Hashed \/ faults' # faults
           \/ \E c \in Clients : \/ TakesOut(c, h)
                                 \/ stale[c] /\ dialog[c] /\ ~stale'[c]]_DialogVars
  BY <1>1
<1> QED BY <1>2, ListInvHolds, PTL DEF SavedStays, DialogSpec
=============================================================================
