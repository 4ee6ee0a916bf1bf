--------------------------- MODULE ChatRoomProofs ---------------------------
(***************************************************************************)
(* The safety of the chat server, for any number of connections and        *)
(* messages and any room in its channels, and of the whole chat, from page *)
(* to page, for any number of pages and any room in the networks.          *)
(***************************************************************************)
EXTENDS ChatRoom, SequenceTheorems, TLAPS

-----------------------------------------------------------------------------
(* The server *)

USE ChatAssumption

(* Type correctness: every variable keeps to its range, no channel holds   *)
(* more than it has room for, and the Broadcast channel neither.           *)
THEOREM TypeCorrect == Spec => []TypeOK
<1>1. Init => TypeOK
  BY DEF Init, TypeOK
<1>2. TypeOK /\ [Next]_vars => TypeOK'
  <2> SUFFICES ASSUME TypeOK, [Next]_vars PROVE TypeOK'
    OBVIOUS
  <2> USE DEF TypeOK
  <2>1. CASE Broadcast
    <3> DEFINE x    == Head(queue)
               slow == {c \in registered : NoRoom(c)}
               kept == registered \ slow
    <3>1. /\ queue # <<>>
          /\ queue' = Tail(queue)
          /\ log' = Append(log, x)
          /\ messages' = [c \in Conns |-> IF c \in kept THEN Append(messages[c], x)
                                          ELSE messages[c]]
          /\ registered' = kept
          /\ dropped' = dropped \cup slow
          /\ closes' = [c \in Conns |-> IF c \in slow THEN closes[c] + 1 ELSE closes[c]]
          /\ UNCHANGED <<said, since, serve, pump, pumped, ws>>
      BY <2>1 DEF Broadcast, connVars
    <3>2. x \in Incoming /\ Tail(queue) \in Seq(Incoming) /\ Len(Tail(queue)) < Len(queue)
      BY <3>1
    <3>3. queue' \in Seq(Incoming) /\ Len(queue') <= QueueLen
      BY <3>1, <3>2
    <3>4. \A c \in Conns :
            Append(messages[c], x) \in Seq(Incoming)
              /\ Len(Append(messages[c], x)) = Len(messages[c]) + 1
      BY <3>2
    <3>5. \A c \in kept : c \in Conns /\ Len(messages[c]) < Room
      BY DEF NoRoom
    <3> HIDE DEF x, slow, kept
    <3>6. messages' \in [Conns -> Seq(Incoming)]
      BY <3>1, <3>4
    <3>7. \A c \in Conns : Len(messages'[c]) <= Room
      <4> TAKE c \in Conns
      <4>1. CASE c \in kept
        BY <4>1, <3>1, <3>4, <3>5
      <4>2. CASE c \notin kept
        BY <4>2, <3>1
      <4> QED BY <4>1, <4>2
    <3>8. registered' \subseteq Conns /\ dropped' \subseteq Conns
      BY <3>1 DEF slow, kept
    <3>9. closes' \in [Conns -> Nat]
      BY <3>1
    <3> QED BY <3>1, <3>2, <3>3, <3>6, <3>7, <3>8, <3>9
  <2>2. ASSUME NEW m \in Incoming, Say(m) PROVE TypeOK'
    BY <2>2 DEF Say, Set, topicVars, connVars
  <2>3. ASSUME NEW m \in Incoming, Message(m) PROVE TypeOK'
    BY <2>3 DEF Message, Set, connVars
  <2>4. ASSUME NEW c \in Conns, Upgrade(c) PROVE TypeOK'
    BY <2>4 DEF Upgrade, Set, topicVars
  <2>5. ASSUME NEW c \in Conns, Register(c) PROVE TypeOK'
    BY <2>5 DEF Register, Set
  <2>6. ASSUME NEW c \in Conns, Greet(c) PROVE TypeOK'
    BY <2>6 DEF Greet, Set, topicVars
  <2>7. ASSUME NEW c \in Conns, ServeReturns(c) PROVE TypeOK'
    BY <2>7 DEF ServeReturns, Set, topicVars
  <2>8. ASSUME NEW c \in Conns, Unregister(c)
        PROVE registered' \subseteq Conns /\ closes' \in [Conns -> Nat]
    BY <2>8 DEF Unregister, Set
  <2>9. ASSUME NEW c \in Conns, ServeUnregisters(c) PROVE TypeOK'
    <3>1. registered' \subseteq Conns /\ closes' \in [Conns -> Nat]
      BY <2>8, <2>9 DEF ServeUnregisters
    <3> QED BY <2>9, <3>1 DEF ServeUnregisters, Set
  <2>10. ASSUME NEW c \in Conns, PumpOne(c) PROVE TypeOK'
    <3>1. /\ Head(messages[c]) \in Incoming
          /\ Tail(messages[c]) \in Seq(Incoming)
          /\ Len(Tail(messages[c])) < Len(messages[c])
      BY <2>10 DEF PumpOne
    <3>2. Append(pumped[c], Head(messages[c])) \in Seq(Incoming)
      BY <3>1
    <3> QED BY <2>10, <3>1, <3>2 DEF PumpOne, Set
  <2>11. ASSUME NEW c \in Conns, PumpEnds(c) PROVE TypeOK'
    BY <2>11 DEF PumpEnds, Set, topicVars
  <2>12. ASSUME NEW c \in Conns, Kick(c) PROVE TypeOK'
    BY <2>12 DEF Kick, Set, topicVars
  <2>13. ASSUME NEW c \in Conns, PumpUnregisters(c) PROVE TypeOK'
    <3>1. registered' \subseteq Conns /\ closes' \in [Conns -> Nat]
      BY <2>8, <2>13 DEF PumpUnregisters
    <3> QED BY <2>13, <3>1 DEF PumpUnregisters, Set
  <2>14. ASSUME NEW c \in Conns, Disconnect(c) PROVE TypeOK'
    BY <2>14 DEF Disconnect, Set, topicVars
  <2>15. CASE UNCHANGED vars
    BY <2>15 DEF vars, topicVars, connVars
  <2> QED
    BY <2>1, <2>2, <2>3, <2>4, <2>5, <2>6, <2>7, <2>9, <2>10, <2>11, <2>12,
       <2>13, <2>14, <2>15 DEF Next, Serve, Pump
<1> QED BY <1>1, <1>2, PTL DEF Spec

-----------------------------------------------------------------------------
(* A channel that has been closed was known to the topic before, and one   *)
(* that is yet to be made known is neither.                                *)
CloseInv ==
  /\ ClosedOnce
  /\ \A c \in Conns :
       serve[c] \in {"no", "upgraded"} => closes[c] = 0 /\ c \notin registered

(* Whichever of the topic, serve and the pump closes the channel of a      *)
(* connection, and however often they try, it is closed once and offered   *)
(* nothing afterwards.                                                     *)
THEOREM NeverClosedTwice == Spec => []ClosedOnce
<1>1. Init => CloseInv
  BY DEF Init, CloseInv, ClosedOnce
<1>2. TypeOK /\ CloseInv /\ [Next]_vars => CloseInv'
  <2> SUFFICES ASSUME TypeOK, CloseInv, [Next]_vars PROVE CloseInv'
    OBVIOUS
  <2> USE DEF CloseInv, ClosedOnce
  <2>t. /\ closes \in [Conns -> Nat] /\ registered \subseteq Conns
        /\ serve \in [Conns -> {"no", "upgraded", "registered", "serving", "leaving", "returned"}]
    BY DEF TypeOK
  <2>1. CASE Broadcast
    <3> DEFINE slow == {c \in registered : NoRoom(c)}
    <3>1. /\ registered' = registered \ slow
          /\ closes' = [c \in Conns |-> IF c \in slow THEN closes[c] + 1 ELSE closes[c]]
          /\ serve' = serve
      BY <2>1 DEF Broadcast, connVars
    <3>2. \A c \in slow : c \in registered
      OBVIOUS
    <3> HIDE DEF slow
    <3>3. ASSUME NEW c \in Conns
          PROVE /\ closes'[c] <= 1
                /\ c \in registered' => closes'[c] = 0
                /\ serve'[c] \in {"no", "upgraded"} => closes'[c] = 0 /\ c \notin registered'
      <4>1. CASE c \in slow
        <5>1. closes[c] = 0 /\ closes'[c] = 1 /\ c \notin registered'
          BY <2>t, <3>1, <3>2, <4>1
        <5>2. serve[c] \notin {"no", "upgraded"}
          BY <3>2, <4>1
        <5> QED BY <5>1, <5>2, <3>1
      <4>2. CASE c \notin slow
        BY <2>t, <3>1, <4>2
      <4> QED BY <4>1, <4>2
    <3> QED BY <3>3
  <2>2. ASSUME NEW m \in Incoming, Say(m) \/ Message(m) PROVE CloseInv'
    BY <2>2 DEF Say, Message, topicVars, connVars
  <2>3. ASSUME NEW c \in Conns,
               Upgrade(c) \/ Greet(c) \/ ServeReturns(c) \/ PumpOne(c) \/ PumpEnds(c)
                 \/ Kick(c) \/ Disconnect(c)
        PROVE CloseInv'
    <3>1. /\ closes' = closes /\ registered' = registered
          /\ \A d \in Conns :
               serve'[d] \in {"no", "upgraded"} => serve[d] \in {"no", "upgraded"}
      BY <2>t, <2>3 DEF Upgrade, Greet, ServeReturns, PumpOne, PumpEnds, Kick, Disconnect,
                        Set, topicVars
    <3> QED BY <3>1
  <2>4. ASSUME NEW c \in Conns, Register(c) PROVE CloseInv'
    BY <2>t, <2>4 DEF Register, Set
  <2>5. ASSUME NEW c \in Conns, ServeUnregisters(c) \/ PumpUnregisters(c) PROVE CloseInv'
    <3>1. /\ registered' = registered \ {c}
          /\ closes' = IF c \in registered THEN [closes EXCEPT ![c] = closes[c] + 1] ELSE closes
          /\ \A d \in Conns :
               serve'[d] \in {"no", "upgraded"} => serve[d] \in {"no", "upgraded"}
      BY <2>t, <2>5 DEF ServeUnregisters, PumpUnregisters, Unregister, Set
    <3> QED BY <2>t, <3>1
  <2>6. CASE UNCHANGED vars
    BY <2>6 DEF vars, topicVars, connVars
  <2> QED BY <2>1, <2>2, <2>3, <2>4, <2>5, <2>6 DEF Next, Serve, Pump
<1> QED BY <1>1, <1>2, TypeCorrect, PTL DEF Spec, CloseInv

-----------------------------------------------------------------------------
(* What the topic adds to the log does not change what is before it. *)
LEMMA SubSeqOfAppend ==
  ASSUME NEW S, NEW s \in Seq(S), NEW x \in S, NEW a \in Nat, NEW b \in Nat,
         a >= 1, b <= Len(s)
  PROVE  SubSeq(Append(s, x), a, b) = SubSeq(s, a, b)
<1>1. \A i \in a..b : s[i] \in S /\ Append(s, x)[i] = s[i]
  BY ElementOfSeq, AppendProperties
<1>2. /\ SubSeq(s, a, b) \in Seq(S)
      /\ Len(SubSeq(s, a, b)) = IF a <= b THEN b - a + 1 ELSE 0
      /\ \A i \in 1..(b - a + 1) : SubSeq(s, a, b)[i] = s[a + i - 1]
  BY <1>1, SubSeqProperties
<1>3. /\ SubSeq(Append(s, x), a, b) \in Seq(S)
      /\ Len(SubSeq(Append(s, x), a, b)) = IF a <= b THEN b - a + 1 ELSE 0
      /\ \A i \in 1..(b - a + 1) : SubSeq(Append(s, x), a, b)[i] = Append(s, x)[a + i - 1]
  BY <1>1, SubSeqProperties
<1>4. \A i \in 1..Len(SubSeq(s, a, b)) : SubSeq(Append(s, x), a, b)[i] = SubSeq(s, a, b)[i]
  BY <1>1, <1>2, <1>3
<1> QED BY <1>2, <1>3, <1>4, SeqEqual

(* And the end of the log grows by what is added. *)
LEMMA EndOfAppend ==
  ASSUME NEW S, NEW s \in Seq(S), NEW x \in S, NEW a \in Nat,
         1 <= a, a <= Len(s) + 1
  PROVE  SubSeq(Append(s, x), a, Len(s) + 1) = Append(SubSeq(s, a, Len(s)), x)
<1> DEFINE t == Append(s, x)
<1>1. /\ t \in Seq(S) /\ Len(t) = Len(s) + 1 /\ t[Len(s) + 1] = x
  BY AppendProperties
<1>2. SubSeq(t, a, Len(s) + 1) = SubSeq(t, a, Len(s)) \o <<x>>
  <2> HIDE DEF t
  <2>1. a \in 1..Len(t) /\ Len(s) + 1 \in a..Len(t)
    BY <1>1
  <2>2. (Len(s) + 1) - 1 = Len(s)
    BY LenProperties
  <2> QED BY <1>1, <2>1, <2>2, SubSeqRecursiveSecond
<1>3. SubSeq(t, a, Len(s)) = SubSeq(s, a, Len(s))
  BY SubSeqOfAppend, LenProperties
<1>4. SubSeq(s, a, Len(s)) \in Seq(S)
  BY SubSeqProperties, ElementOfSeq
<1> QED BY <1>2, <1>3, <1>4, AppendIsConcat

(* What the pump takes from the channel it has, in the same place. *)
LEMMA MoveHead ==
  ASSUME NEW S, NEW p \in Seq(S), NEW m \in Seq(S), m # <<>>
  PROVE  Append(p, Head(m)) \o Tail(m) = p \o m
<1>1. Head(m) \in S /\ Tail(m) \in Seq(S) /\ Len(Tail(m)) = Len(m) - 1
      /\ \A i \in 1..Len(Tail(m)) : Tail(m)[i] = m[i + 1]
  BY HeadTailProperties
<1>2. Head(m) = m[1] /\ Len(m) >= 1
  BY EmptySeq, LenProperties
<1>3. Append(p, Head(m)) \in Seq(S) /\ Len(Append(p, Head(m))) = Len(p) + 1
      /\ (\A i \in 1..Len(p) : Append(p, Head(m))[i] = p[i])
      /\ Append(p, Head(m))[Len(p) + 1] = Head(m)
  BY <1>1, AppendProperties
<1> DEFINE q == Append(p, Head(m))
           t == Tail(m)
<1> HIDE DEF q, t
<1>4. q \o t \in Seq(S) /\ Len(q \o t) = Len(q) + Len(t)
      /\ \A i \in 1..(Len(q) + Len(t)) :
           (q \o t)[i] = IF i <= Len(q) THEN q[i] ELSE t[i - Len(q)]
  BY <1>1, <1>3, ConcatProperties DEF q, t
<1>5. p \o m \in Seq(S) /\ Len(p \o m) = Len(p) + Len(m)
      /\ \A i \in 1..(Len(p) + Len(m)) :
           (p \o m)[i] = IF i <= Len(p) THEN p[i] ELSE m[i - Len(p)]
  BY ConcatProperties
<1>6. Len(q \o t) = Len(p \o m)
  BY <1>1, <1>3, <1>4, <1>5, LenProperties DEF q, t
<1>7. \A i \in 1..Len(q \o t) : (q \o t)[i] = (p \o m)[i]
  <2> TAKE i \in 1..Len(q \o t)
  <2>1. CASE i <= Len(p)
    BY <2>1, <1>3, <1>4, <1>5, <1>6, LenProperties DEF q
  <2>2. CASE i = Len(p) + 1
    BY <2>2, <1>2, <1>3, <1>4, <1>5, <1>6, LenProperties DEF q
  <2>3. CASE i > Len(p) + 1
    <3>1. i - Len(q) \in 1..Len(t) /\ (i - Len(q)) + 1 = i - Len(p)
      BY <2>3, <1>3, <1>4, LenProperties DEF q
    <3>2. t[i - Len(q)] = m[i - Len(p)]
      BY <3>1, <1>1 DEF t
    <3> QED BY <2>3, <3>1, <3>2, <1>3, <1>4, <1>5, <1>6, LenProperties DEF q
  <2>4. i \in Nat /\ Len(p) \in Nat
    BY LenProperties, <1>4
  <2>5. i <= Len(p) \/ i = Len(p) + 1 \/ i > Len(p) + 1
    BY <2>4
  <2> QED BY <2>1, <2>2, <2>3, <2>5, Zenon
<1>8. q \o t = p \o m
  BY <1>4, <1>5, <1>6, <1>7, SeqEqual
<1> QED BY <1>8 DEF q, t

Got(c) == pumped[c] \o messages[c]

(* What a connection has got ends no later than the log, and one that is   *)
(* yet to register has got nothing.                                        *)
GapInv ==
  \A c \in Conns :
    /\ Got(c) = SubSeq(log, since[c] + 1, since[c] + Len(Got(c)))
    /\ since[c] + Len(Got(c)) <= Len(log)
    /\ c \in registered => since[c] + Len(Got(c)) = Len(log)
    /\ serve[c] \in {"no", "upgraded"} =>
         messages[c] = <<>> /\ pumped[c] = <<>> /\ c \notin registered

(* What a connection has got is a piece of the log, and stays in its place *)
(* when the log grows.                                                     *)
LEMMA GotFromTheLog == Spec => []GapInv
<1>1. Init => GapInv
  <2> SUFFICES ASSUME Init, NEW c \in Conns
      PROVE  /\ Got(c) = SubSeq(log, since[c] + 1, since[c] + Len(Got(c)))
             /\ since[c] + Len(Got(c)) <= Len(log)
             /\ c \notin registered
             /\ messages[c] = <<>> /\ pumped[c] = <<>>
    BY DEF GapInv
  <2>1. pumped[c] = <<>> /\ messages[c] = <<>> /\ since[c] = 0 /\ log = <<>> /\ registered = {}
    BY DEF Init
  <2>2. Got(c) = <<>>
    BY <2>1 DEF Got
  <2>3. SubSeq(log, 1, 0) = <<>>
    BY <2>1
  <2> QED BY <2>1, <2>2, <2>3
<1>2. TypeOK /\ GapInv /\ [Next]_vars => GapInv'
  <2> SUFFICES ASSUME TypeOK, GapInv, [Next]_vars PROVE GapInv'
    OBVIOUS
  <2>t. /\ log \in Seq(Incoming) /\ registered \subseteq Conns
        /\ since \in [Conns -> Nat]
        /\ messages \in [Conns -> Seq(Incoming)] /\ pumped \in [Conns -> Seq(Incoming)]
        /\ serve \in [Conns -> {"no", "upgraded", "registered", "serving", "leaving", "returned"}]
    BY DEF TypeOK
  <2>g. ASSUME NEW c \in Conns PROVE Got(c) \in Seq(Incoming) /\ Len(Got(c)) \in Nat
    BY <2>t, ConcatProperties, LenProperties DEF Got
  <2>u. ASSUME log' = log, since' = since, \A c \in Conns : Got(c)' = Got(c),
               registered' \subseteq registered,
               \A c \in Conns : serve'[c] \in {"no", "upgraded"} =>
                  /\ serve[c] \in {"no", "upgraded"}
                  /\ messages'[c] = messages[c] /\ pumped'[c] = pumped[c]
        PROVE GapInv'
    BY <2>u DEF GapInv
  <2>1. CASE Broadcast
    <3> DEFINE x    == Head(queue)
               kept == registered \ {c \in registered : NoRoom(c)}
    <3>1. /\ log' = Append(log, x)
          /\ messages' = [c \in Conns |-> IF c \in kept THEN Append(messages[c], x)
                                          ELSE messages[c]]
          /\ registered' = kept
          /\ UNCHANGED <<since, serve, pumped>>
      BY <2>1 DEF Broadcast, connVars
    <3>2. x \in Incoming
      BY <2>1 DEF Broadcast, TypeOK
    <3>3. kept \subseteq registered
      OBVIOUS
    <3> HIDE DEF x, kept
    <3>4. Len(log') = Len(log) + 1 /\ Len(log) \in Nat
      BY <2>t, <3>1, <3>2, AppendProperties, LenProperties
    <3>5. ASSUME NEW c \in Conns
          PROVE /\ Got(c)' = SubSeq(log', since'[c] + 1, since'[c] + Len(Got(c)'))
                /\ since'[c] + Len(Got(c)') <= Len(log')
                /\ c \in registered' => since'[c] + Len(Got(c)') = Len(log')
                /\ serve'[c] \in {"no", "upgraded"} =>
                     messages'[c] = <<>> /\ pumped'[c] = <<>> /\ c \notin registered'
      <4>1. CASE c \in kept
        <5>1. since[c] + Len(Got(c)) = Len(log)
              /\ Got(c) = SubSeq(log, since[c] + 1, Len(log))
              /\ serve[c] \notin {"no", "upgraded"}
          BY <3>3, <4>1 DEF GapInv
        <5>2. Got(c)' = Append(Got(c), x)
          <6>1. Got(c)' = pumped[c] \o Append(messages[c], x)
            BY <2>t, <3>1, <4>1 DEF Got
          <6>2. /\ Append(messages[c], x) = messages[c] \o <<x>>
                /\ Append(Got(c), x) = Got(c) \o <<x>>
            BY <2>t, <2>g, <3>2, AppendIsConcat
          <6>3. (pumped[c] \o messages[c]) \o <<x>> = pumped[c] \o (messages[c] \o <<x>>)
            BY <2>t, <3>2, ConcatAssociative
          <6> QED BY <6>1, <6>2, <6>3 DEF Got
        <5>3. Len(Got(c)') = Len(Got(c)) + 1
          BY <2>g, <3>2, <5>2, AppendProperties
        <5>4. since[c] + 1 \in Nat /\ 1 <= since[c] + 1 /\ since[c] + 1 <= Len(log) + 1
          BY <2>t, <2>g, <5>1
        <5>5. SubSeq(log', since[c] + 1, Len(log) + 1)
                = Append(SubSeq(log, since[c] + 1, Len(log)), x)
          BY <2>t, <3>1, <3>2, <5>4, EndOfAppend
        <5>6. since'[c] + Len(Got(c)') = Len(log) + 1
          BY <2>t, <2>g, <3>1, <5>1, <5>3
        <5>7. Got(c)' = SubSeq(log', since'[c] + 1, since'[c] + Len(Got(c)'))
          BY <3>1, <5>1, <5>2, <5>5, <5>6
        <5>8. since'[c] + Len(Got(c)') = Len(log')
          BY <3>4, <5>6
        <5>9. since'[c] + Len(Got(c)') <= Len(log')
          BY <3>4, <5>8
        <5>10. serve'[c] \notin {"no", "upgraded"}
          BY <3>1, <5>1
        <5> QED BY <5>7, <5>8, <5>9, <5>10, Zenon
      <4>2. CASE c \notin kept
        <5>1. messages'[c] = messages[c] /\ Got(c)' = Got(c) /\ since'[c] = since[c]
          BY <2>t, <3>1, <4>2 DEF Got
        <5>2. /\ Got(c) = SubSeq(log, since[c] + 1, since[c] + Len(Got(c)))
              /\ since[c] + Len(Got(c)) <= Len(log)
          BY DEF GapInv
        <5>3. SubSeq(log', since[c] + 1, since[c] + Len(Got(c)))
                = SubSeq(log, since[c] + 1, since[c] + Len(Got(c)))
          <6>1. since[c] + 1 \in Nat /\ since[c] + 1 >= 1 /\ since[c] + Len(Got(c)) \in Nat
            BY <2>t, <2>g
          <6>2. SubSeq(Append(log, x), since[c] + 1, since[c] + Len(Got(c)))
                  = SubSeq(log, since[c] + 1, since[c] + Len(Got(c)))
            <7> DEFINE a == since[c] + 1
                       b == since[c] + Len(Got(c))
            <7>1. a \in Nat /\ b \in Nat /\ a >= 1 /\ b <= Len(log)
              BY <5>2, <6>1
            <7> HIDE DEF a, b
            <7>2. SubSeq(Append(log, x), a, b) = SubSeq(log, a, b)
              BY <2>t, <3>2, <7>1, SubSeqOfAppend
            <7> QED BY <7>2 DEF a, b
          <6> QED BY <3>1, <6>2
        <5>4. since[c] + Len(Got(c)) <= Len(log')
          BY <2>t, <2>g, <3>4, <5>2
        <5>5. serve[c] \in {"no", "upgraded"} => messages[c] = <<>> /\ pumped[c] = <<>>
          BY DEF GapInv
        <5> QED BY <3>1, <4>2, <5>1, <5>2, <5>3, <5>4, <5>5
      <4> QED BY <4>1, <4>2
    <3> QED BY <3>5 DEF GapInv
  <2>2. ASSUME NEW m \in Incoming, Say(m) \/ Message(m) PROVE GapInv'
    BY <2>2, <2>u DEF Say, Message, Got, topicVars, connVars
  <2>3. ASSUME NEW c \in Conns, Register(c) PROVE GapInv'
    <3>1. /\ log' = log /\ messages' = messages /\ pumped' = pumped
          /\ since' = [since EXCEPT ![c] = Len(log)]
          /\ registered' = registered \cup {c}
          /\ serve' = [serve EXCEPT ![c] = "registered"]
          /\ messages[c] = <<>> /\ pumped[c] = <<>>
      BY <2>3 DEF Register, Set, GapInv
    <3>2. Got(c)' = <<>> /\ Len(Got(c)') = 0
      BY <3>1 DEF Got
    <3>3. since'[c] = Len(log) /\ Len(log) \in Nat
      BY <2>t, <3>1, LenProperties
    <3>4. SubSeq(log', Len(log) + 1, Len(log) + 0) = <<>>
      BY <2>t, <3>1, <3>3, SubSeqEmpty
    <3>5. \A d \in Conns \ {c} :
            /\ Got(d)' = Got(d) /\ since'[d] = since[d] /\ serve'[d] = serve[d]
            /\ d \in registered' <=> d \in registered
      BY <2>t, <3>1 DEF Got
    <3>6. serve'[c] \notin {"no", "upgraded"}
      BY <2>t, <3>1
    <3>7. ASSUME NEW d \in Conns
          PROVE /\ Got(d)' = SubSeq(log', since'[d] + 1, since'[d] + Len(Got(d)'))
                /\ since'[d] + Len(Got(d)') <= Len(log')
                /\ d \in registered' => since'[d] + Len(Got(d)') = Len(log')
                /\ serve'[d] \in {"no", "upgraded"} =>
                     messages'[d] = <<>> /\ pumped'[d] = <<>> /\ d \notin registered'
      <4>1. CASE d = c
        BY <3>1, <3>2, <3>3, <3>4, <3>6, <4>1
      <4>2. CASE d # c
        BY <3>1, <3>5, <4>2 DEF GapInv
      <4> QED BY <4>1, <4>2
    <3> QED BY <3>7 DEF GapInv
  <2>4. ASSUME NEW c \in Conns, PumpOne(c) PROVE GapInv'
    <3>1. /\ log' = log /\ since' = since /\ registered' = registered /\ serve' = serve
          /\ messages[c] # <<>>
          /\ messages' = [messages EXCEPT ![c] = Tail(messages[c])]
          /\ pumped' = [pumped EXCEPT ![c] = Append(pumped[c], Head(messages[c]))]
      BY <2>4 DEF PumpOne, Set
    <3>2. Got(c)' = Got(c)
      BY <2>t, <3>1, MoveHead DEF Got
    <3>3. \A d \in Conns : Got(d)' = Got(d)
      BY <2>t, <3>1, <3>2 DEF Got
    <3>4. \A d \in Conns : serve'[d] \in {"no", "upgraded"} =>
             messages'[d] = messages[d] /\ pumped'[d] = pumped[d]
      BY <2>t, <3>1 DEF GapInv
    <3> QED BY <2>u, <3>1, <3>3, <3>4
  <2>5. ASSUME NEW c \in Conns,
               \/ Upgrade(c) \/ Greet(c) \/ ServeReturns(c) \/ ServeUnregisters(c)
               \/ PumpEnds(c) \/ Kick(c) \/ PumpUnregisters(c) \/ Disconnect(c)
        PROVE GapInv'
    <3>1. /\ log' = log /\ since' = since /\ messages' = messages /\ pumped' = pumped
          /\ registered' \subseteq registered
          /\ \A d \in Conns :
               serve'[d] \in {"no", "upgraded"} => serve[d] \in {"no", "upgraded"}
      BY <2>t, <2>5 DEF Upgrade, Greet, ServeReturns, ServeUnregisters, PumpEnds, Kick,
                        PumpUnregisters, Disconnect, Unregister, Set, topicVars
    <3> QED BY <2>u, <3>1 DEF Got
  <2>6. CASE UNCHANGED vars
    BY <2>6, <2>u DEF vars, topicVars, connVars, Got
  <2> QED BY <2>1, <2>2, <2>3, <2>4, <2>5, <2>6 DEF Next, Serve, Pump
<1> QED BY <1>1, <1>2, TypeCorrect, PTL DEF Spec

(* For any number of connections, broadcasts and places in a channel, a    *)
(* pump is handed everything broadcast since its connection registered,    *)
(* in order, up to when it is dropped or leaves.                           *)
THEOREM NothingPassedOver == Spec => []NoGaps
<1>1. GapInv => NoGaps
  BY DEF GapInv, NoGaps, Got
<1> QED BY <1>1, GotFromTheLog, PTL

-----------------------------------------------------------------------------
(* From page to page *)

USE RoomAssumption

(* To the server of Chat, a step of the room is a step or nothing. *)
LEMMA RoomStep == [RoomNext]_roomVars => [Next]_vars
<1> SUFFICES ASSUME RoomNext PROVE [Next]_vars
  BY DEF roomVars
<1>1. CASE Server
  <2>1. CASE Meanwhile(Broadcast)
    BY <2>1 DEF Meanwhile, Next
  <2>2. ASSUME NEW x \in Incoming, ServeCall(x) \/ Meanwhile(Message(x)) PROVE Next
    BY <2>2 DEF ServeCall, Meanwhile, Next
  <2>3. ASSUME NEW c \in Conns, ServeRoom(c) PROVE Next
    BY <2>3 DEF ServeRoom, GreetPage, Meanwhile, Next, Serve
  <2>4. ASSUME NEW c \in Conns, PumpRoom(c) PROVE Next
    BY <2>4 DEF PumpRoom, PumpToPage, Meanwhile, Next, Pump
  <2>5. ASSUME NEW c \in Conns, WriteMessage(c) PROVE UNCHANGED vars
    BY <2>5 DEF WriteMessage
  <2> QED BY <1>1, <2>1, <2>2, <2>3, <2>4, <2>5 DEF Server
<1>2. ASSUME NEW c \in Conns, Meanwhile(Upgrade(c)) \/ Leave(c) PROVE Next
  BY <1>2 DEF Leave, Meanwhile, Next
<1>3. ASSUME NEW c \in Conns, Page(c) PROVE UNCHANGED vars
  BY <1>3 DEF Page, OnMessage, Handle
<1>4. ASSUME NEW c \in Conns, NEW x \in Incoming, Send(c, x) PROVE UNCHANGED vars
  BY <1>4 DEF Send
<1> QED BY <1>1, <1>2, <1>3, <1>4 DEF RoomNext

(* The room implements the server of Chat: what holds of any server that   *)
(* is called by whoever likes holds of this one, called by the pages.      *)
THEOREM RoomImplementsChat == RoomSpec => Spec
<1>1. RoomInit => Init
  BY DEF RoomInit
<1> QED BY <1>1, RoomStep, PTL DEF RoomSpec, Spec

-----------------------------------------------------------------------------
(* What RoomTypeOK adds to the TypeOK of the server. *)
PageTypeOK ==
  /\ author \in [Incoming -> Conns \cup {Nobody}]
  /\ calls \in [Conns -> SUBSET Outgoing] /\ reading \in [Conns -> SUBSET Outgoing]
  /\ frames \in [Conns -> Seq(Outgoing)] /\ shown \in [Conns -> [Outgoing -> Nat]]
  /\ \A c \in Conns : Len(frames[c]) <= Buffered

(* For any number of pages and messages every variable keeps to its range, *)
(* and the network never holds more for a page than it has room for.       *)
THEOREM RoomTypeCorrect == RoomSpec => []RoomTypeOK
<1>1. RoomInit => PageTypeOK
  BY DEF RoomInit, PageTypeOK, Outgoing
<1>2. TypeOK /\ PageTypeOK /\ [RoomNext]_roomVars => PageTypeOK'
  <2> SUFFICES ASSUME TypeOK, PageTypeOK, [RoomNext]_roomVars PROVE PageTypeOK'
    OBVIOUS
  <2> USE DEF PageTypeOK
  <2>1. CASE UNCHANGED pageVars
    BY <2>1 DEF pageVars
  <2>2. ASSUME NEW c \in Conns, NEW x \in Incoming, Send(c, x) PROVE PageTypeOK'
    BY <2>2 DEF Send, Set
  <2>3. ASSUME NEW c \in Conns, OnMessage(c) PROVE PageTypeOK'
    <3>1. /\ Head(frames[c]) \in Outgoing /\ Tail(frames[c]) \in Seq(Outgoing)
          /\ Len(Tail(frames[c])) < Len(frames[c])
      BY <2>3 DEF OnMessage
    <3>2. /\ Len(frames[c]) <= Buffered /\ Len(frames[c]) \in Nat
          /\ Len(Tail(frames[c])) \in Nat
      BY <3>1, LenProperties
    <3>3. Len(Tail(frames[c])) <= Buffered
      BY <3>1, <3>2
    <3> QED BY <2>3, <3>1, <3>3 DEF OnMessage, Set
  <2>4. ASSUME NEW c \in Conns, Handle(c) PROVE PageTypeOK'
    <3>1. PICK x \in reading[c] :
            /\ reading' = [reading EXCEPT ![c] = reading[c] \ {x}]
            /\ shown' = [shown EXCEPT ![c][x] = @ + 1]
            /\ UNCHANGED <<author, calls, frames>>
      BY <2>4 DEF Handle, Set
    <3>2. x \in Outgoing /\ [shown[c] EXCEPT ![x] = @ + 1] \in [Outgoing -> Nat]
      OBVIOUS
    <3> QED BY <3>1, <3>2
  <2>5. ASSUME NEW c \in Conns, NEW x \in Outgoing, Go(c, x) PROVE PageTypeOK'
    BY <2>5 DEF Go, Set
  <2>6. ASSUME NEW c \in Conns, GreetPage(c) PROVE PageTypeOK'
    BY <2>5, <2>6 DEF GreetPage, Outgoing
  <2>7. ASSUME NEW c \in Conns, PumpToPage(c) PROVE PageTypeOK'
    <3>1. Head(messages[c]) \in Outgoing
      BY <2>7 DEF PumpToPage, PumpOne, TypeOK, Outgoing
    <3> QED BY <2>5, <2>7, <3>1 DEF PumpToPage
  <2>8. ASSUME NEW c \in Conns, WriteMessage(c) PROVE PageTypeOK'
    <3>1. PICK x \in calls[c] :
            /\ calls' = [calls EXCEPT ![c] = calls[c] \ {x}]
            /\ \/ /\ Len(frames[c]) < Buffered
                  /\ frames' = [frames EXCEPT ![c] = Append(frames[c], x)]
               \/ UNCHANGED frames
            /\ UNCHANGED <<author, reading, shown>>
      BY <2>8 DEF WriteMessage, Set
    <3>2. /\ x \in Outgoing /\ Append(frames[c], x) \in Seq(Outgoing)
          /\ Len(Append(frames[c], x)) = Len(frames[c]) + 1 /\ Len(frames[c]) \in Nat
      BY AppendProperties, LenProperties
    <3>3. Len(frames[c]) < Buffered => Len(Append(frames[c], x)) <= Buffered
      BY <3>2
    <3> QED BY <3>1, <3>2, <3>3
  <2> QED
    BY <2>1, <2>2, <2>3, <2>4, <2>6, <2>7, <2>8
       DEF RoomNext, Server, ServeRoom, PumpRoom, Page, Leave, Meanwhile, ServeCall,
           roomVars
<1>3. TypeOK /\ PageTypeOK => RoomTypeOK
  BY DEF RoomTypeOK, PageTypeOK
<1> QED BY <1>1, <1>2, <1>3, RoomImplementsChat, TypeCorrect, PTL DEF RoomSpec

-----------------------------------------------------------------------------
(* Sequences without repetition *)

Distinct(s) == \A i, j \in 1..Len(s) : s[i] = s[j] => i = j

LEMMA AppendElements ==
  ASSUME NEW S, NEW s \in Seq(S), NEW x \in S
  PROVE  /\ Elements(Append(s, x)) = Elements(s) \cup {x}
         /\ Distinct(s) /\ x \notin Elements(s) => Distinct(Append(s, x))
<1>1. /\ Len(Append(s, x)) = Len(s) + 1 /\ Len(s) \in Nat
      /\ Append(s, x)[Len(s) + 1] = x
      /\ \A i \in 1..Len(s) : Append(s, x)[i] = s[i]
  BY AppendProperties, LenProperties
<1> DEFINE t == Append(s, x)
<1> HIDE DEF t
<1>2. /\ \A i \in 1..Len(t) : i \in 1..Len(s) \/ i = Len(s) + 1
      /\ \A i \in 1..Len(s) : i \in 1..Len(t) /\ i # Len(s) + 1
      /\ Len(s) + 1 \in 1..Len(t)
  BY <1>1 DEF t
<1>3. Elements(t) = Elements(s) \cup {x}
  BY <1>1, <1>2 DEF Elements, t
<1>4. ASSUME Distinct(s), x \notin Elements(s) PROVE Distinct(t)
  BY <1>1, <1>2, <1>4 DEF Distinct, Elements, t
<1> QED BY <1>3, <1>4 DEF t

LEMMA TailElements ==
  ASSUME NEW S, NEW s \in Seq(S), s # <<>>
  PROVE  /\ Elements(s) = Elements(Tail(s)) \cup {Head(s)}
         /\ Distinct(s) => Distinct(Tail(s)) /\ Head(s) \notin Elements(Tail(s))
<1> DEFINE t == Tail(s)
<1>1. /\ Len(t) = Len(s) - 1 /\ Len(s) \in Nat /\ Len(s) >= 1 /\ Head(s) = s[1]
      /\ \A i \in 1..Len(t) : t[i] = s[i + 1]
  BY HeadTailProperties, EmptySeq, LenProperties
<1> HIDE DEF t
<1>2. /\ \A i \in 1..Len(t) : i + 1 \in 1..Len(s) /\ i + 1 # 1
      /\ \A i \in 1..Len(s) : i = 1 \/ (i - 1 \in 1..Len(t) /\ (i - 1) + 1 = i)
      /\ 1 \in 1..Len(s)
      /\ \A i, j \in 1..Len(t) : i + 1 = j + 1 => i = j
  BY <1>1
<1>3. Elements(s) = Elements(t) \cup {Head(s)}
  <2>1. ASSUME NEW i \in 1..Len(s) PROVE s[i] \in Elements(t) \cup {Head(s)}
    <3>1. CASE i = 1
      BY <1>1, <3>1
    <3>2. CASE i # 1
      <4>1. i - 1 \in 1..Len(t) /\ t[i - 1] = s[i]
        BY <1>1, <1>2, <3>2
      <4> QED BY <4>1 DEF Elements
    <3> QED BY <3>1, <3>2
  <2>2. ASSUME NEW i \in 1..Len(t) PROVE t[i] \in Elements(s)
    BY <1>1, <1>2 DEF Elements
  <2>3. Head(s) \in Elements(s)
    BY <1>1, <1>2 DEF Elements
  <2> QED BY <2>1, <2>2, <2>3 DEF Elements
<1>4. ASSUME Distinct(s) PROVE Distinct(t) /\ Head(s) \notin Elements(t)
  BY <1>1, <1>2, <1>4 DEF Distinct, Elements
<1> QED BY <1>3, <1>4 DEF t

-----------------------------------------------------------------------------
(* Whatever is in the topic, broadcast or yet to be, is there once, and    *)
(* somebody has sent it.  The pump starts after the greeting.              *)
Flow == log \o queue

FlowInv ==
  /\ \A x \in Incoming : said[x] # "no" => author[x] # Nobody
  /\ Distinct(Flow)
  /\ \A x \in Elements(Flow) : said[x] = "returned"
  /\ \A c \in Conns : serve[c] \in {"no", "upgraded", "registered"} => pump[c] = "no"

LEMMA SaidOnce == RoomSpec => []FlowInv
<1>1. RoomInit => FlowInv
  <2> SUFFICES ASSUME RoomInit PROVE FlowInv
    OBVIOUS
  <2>1. Flow = <<>>
    BY DEF RoomInit, Init, Flow
  <2>2. Distinct(Flow) /\ Elements(Flow) = {}
    BY <2>1 DEF Distinct, Elements
  <2> QED BY <2>2 DEF FlowInv, RoomInit, Init
<1>2. RoomTypeOK /\ FlowInv /\ [RoomNext]_roomVars => FlowInv'
  <2> SUFFICES ASSUME RoomTypeOK, FlowInv, [RoomNext]_roomVars PROVE FlowInv'
    OBVIOUS
  <2>t. /\ said \in [Incoming -> {"no", "sending", "returned"}]
        /\ queue \in Seq(Incoming) /\ log \in Seq(Incoming)
        /\ author \in [Incoming -> Conns \cup {Nobody}]
        /\ serve \in [Conns -> {"no", "upgraded", "registered", "serving", "leaving", "returned"}]
        /\ pump \in [Conns -> {"no", "running", "kicking", "leaving", "returned"}]
    BY DEF RoomTypeOK, TypeOK
  <2>f. Flow \in Seq(Incoming)
    BY <2>t, ConcatProperties DEF Flow
  <2>u. ASSUME UNCHANGED <<said, author>>, Flow' = Flow,
               \A c \in Conns : serve'[c] \in {"no", "upgraded", "registered"} =>
                  serve[c] \in {"no", "upgraded", "registered"} /\ pump'[c] = pump[c]
        PROVE FlowInv'
    BY <2>u DEF FlowInv
  <2>1. CASE Meanwhile(Broadcast)
    <3>1. Flow' = Flow
      BY <2>1, <2>t, MoveHead DEF Meanwhile, Broadcast, Flow
    <3> QED BY <2>1, <2>u, <3>1 DEF Meanwhile, Broadcast, pageVars, connVars
  <2>2. ASSUME NEW x \in Incoming, ServeCall(x) PROVE FlowInv'
    <3>1. /\ author[x] # Nobody /\ said[x] = "no" /\ said' = [said EXCEPT ![x] = "sending"]
          /\ UNCHANGED <<author, log, queue, serve, pump>>
      BY <2>2 DEF ServeCall, Say, Set, topicVars, connVars, pageVars
    <3>2. \A y \in Elements(Flow) : y # x /\ said'[y] = said[y]
      <4>1. \A y \in Elements(Flow) : y \in Incoming
        BY <2>f, ElementOfSeq DEF Elements
      <4> QED BY <2>t, <3>1, <4>1 DEF FlowInv
    <3>3. Flow' = Flow
      BY <3>1 DEF Flow
    <3> QED BY <2>t, <3>1, <3>2, <3>3 DEF FlowInv
  <2>3. ASSUME NEW x \in Incoming, Meanwhile(Message(x)) PROVE FlowInv'
    <3>1. /\ said[x] = "sending" /\ said' = [said EXCEPT ![x] = "returned"]
          /\ queue' = Append(queue, x)
          /\ UNCHANGED <<author, log, serve, pump>>
      BY <2>3 DEF Meanwhile, Message, Set, connVars, pageVars
    <3>2. Flow' = Append(Flow, x)
      <4>1. Flow' = log \o Append(queue, x)
        BY <3>1 DEF Flow
      <4>2. /\ Append(queue, x) = queue \o <<x>> /\ Append(Flow, x) = Flow \o <<x>>
        BY <2>t, <2>f, AppendIsConcat
      <4>3. Flow \o <<x>> = log \o (queue \o <<x>>)
        BY <2>t, ConcatAssociative DEF Flow
      <4> QED BY <4>1, <4>2, <4>3, Zenon
    <3>3. x \notin Elements(Flow)
      BY <3>1 DEF FlowInv
    <3>4. Elements(Flow)' = Elements(Flow) \cup {x} /\ Distinct(Flow)'
      BY <2>f, <3>2, <3>3, AppendElements DEF FlowInv
    <3>5. \A y \in Elements(Flow) : said'[y] = "returned"
      <4>1. \A y \in Elements(Flow) : y \in Incoming
        BY <2>f, ElementOfSeq DEF Elements
      <4> QED BY <2>t, <3>1, <4>1 DEF FlowInv
    <3> QED BY <2>t, <3>1, <3>4, <3>5 DEF FlowInv
  <2>4. ASSUME NEW c \in Conns,
               \/ Meanwhile(Register(c)) \/ GreetPage(c) \/ Meanwhile(ServeReturns(c))
               \/ Meanwhile(ServeUnregisters(c))
               \/ PumpToPage(c) \/ Meanwhile(PumpEnds(c)) \/ Meanwhile(Kick(c))
               \/ Meanwhile(PumpUnregisters(c)) \/ Meanwhile(Upgrade(c)) \/ Leave(c)
        PROVE FlowInv'
    <3>1. UNCHANGED <<said, author, log, queue>>
      BY <2>4 DEF Meanwhile, Register, GreetPage, Greet, Go, ServeReturns, ServeUnregisters,
                  PumpToPage, PumpOne, PumpEnds, Kick, PumpUnregisters, Upgrade, Leave,
                  Disconnect, topicVars, pageVars
    <3>2. \A d \in Conns : serve'[d] \in {"no", "upgraded", "registered"} =>
             serve[d] \in {"no", "upgraded", "registered"} /\ pump'[d] = pump[d]
      BY <2>t, <2>4
         DEF FlowInv, Meanwhile, Register, GreetPage, Greet, ServeReturns, ServeUnregisters,
             PumpToPage, PumpOne, PumpEnds, Kick, PumpUnregisters, Upgrade, Leave,
             Disconnect, Set
    <3> QED BY <2>u, <3>1, <3>2 DEF Flow
  <2>5. ASSUME NEW c \in Conns, WriteMessage(c) \/ Page(c) PROVE FlowInv'
    BY <2>5, <2>u DEF WriteMessage, Page, OnMessage, Handle, Flow, vars, topicVars, connVars
  <2>6. ASSUME NEW c \in Conns, NEW x \in Incoming, Send(c, x) PROVE FlowInv'
    <3>1. /\ author' = [author EXCEPT ![x] = c] /\ c # Nobody
          /\ UNCHANGED <<said, log, queue, serve, pump>>
      BY <2>6 DEF Send, Set, vars, topicVars, connVars
    <3> QED BY <2>t, <3>1 DEF FlowInv, Flow
  <2>7. CASE UNCHANGED roomVars
    BY <2>7, <2>u DEF roomVars, vars, topicVars, connVars, pageVars, Flow
  <2> QED
    BY <2>1, <2>2, <2>3, <2>4, <2>5, <2>6, <2>7 DEF RoomNext, Server, ServeRoom, PumpRoom
<1> QED BY <1>1, <1>2, RoomTypeCorrect, PTL DEF RoomSpec

-----------------------------------------------------------------------------
(* Where the messages on their way to the page of c are: each in one place,*)
(* and all of them sent.                                                   *)
PlacesOf(c) ==
  /\ Distinct(frames[c])
  /\ \A x \in Outgoing : shown[c][x] <= 1
  /\ calls[c] \cap (Elements(frames[c]) \cup reading[c] \cup Shown(c)) = {}
  /\ Elements(frames[c]) \cap (reading[c] \cup Shown(c)) = {}
  /\ reading[c] \cap Shown(c) = {}
  /\ calls[c] \cup Elements(frames[c]) \cup reading[c] \cup Shown(c) \subseteq Sent(c)

PlaceInv == \A c \in Conns : PlacesOf(c)

(* What the pump has taken is where the log has it.                        *)
LEMMA PumpedFromTheLog ==
  ASSUME TypeOK, GapInv, NEW c \in Conns, NEW i \in 1..Len(Got(c))
  PROVE  /\ since[c] + i \in (since[c] + 1)..Len(log)
         /\ Got(c)[i] = log[since[c] + i]
<1>1. /\ log \in Seq(Incoming) /\ since[c] \in Nat /\ Len(log) \in Nat
      /\ pumped[c] \in Seq(Incoming) /\ messages[c] \in Seq(Incoming)
  BY LenProperties DEF TypeOK
<1>2. Got(c) \in Seq(Incoming) /\ Len(Got(c)) \in Nat
  BY <1>1, ConcatProperties, LenProperties DEF Got
<1>3. /\ Got(c) = SubSeq(log, since[c] + 1, since[c] + Len(Got(c)))
      /\ since[c] + Len(Got(c)) <= Len(log)
  BY DEF GapInv
<1> DEFINE a == since[c] + 1
           b == since[c] + Len(Got(c))
<1>4. /\ a \in Nat /\ b \in Nat /\ a >= 1 /\ b <= Len(log)
      /\ i \in 1..(b - a + 1) /\ a + i - 1 = since[c] + i
      /\ since[c] + i \in (since[c] + 1)..Len(log)
  <2> DEFINE n == since[c]
             g == Len(Got(c))
             l == Len(log)
  <2>1. n \in Nat /\ g \in Nat /\ l \in Nat /\ i \in 1..g /\ n + g <= l
    BY <1>1, <1>2, <1>3
  <2> HIDE DEF n, g, l
  <2>2. /\ n + 1 \in Nat /\ n + g \in Nat /\ n + 1 >= 1
        /\ i \in 1..((n + g) - (n + 1) + 1) /\ (n + 1) + i - 1 = n + i
        /\ n + i \in (n + 1)..l
    BY <2>1
  <2> QED BY <2>1, <2>2 DEF n, g, l
<1>5. Got(c) = SubSeq(log, a, b)
  BY <1>3
<1> HIDE DEF a, b
<1>6. \A k \in a..b : log[k] \in Incoming
  BY <1>1, <1>4, ElementOfSeq
<1>7. SubSeq(log, a, b)[i] = log[a + i - 1]
  BY <1>4, <1>6, SubSeqProperties
<1> QED BY <1>4, <1>5, <1>7

(* What is said once is pumped once. *)
LEMMA GotOnce ==
  ASSUME TypeOK, GapInv, FlowInv, NEW c \in Conns
  PROVE  Distinct(Got(c))
<1>1. /\ log \in Seq(Incoming) /\ queue \in Seq(Incoming) /\ since[c] \in Nat
      /\ Len(log) \in Nat /\ Len(queue) \in Nat
  BY LenProperties DEF TypeOK
<1>2. /\ Len(Flow) = Len(log) + Len(queue)
      /\ \A k \in 1..Len(log) : k \in 1..Len(Flow) /\ Flow[k] = log[k]
  BY <1>1, ConcatProperties DEF Flow
<1>3. \A i, j \in 1..Len(log) : log[i] = log[j] => i = j
  BY <1>2 DEF FlowInv, Distinct
<1> SUFFICES ASSUME NEW i \in 1..Len(Got(c)), NEW j \in 1..Len(Got(c)), Got(c)[i] = Got(c)[j]
    PROVE  i = j
  BY DEF Distinct
<1>4. /\ since[c] + i \in (since[c] + 1)..Len(log) /\ Got(c)[i] = log[since[c] + i]
      /\ since[c] + j \in (since[c] + 1)..Len(log) /\ Got(c)[j] = log[since[c] + j]
  BY PumpedFromTheLog
<1>5. since[c] + i \in 1..Len(log) /\ since[c] + j \in 1..Len(log)
  BY <1>1, <1>4
<1>6. since[c] + i = since[c] + j
  BY <1>3, <1>4, <1>5
<1>7. i \in Int /\ j \in Int
  OBVIOUS
<1> QED BY <1>1, <1>6, <1>7

(* So what the pump takes next it has not taken before. *)
LEMMA HeadIsNew ==
  ASSUME TypeOK, GapInv, FlowInv, NEW c \in Conns, messages[c] # <<>>
  PROVE  Head(messages[c]) \in Incoming \ Elements(pumped[c])
<1>1. pumped[c] \in Seq(Incoming) /\ messages[c] \in Seq(Incoming)
  BY DEF TypeOK
<1>2. /\ Head(messages[c]) \in Incoming /\ Head(messages[c]) = messages[c][1]
      /\ Len(messages[c]) \in Nat /\ Len(messages[c]) >= 1 /\ Len(pumped[c]) \in Nat
  BY <1>1, HeadTailProperties, EmptySeq, LenProperties
<1>3. /\ Len(Got(c)) = Len(pumped[c]) + Len(messages[c])
      /\ \A i \in 1..(Len(pumped[c]) + Len(messages[c])) :
           Got(c)[i] = IF i <= Len(pumped[c]) THEN pumped[c][i]
                       ELSE messages[c][i - Len(pumped[c])]
  BY <1>1, ConcatProperties DEF Got
<1> DEFINE n == Len(pumped[c]) + 1
<1>4. /\ n \in 1..Len(Got(c)) /\ ~(n <= Len(pumped[c])) /\ n - Len(pumped[c]) = 1
      /\ \A i \in 1..Len(pumped[c]) : i \in 1..Len(Got(c)) /\ i # n /\ i <= Len(pumped[c])
  <2>1. ASSUME NEW l \in Nat, NEW m \in Nat, m >= 1
        PROVE  /\ l + 1 \in 1..(l + m) /\ ~(l + 1 <= l) /\ (l + 1) - l = 1
               /\ \A i \in 1..l : i \in 1..(l + m) /\ i # l + 1 /\ i <= l
    BY <2>1
  <2> QED BY <1>2, <1>3, <2>1
<1>5. Got(c)[n] = Head(messages[c])
  BY <1>2, <1>3, <1>4
<1> HIDE DEF n
<1>6. ASSUME NEW i \in 1..Len(pumped[c]), pumped[c][i] = Head(messages[c]) PROVE FALSE
  <2>1. Got(c)[i] = pumped[c][i]
    BY <1>3, <1>4
  <2> QED BY <1>4, <1>5, <1>6, <2>1, GotOnce DEF Distinct
<1> QED BY <1>2, <1>6 DEF Elements

(* However the goroutines that write to a page overtake each other, and in *)
(* whatever order its FileReaders are done, a page shows a message once at *)
(* most, and only what somebody has sent and was broadcast to it.          *)
THEOREM NothingShownTwice == RoomSpec => []ShownOnce
<1>1. RoomInit => PlaceInv
  <2> SUFFICES ASSUME RoomInit, NEW c \in Conns PROVE PlacesOf(c)
    BY DEF PlaceInv
  <2>1. /\ calls[c] = {} /\ frames[c] = <<>> /\ reading[c] = {}
        /\ \A x \in Outgoing : shown[c][x] = 0
    BY DEF RoomInit
  <2>2. Distinct(frames[c]) /\ Elements(frames[c]) = {} /\ Shown(c) = {}
    BY <2>1 DEF Distinct, Elements, Shown
  <2> QED BY <2>1, <2>2 DEF PlacesOf
<1>2. RoomTypeOK /\ GapInv /\ FlowInv /\ PlaceInv /\ [RoomNext]_roomVars => PlaceInv'
  <2> SUFFICES ASSUME RoomTypeOK, GapInv, FlowInv, PlaceInv, [RoomNext]_roomVars,
                      NEW c \in Conns
      PROVE  PlacesOf(c)'
    BY DEF PlaceInv
  <2>t. /\ TypeOK
        /\ calls \in [Conns -> SUBSET Outgoing] /\ reading \in [Conns -> SUBSET Outgoing]
        /\ frames \in [Conns -> Seq(Outgoing)] /\ shown \in [Conns -> [Outgoing -> Nat]]
        /\ pumped \in [Conns -> Seq(Incoming)]
        /\ pump \in [Conns -> {"no", "running", "kicking", "leaving", "returned"}]
    BY DEF RoomTypeOK, TypeOK
  <2>p. PlacesOf(c)
    BY DEF PlaceInv
  (* What goes on elsewhere. *)
  <2>u. ASSUME calls'[c] = calls[c], frames'[c] = frames[c], reading'[c] = reading[c],
               shown'[c] = shown[c], Sent(c)' = Sent(c)
        PROVE PlacesOf(c)'
    BY <2>p, <2>u DEF PlacesOf, Shown
  (* A call of endpoint.Go. *)
  <2>g. ASSUME NEW x \in Outgoing, calls'[c] = calls[c] \cup {x}, frames'[c] = frames[c],
               reading'[c] = reading[c], shown'[c] = shown[c],
               x \notin Sent(c), Sent(c)' = Sent(c) \cup {x}
        PROVE PlacesOf(c)'
    BY <2>p, <2>g DEF PlacesOf, Shown
  <2>1. ASSUME NEW d \in Conns, GreetPage(d) PROVE PlacesOf(c)'
    <3>1. /\ pump[d] = "no" /\ pump' = [pump EXCEPT ![d] = "running"] /\ pumped' = pumped
          /\ calls' = [calls EXCEPT ![d] = calls[d] \cup {Hello}]
          /\ UNCHANGED <<frames, reading, shown>>
      BY <2>1 DEF GreetPage, Greet, Go, Set, FlowInv
    <3>2. CASE c = d
      <4>1. Hello \notin Elements(pumped[c])
        BY <2>t, ElementOfSeq DEF Elements
      <4>2. Hello \in Outgoing /\ Sent(c) = Elements(pumped[c])
            /\ Sent(c)' = Elements(pumped[c]) \cup {Hello}
        BY <2>t, <3>1, <3>2 DEF Sent, Outgoing
      <4> QED BY <2>g, <2>t, <3>1, <3>2, <4>1, <4>2
    <3>3. CASE c # d
      <4>1. Sent(c)' = Sent(c)
        BY <2>t, <3>1, <3>3 DEF Sent
      <4> QED BY <2>u, <2>t, <3>1, <3>3, <4>1
    <3> QED BY <3>2, <3>3
  <2>2. ASSUME NEW d \in Conns, PumpToPage(d) PROVE PlacesOf(c)'
    <3> DEFINE x == Head(messages[d])
    <3>1. /\ pump[d] = "running" /\ pump' = pump /\ messages[d] # <<>>
          /\ pumped' = [pumped EXCEPT ![d] = Append(pumped[d], x)]
          /\ calls' = [calls EXCEPT ![d] = calls[d] \cup {x}]
          /\ UNCHANGED <<frames, reading, shown>>
      BY <2>2 DEF PumpToPage, PumpOne, Go, Set
    <3>2. x \in Incoming \ Elements(pumped[d])
      BY <2>t, <3>1, HeadIsNew
    <3> HIDE DEF x
    <3>3. CASE c = d
      <4>1. Elements(pumped'[c]) = Elements(pumped[c]) \cup {x}
        BY <2>t, <3>1, <3>2, <3>3, AppendElements
      <4>2. x \in Outgoing /\ x \notin Sent(c) /\ Sent(c)' = Sent(c) \cup {x}
        BY <3>1, <3>2, <3>3, <4>1 DEF Sent, Outgoing
      <4> QED BY <2>g, <2>t, <3>1, <3>3, <4>2
    <3>4. CASE c # d
      <4>1. Sent(c)' = Sent(c)
        BY <2>t, <3>1, <3>4 DEF Sent
      <4> QED BY <2>u, <2>t, <3>1, <3>4, <4>1
    <3> QED BY <3>3, <3>4
  <2>3. ASSUME NEW d \in Conns, WriteMessage(d) PROVE PlacesOf(c)'
    <3>1. PICK x \in calls[d] :
            /\ calls' = [calls EXCEPT ![d] = calls[d] \ {x}]
            /\ \/ frames' = [frames EXCEPT ![d] = Append(frames[d], x)]
               \/ frames' = frames
            /\ UNCHANGED <<reading, shown, pumped, pump>>
      BY <2>3 DEF WriteMessage, Set, vars, connVars
    <3>2. Sent(c)' = Sent(c)
      BY <3>1 DEF Sent
    <3>3. CASE c = d /\ frames' # frames
      <4>1. /\ x \in Outgoing /\ x \notin Elements(frames[c])
            /\ frames'[c] = Append(frames[c], x) /\ calls'[c] = calls[c] \ {x}
        BY <2>t, <2>p, <3>1, <3>3 DEF PlacesOf
      <4>2. Elements(frames'[c]) = Elements(frames[c]) \cup {x} /\ Distinct(frames'[c])
        BY <2>t, <2>p, <4>1, AppendElements DEF PlacesOf
      <4> QED BY <2>p, <3>1, <3>2, <3>3, <4>1, <4>2 DEF PlacesOf, Shown
    <3>4. CASE c = d /\ frames' = frames
      BY <2>t, <2>p, <3>1, <3>2, <3>4 DEF PlacesOf, Shown
    <3>5. CASE c # d
      BY <2>u, <2>t, <3>1, <3>2, <3>5
    <3> QED BY <3>3, <3>4, <3>5
  <2>4. ASSUME NEW d \in Conns, OnMessage(d) PROVE PlacesOf(c)'
    <3>1. /\ frames[d] # <<>> /\ frames' = [frames EXCEPT ![d] = Tail(frames[d])]
          /\ reading' = [reading EXCEPT ![d] = reading[d] \cup {Head(frames[d])}]
          /\ UNCHANGED <<calls, shown, pumped, pump>>
      BY <2>4 DEF OnMessage, Set, vars, connVars
    <3>2. Sent(c)' = Sent(c)
      BY <3>1 DEF Sent
    <3>3. CASE c = d
      <4>1. /\ frames'[c] = Tail(frames[c])
            /\ reading'[c] = reading[c] \cup {Head(frames[c])}
        BY <2>t, <3>1, <3>3
      <4>2. /\ Elements(frames[c]) = Elements(frames'[c]) \cup {Head(frames[c])}
            /\ Distinct(frames'[c]) /\ Head(frames[c]) \notin Elements(frames'[c])
        BY <2>t, <2>p, <3>1, <3>3, <4>1, TailElements DEF PlacesOf
      <4> QED BY <2>p, <3>1, <3>2, <4>1, <4>2 DEF PlacesOf, Shown
    <3>4. CASE c # d
      BY <2>u, <2>t, <3>1, <3>2, <3>4
    <3> QED BY <3>3, <3>4
  <2>5. ASSUME NEW d \in Conns, Handle(d) PROVE PlacesOf(c)'
    <3>1. PICK x \in reading[d] :
            /\ reading' = [reading EXCEPT ![d] = reading[d] \ {x}]
            /\ shown' = [shown EXCEPT ![d][x] = @ + 1]
            /\ UNCHANGED <<calls, frames, pumped, pump>>
      BY <2>5 DEF Handle, Set, vars, connVars
    <3>2. Sent(c)' = Sent(c)
      BY <3>1 DEF Sent
    <3>3. CASE c = d
      <4>1. /\ x \in Outgoing /\ reading'[c] = reading[c] \ {x}
            /\ shown'[c] = [shown[c] EXCEPT ![x] = shown[c][x] + 1]
            /\ shown[c] \in [Outgoing -> Nat]
        BY <2>t, <3>1, <3>3
      <4>2. shown[c][x] = 0
        <5>1. x \notin Shown(c)
          BY <2>p, <3>1, <3>3 DEF PlacesOf
        <5> QED BY <4>1, <5>1 DEF Shown
      <4>3. /\ shown'[c][x] = 1
            /\ \A y \in Outgoing \ {x} : shown'[c][y] = shown[c][y]
        BY <4>1, <4>2
      <4>4. Shown(c)' = Shown(c) \cup {x}
        BY <4>1, <4>3 DEF Shown
      <4>5. \A y \in Outgoing : shown'[c][y] <= 1
        BY <2>p, <4>3 DEF PlacesOf
      <4> QED BY <2>p, <3>1, <3>2, <3>3, <4>1, <4>4, <4>5 DEF PlacesOf
    <3>4. CASE c # d
      BY <2>u, <2>t, <3>1, <3>2, <3>4
    <3> QED BY <3>3, <3>4
  <2>6. ASSUME UNCHANGED <<calls, frames, reading, shown>>, pumped' = pumped,
               pump'[c] = "no" <=> pump[c] = "no"
        PROVE PlacesOf(c)'
    BY <2>u, <2>6 DEF Sent
  <2>7. CASE \/ Meanwhile(Broadcast)
             \/ \E x \in Incoming : ServeCall(x) \/ Meanwhile(Message(x))
             \/ \E d \in Conns : \E x \in Incoming : Send(d, x)
             \/ UNCHANGED roomVars
    BY <2>6, <2>7 DEF Meanwhile, Broadcast, ServeCall, Say, Message, Send, connVars,
                      pageVars, vars, roomVars
  <2>8. ASSUME NEW d \in Conns,
               \/ Meanwhile(Register(d)) \/ Meanwhile(ServeReturns(d))
               \/ Meanwhile(ServeUnregisters(d)) \/ Meanwhile(PumpEnds(d))
               \/ Meanwhile(Kick(d)) \/ Meanwhile(PumpUnregisters(d))
               \/ Meanwhile(Upgrade(d)) \/ Leave(d)
        PROVE PlacesOf(c)'
    <3>1. UNCHANGED <<calls, frames, reading, shown>> /\ pumped' = pumped
      BY <2>8 DEF Meanwhile, Leave, Register, ServeReturns, ServeUnregisters, PumpEnds,
                  Kick, PumpUnregisters, Upgrade, Disconnect, pageVars
    <3>2. pump'[c] = "no" <=> pump[c] = "no"
      BY <2>t, <2>8 DEF Meanwhile, Leave, Register, ServeReturns, ServeUnregisters, PumpEnds,
                        Kick, PumpUnregisters, Upgrade, Disconnect, Set
    <3> QED BY <2>6, <3>1, <3>2
  <2> QED
    BY <2>1, <2>2, <2>3, <2>4, <2>5, <2>7, <2>8
       DEF RoomNext, Server, ServeRoom, PumpRoom, Page
<1>3. RoomTypeOK /\ GapInv /\ FlowInv /\ PlaceInv => ShownOnce
  <2> SUFFICES ASSUME RoomTypeOK, GapInv, FlowInv, PlaceInv, NEW c \in Conns
      PROVE  /\ PlacesOf(c)
             /\ \A x \in Sent(c) \ {Hello} :
                  author[x] # Nobody /\ \E i \in (since[c] + 1)..Len(log) : log[i] = x
    BY DEF ShownOnce, PlacesOf, PlaceInv, Distinct
  <2> SUFFICES ASSUME NEW i \in 1..Len(pumped[c])
      PROVE  /\ author[pumped[c][i]] # Nobody
             /\ \E j \in (since[c] + 1)..Len(log) : log[j] = pumped[c][i]
    BY DEF PlaceInv, Sent, Elements
  <2>1. /\ pumped[c] \in Seq(Incoming) /\ messages[c] \in Seq(Incoming)
        /\ log \in Seq(Incoming) /\ queue \in Seq(Incoming) /\ since[c] \in Nat
        /\ Len(log) \in Nat /\ Len(queue) \in Nat /\ Len(pumped[c]) \in Nat
        /\ Len(messages[c]) \in Nat
    BY LenProperties DEF RoomTypeOK, TypeOK
  <2>2. i \in 1..Len(Got(c)) /\ Got(c)[i] = pumped[c][i]
    <3>1. /\ Len(Got(c)) = Len(pumped[c]) + Len(messages[c])
          /\ \A k \in 1..(Len(pumped[c]) + Len(messages[c])) :
               Got(c)[k] = IF k <= Len(pumped[c]) THEN pumped[c][k]
                           ELSE messages[c][k - Len(pumped[c])]
      BY <2>1, ConcatProperties DEF Got
    <3>2. i <= Len(pumped[c]) /\ i \in 1..(Len(pumped[c]) + Len(messages[c]))
      <4> DEFINE l == Len(pumped[c])
                 m == Len(messages[c])
      <4>1. l \in Nat /\ m \in Nat /\ i \in 1..l
        BY <2>1
      <4> HIDE DEF l, m
      <4>2. i <= l /\ i \in 1..(l + m)
        BY <4>1
      <4> QED BY <4>2 DEF l, m
    <3>3. i \in 1..Len(Got(c))
      BY <3>1, <3>2
    <3>4. Got(c)[i] = pumped[c][i]
      BY <3>1, <3>2, Zenon
    <3> QED BY <3>3, <3>4
  <2>3. /\ since[c] + i \in (since[c] + 1)..Len(log)
        /\ pumped[c][i] = log[since[c] + i]
    BY <2>2, PumpedFromTheLog DEF RoomTypeOK
  <2>4. since[c] + i \in 1..Len(log)
    BY <2>1, <2>3
  <2>5. since[c] + i \in 1..Len(Flow) /\ Flow[since[c] + i] = log[since[c] + i]
    BY <2>1, <2>4, ConcatProperties DEF Flow
  <2>6. said[pumped[c][i]] = "returned"
    BY <2>3, <2>5 DEF FlowInv, Elements
  <2>7. pumped[c][i] \in Incoming
    BY <2>1, ElementOfSeq
  <2> QED BY <2>3, <2>6, <2>7 DEF FlowInv
<1> QED
  BY <1>1, <1>2, <1>3, RoomTypeCorrect, RoomImplementsChat, GotFromTheLog, SaidOnce, PTL
     DEF RoomSpec

=============================================================================
