-------------------------- MODULE RedisCodecProofs --------------------------
(***************************************************************************)
(* The safety of the redis codec for any number of writers and connections.*)
(***************************************************************************)
EXTENDS RedisCodec, FiniteSetTheorems, SelectionsProofs, TLAPS

USE RedisAssumption

(* Only the holder of wmu borrows a connection, and buf is its message     *)
(* until redis has answered.                                               *)
WriterInv ==
  \A m \in Messages :
    /\ call[m] \in {"connecting", "publishing"} => wmu = m /\ buf = m
    /\ using[m] # None <=> call[m] = "publishing"

(* What ReadMessage and Close have read of sub still holds. *)
SubInv ==
  /\ Closing => ~Reading /\ sub # None
  /\ closing = "done" => ~Reading /\ sub = None
  /\ closing # "panicked" /\ read # "panicked"
  /\ read \in {"subscribing", "undoing", "pop", "popping"} => sub # None
  /\ read = "popping" => popping = sub
  /\ read = "opening" => sub = None

(* The connection of the subscription has not been given back. *)
Holding(c) == sub = c /\ closing # "forgetting"

(* Every connection is in one hand or forgotten, and a clean one in that   *)
(* of a writer or in the pool.                                             *)
HandsInv ==
  /\ \A c \in Conns : Holding(c) => where[c] = "out"
  /\ \A c \in Conns : subscribed[c] =>
       /\ alive[c]
       /\ c \in forgotten \/ (sub = c /\ closing \notin {"returning", "forgetting"})
  /\ \A m \in Messages : using[m] # None =>
       /\ where[using[m]] = "out" /\ inbox[using[m]] = <<>>
       /\ ~Holding(using[m]) /\ using[m] \notin forgotten
  /\ \A c \in Conns : where[c] = "pool" => inbox[c] = <<>>
  /\ \A c \in Conns : where[c] = "out" =>
       Holding(c) \/ c \in forgotten \/ \E m \in Messages : using[m] = c
  /\ \A c \in forgotten : where[c] = "out" /\ sub # c
  /\ read \in {"subscribing", "undoing"} => ~subscribed[sub]

(* All of this until Close and a ReadMessage run at the same time. *)
RaceInv == ~raced => SubInv /\ HandsInv

-----------------------------------------------------------------------------
(* For any number of writers and connections, every variable keeps to its  *)
(* range, and buf is never published but by whoever holds wmu.             *)
LEMMA WritersKeepBuf == Spec => [](TypeOK /\ WriterInv)
<1>1. Init => TypeOK /\ WriterInv
  <2> SUFFICES ASSUME Init PROVE TypeOK /\ WriterInv
    OBVIOUS
  <2>1. TypeOK
    <3>1. <<>> \in Seq(Messages) /\ <<>> \in Seq(Pushes)
      OBVIOUS
    <3>2. inbox \in [Conns -> Seq(Pushes)] /\ received \in Seq(Messages)
      BY <3>1 DEF Init
    <3>3. closes \in 0..MaxCloses
      BY DEF Init
    <3> QED BY <3>2, <3>3 DEF Init, TypeOK
  <2>2. WriterInv
    BY DEF Init, WriterInv
  <2> QED BY <2>1, <2>2
<1>2. TypeOK /\ WriterInv /\ [Next]_vars => TypeOK' /\ WriterInv'
  <2> SUFFICES ASSUME TypeOK, WriterInv, [Next]_vars PROVE TypeOK' /\ WriterInv'
    OBVIOUS
  <2> USE DEF TypeOK, WriterInv
  <2>p. ASSUME NEW x \in Pushes PROVE Pushed(x) \in [Conns -> Seq(Pushes)]
    <3>1. \A c \in Conns : Append(inbox[c], x) \in Seq(Pushes)
      OBVIOUS
    <3> QED BY <3>1 DEF Pushed
  <2>t. ASSUME NEW c \in Conns, Take(c)
        PROVE /\ where' \in [Conns -> {"closed", "pool", "out"}]
              /\ forgotten' \subseteq Conns
              /\ alive' \in [Conns -> BOOLEAN]
              /\ inbox' \in [Conns -> Seq(Pushes)]
    <3>1. where' \in [Conns -> {"closed", "pool", "out"}] /\ forgotten' \subseteq Conns
      BY <2>t DEF Take
    <3>2. alive' \in [Conns -> BOOLEAN]
      BY <2>t, Zenon DEF Take
    <3>3. inbox' \in [Conns -> Seq(Pushes)]
      <4>1. (IF where[c] = "pool" THEN inbox[c] ELSE <<>>) \in Seq(Pushes)
        OBVIOUS
      <4> QED BY <2>t, <4>1 DEF Take
    <3> QED BY <3>1, <3>2, <3>3
  <2>r. ASSUME NEW c \in Conns PROVE Returned(c) \in [Conns -> {"closed", "pool", "out"}]
    BY DEF Returned
  <2>v. Available \subseteq Conns
    BY DEF Available
  <2>g. ASSUME NEW c \in Conns, GiveBack(c)
        PROVE /\ where' \in [Conns -> {"closed", "pool", "out"}]
              /\ inbox' \in [Conns -> Seq(Pushes)]
    <3>1. <<>> \in Seq(Pushes)
      OBVIOUS
    <3> QED BY <2>g, <2>r, <3>1 DEF GiveBack
  <2>1. ASSUME NEW m \in Messages, ToWireError(m) PROVE TypeOK' /\ WriterInv'
    BY <2>1 DEF ToWireError, connVars, readVars, closeVars
  <2>2. ASSUME NEW m \in Messages, MarshalMsg(m) PROVE TypeOK' /\ WriterInv'
    BY <2>2 DEF MarshalMsg, connVars, readVars, closeVars
  <2>3. ASSUME NEW m \in Messages, Connection(m) PROVE TypeOK' /\ WriterInv'
    <3>1. /\ call[m] = "connecting"
          /\ UNCHANGED <<published, subscribed, readVars, sub, closeVars>>
      BY <2>3 DEF Connection
    <3>2. CASE \E c \in Available :
                 /\ Take(c) /\ using' = [using EXCEPT ![m] = c]
                 /\ call' = [call EXCEPT ![m] = "publishing"] /\ UNCHANGED <<wmu, buf>>
      <4>1. PICK c \in Available :
              /\ Take(c) /\ using' = [using EXCEPT ![m] = c]
              /\ call' = [call EXCEPT ![m] = "publishing"] /\ UNCHANGED <<wmu, buf>>
        BY <3>2
      <4>2. c \in Conns /\ c # None
        BY <2>v
      <4>3. /\ where' \in [Conns -> {"closed", "pool", "out"}]
            /\ forgotten' \subseteq Conns
            /\ alive' \in [Conns -> BOOLEAN]
            /\ inbox' \in [Conns -> Seq(Pushes)]
        BY <2>t, <4>1, <4>2
      <4>4. TypeOK'
        BY <3>1, <4>1, <4>2, <4>3 DEF readVars, closeVars
      <4>5. WriterInv'
        BY <3>1, <4>1, <4>2
      <4> QED BY <4>4, <4>5
    <3>3. CASE /\ call' = [call EXCEPT ![m] = "failed"] /\ Unlock
               /\ UNCHANGED <<where, forgotten, alive, inbox, using>>
      BY <3>1, <3>3 DEF readVars, closeVars, Unlock
    <3> QED BY <2>3, <3>2, <3>3 DEF Connection
  <2>4. ASSUME NEW m \in Messages, DoInt(m) PROVE TypeOK' /\ WriterInv'
    <3>1. /\ call[m] = "publishing" /\ using[m] \in Conns /\ buf = m /\ wmu = m
          /\ \E how \in {"ok", "failed"} : call' = [call EXCEPT ![m] = how]
          /\ where' = Returned(using[m]) /\ using' = [using EXCEPT ![m] = None]
          /\ wmu' = None /\ buf' = None
          /\ UNCHANGED <<forgotten, alive, subscribed, readVars, sub, closeVars>>
      BY <2>4 DEF DoInt, Unlock
    <3>2. \/ published' = published \cup {m} /\ inbox' = Pushed(m)
          \/ UNCHANGED <<published, inbox>>
      BY <2>4, <3>1 DEF DoInt
    <3>3. published' \subseteq Messages \cup Garbage /\ inbox' \in [Conns -> Seq(Pushes)]
      <4>1. m \in Pushes
        BY DEF Pushes
      <4>2. Pushed(m) \in [Conns -> Seq(Pushes)]
        BY <2>p, <4>1
      <4> QED BY <3>2, <4>2
    <3>4. where' \in [Conns -> {"closed", "pool", "out"}]
      BY <2>r, <3>1
    <3>5. TypeOK'
      BY <3>1, <3>3, <3>4 DEF readVars, closeVars
    <3>6. WriterInv'
      BY <3>1
    <3> QED BY <3>5, <3>6
  <2>5. CASE LockRmu \/ LookAtSub \/ CallPop
             \/ NilSub("subscribing") \/ NilSub("undoing") \/ NilSub("pop")
    BY <2>5 DEF LockRmu, LookAtSub, CallPop, NilSub, Goto, writeVars, connVars, closeVars
  <2>6. CASE OpenSubscription
    <3>1. CASE \E c \in Available : Take(c) /\ sub' = c /\ Goto("subscribing")
      <4>1. PICK c \in Available : Take(c) /\ sub' = c /\ Goto("subscribing")
        BY <3>1
      <4>2. /\ where' \in [Conns -> {"closed", "pool", "out"}]
            /\ forgotten' \subseteq Conns
            /\ alive' \in [Conns -> BOOLEAN]
            /\ inbox' \in [Conns -> Seq(Pushes)] /\ c \in Conns
        BY <2>t, <2>v, <4>1
      <4> QED BY <2>6, <4>1, <4>2 DEF OpenSubscription, Goto, writeVars, closeVars
    <3>2. CASE Goto("failed") /\ UNCHANGED <<where, forgotten, alive, inbox, sub>>
      BY <2>6, <3>2 DEF OpenSubscription, Goto, writeVars, closeVars
    <3> QED BY <2>6, <3>1, <3>2 DEF OpenSubscription
  <2>7. CASE Subscribe
    <3>1. /\ sub \in Conns
          /\ \/ /\ subscribed' = [subscribed EXCEPT ![sub] = TRUE]
                /\ inbox' = [inbox EXCEPT ![sub] = Append(inbox[sub], "confirmation")]
             \/ UNCHANGED <<subscribed, inbox>>
          /\ read' \in {"pop", "undoing"}
          /\ UNCHANGED <<writeVars, where, forgotten, alive, popping, received, sub, closeVars>>
      BY <2>7 DEF Subscribe, Goto
    <3>2. Append(inbox[sub], "confirmation") \in Seq(Pushes)
      BY <3>1 DEF Pushes
    <3>3. CASE /\ subscribed' = [subscribed EXCEPT ![sub] = TRUE]
               /\ inbox' = [inbox EXCEPT ![sub] = Append(inbox[sub], "confirmation")]
      BY <3>1, <3>2, <3>3 DEF writeVars, closeVars
    <3>4. CASE UNCHANGED <<subscribed, inbox>>
      BY <3>1, <3>4 DEF writeVars, closeVars
    <3> QED BY <3>1, <3>3, <3>4
  <2>u. CASE UndoSubscription
    BY <2>u, <2>g DEF UndoSubscription, Goto, writeVars, closeVars
  <2>8. CASE Pop
    <3> DEFINE x == Head(inbox[popping])
    <3>1. /\ read' \in {"looking", "idle", "failed"} /\ popping' = None
          /\ inbox' = [inbox EXCEPT ![popping] = Tail(inbox[popping])]
          /\ UNCHANGED <<writeVars, where, forgotten, alive, subscribed, sub, closeVars>>
          /\ received' = received \/ (x \in Messages /\ received' = Append(received, x))
          /\ inbox[popping] # <<>>
      BY <2>8 DEF Pop, Goto, Unmarshals
    <3>2. inbox' \in [Conns -> Seq(Pushes)]
      <4>1. CASE popping \in Conns
        <5>1. Tail(inbox[popping]) \in Seq(Pushes)
          BY <3>1, <4>1
        <5> QED BY <3>1, <5>1
      <4>2. CASE popping \notin Conns
        BY <3>1, <4>2
      <4> QED BY <4>1, <4>2
    <3> HIDE DEF x
    <3>3. received' \in Seq(Messages)
      <4>1. received \in Seq(Messages)
        OBVIOUS
      <4>2. x \in Messages => Append(received, x) \in Seq(Messages)
        BY <4>1, AppendProperties
      <4> QED BY <3>1, <4>1, <4>2, Zenon
    <3> QED BY <3>1, <3>2, <3>3 DEF writeVars, closeVars
  <2>9. CASE PopError
    <3>1. /\ inbox' = [inbox EXCEPT ![popping] = <<>>]
          /\ forgotten' = forgotten \cup {popping} /\ sub' = None /\ popping' = None
          /\ read' = "failed"
          /\ UNCHANGED <<writeVars, where, alive, subscribed, received, closeVars>>
          /\ popping \in Conns
      BY <2>9 DEF PopError, Goto
    <3>2. <<>> \in Seq(Pushes)
      OBVIOUS
    <3> QED BY <3>1, <3>2 DEF writeVars, closeVars
  <2>10. CASE CallClose
    BY <2>10 DEF CallClose, Enter, Reading, writeVars, connVars, readVars
  <2>f. CASE ForgetSub \/ NilClose("unsubscribing") \/ NilClose("returning")
    BY <2>f DEF ForgetSub, NilClose, writeVars, connVars, readVars
  <2>11. CASE Unsubscribe
    <3>1. sub \in Conns /\ Append(inbox[sub], "confirmation") \in Seq(Pushes)
      BY <2>11 DEF Unsubscribe, Pushes
    <3>2. /\ subscribed' \in [Conns -> BOOLEAN]
          /\ inbox' \in [Conns -> Seq(Pushes)]
      <4>1. CASE alive[sub]
        <5>1. /\ subscribed' = [subscribed EXCEPT ![sub] = FALSE]
              /\ inbox' = [inbox EXCEPT ![sub] = Append(inbox[sub], "confirmation")]
          BY <2>11, <4>1 DEF Unsubscribe
        <5> HIDE DEF WriterInv
        <5>2. subscribed' \in [Conns -> BOOLEAN]
          BY <5>1
        <5>3. inbox' \in [Conns -> Seq(Pushes)]
          BY <3>1, <5>1
        <5> QED BY <5>2, <5>3
      <4>2. CASE ~alive[sub]
        BY <2>11, <4>2 DEF Unsubscribe
      <4> QED BY <4>1, <4>2
    <3> QED BY <2>11, <3>2 DEF Unsubscribe, writeVars, readVars
  <2>12. CASE CloseSubscription
    BY <2>12, <2>g DEF CloseSubscription, writeVars, readVars
  <2>13. ASSUME NEW c \in Conns, Break(c) PROVE TypeOK' /\ WriterInv'
    BY <2>13 DEF Break, writeVars, readVars, closeVars
  <2>14. ASSUME NEW g \in Garbage, PublishGarbage(g) PROVE TypeOK' /\ WriterInv'
    <3>1. g \in Pushes
      BY DEF Pushes
    <3> QED BY <2>14, <2>p, <3>1 DEF PublishGarbage, readVars, closeVars
  <2>15. CASE UNCHANGED vars
    BY <2>15 DEF vars, writeVars, connVars, readVars, closeVars
  <2> QED
    BY <2>1, <2>2, <2>3, <2>4, <2>5, <2>6, <2>7, <2>u, <2>8, <2>9, <2>10, <2>f, <2>11,
       <2>12, <2>13, <2>14, <2>15 DEF Next, WriteMessage, ReadMessage, ReadOn, Close
<1> QED BY <1>1, <1>2, PTL DEF Spec

(* Every variable keeps to its range: above all, what is published is a    *)
(* message, the one of the writer that reports it.                         *)
THEOREM TypeCorrect == Spec => []TypeOK
<1> QED BY WritersKeepBuf, PTL

-----------------------------------------------------------------------------
(* A connection changes hands only through these. *)
LEMMA Handled ==
  ASSUME TypeOK, NEW c \in Conns
  PROVE  /\ \A d \in Conns : Pushed(buf)[d] # inbox[d] => subscribed[d] /\ d \notin forgotten
         /\ Take(c) => /\ where'[c] = "out" /\ forgotten' = forgotten \ {c}
                       /\ inbox'[c] = IF where[c] = "pool" THEN inbox[c] ELSE <<>>
                       /\ \A d \in Conns \ {c} : where'[d] = where[d] /\ inbox'[d] = inbox[d]
                       /\ \A d \in Conns : alive[d] => alive'[d]
         /\ GiveBack(c) => /\ where'[c] = IF alive[c] THEN "pool" ELSE "closed"
                           /\ inbox'[c] = <<>>
                           /\ \A d \in Conns \ {c} : where'[d] = where[d] /\ inbox'[d] = inbox[d]
         /\ c \in Available => \/ where[c] = "pool"
                               \/ /\ c \notin {sub, popping} /\ \A m \in Messages : using[m] # c
                                  /\ where[c] = "closed" \/ (c \in forgotten /\ ~alive[c])
         /\ Returned(c)[c] \in {"pool", "closed"}
         /\ \A d \in Conns \ {c} : Returned(c)[d] = where[d]
<1>1. \A d \in Conns : Pushed(buf)[d] # inbox[d] => subscribed[d] /\ d \notin forgotten
  BY DEF Pushed
<1>2. ASSUME Take(c)
      PROVE  /\ where'[c] = "out" /\ forgotten' = forgotten \ {c}
             /\ inbox'[c] = IF where[c] = "pool" THEN inbox[c] ELSE <<>>
             /\ \A d \in Conns \ {c} : where'[d] = where[d] /\ inbox'[d] = inbox[d]
             /\ \A d \in Conns : alive[d] => alive'[d]
  <2>1. /\ where'[c] = "out" /\ forgotten' = forgotten \ {c}
        /\ \A d \in Conns \ {c} : where'[d] = where[d]
    BY <1>2 DEF Take, TypeOK
  <2>2. /\ inbox'[c] = IF where[c] = "pool" THEN inbox[c] ELSE <<>>
        /\ \A d \in Conns \ {c} : inbox'[d] = inbox[d]
    BY <1>2 DEF Take, TypeOK
  <2>3. ASSUME NEW d \in Conns, alive[d] PROVE alive'[d]
    BY <1>2, <2>3, Zenon DEF Take, TypeOK
  <2> QED BY <2>1, <2>2, <2>3
<1>3. c \in Available => \/ where[c] = "pool"
                        \/ /\ c \notin {sub, popping} /\ \A m \in Messages : using[m] # c
                           /\ where[c] = "closed" \/ (c \in forgotten /\ ~alive[c])
  <2>1. c \in Available => where[c] = "pool" \/ Free(c)
    BY DEF Available
  <2> QED BY <2>1 DEF Free
<1>4. /\ Returned(c)[c] = IF alive[c] THEN "pool" ELSE "closed"
      /\ \A d \in Conns \ {c} : Returned(c)[d] = where[d]
  BY DEF Returned, TypeOK
<1>5. ASSUME GiveBack(c)
      PROVE  /\ where'[c] = IF alive[c] THEN "pool" ELSE "closed"
             /\ inbox'[c] = <<>>
             /\ \A d \in Conns \ {c} : where'[d] = where[d] /\ inbox'[d] = inbox[d]
  BY <1>4, <1>5 DEF GiveBack, TypeOK
<1> QED BY <1>1, <1>2, <1>3, <1>4, <1>5

(* Two that have run at the same time have done so for good. *)
LEMMA RacedStays ==
  ASSUME [Next]_vars, raced
  PROVE  raced'
<1>1. CASE CallClose \/ LockRmu
  BY <1>1 DEF CallClose, Enter, LockRmu
<1>2. CASE Unsubscribe \/ CloseSubscription \/ ForgetSub
           \/ NilClose("unsubscribing") \/ NilClose("returning")
  BY <1>2 DEF Unsubscribe, CloseSubscription, ForgetSub, NilClose
<1>3. ASSUME NEW m \in Messages, WriteMessage(m) PROVE raced'
  BY <1>3 DEF WriteMessage, ToWireError, MarshalMsg, Connection, DoInt, closeVars
<1>4. CASE ReadMessage /\ ~LockRmu
  BY <1>4 DEF ReadMessage, ReadOn, LookAtSub, OpenSubscription, Subscribe, UndoSubscription,
              CallPop, Pop, PopError, NilSub, closeVars
<1>5. ASSUME NEW c \in Conns, Break(c) PROVE raced'
  BY <1>5 DEF Break, closeVars
<1>6. ASSUME NEW g \in Garbage, PublishGarbage(g) PROVE raced'
  BY <1>6 DEF PublishGarbage, closeVars
<1> QED
  BY <1>1, <1>2, <1>3, <1>4, <1>5, <1>6 DEF Next, Close, ReadMessage, ReadOn, vars, closeVars

(* Until Close and a ReadMessage run at the same time, what each of them   *)
(* has read of Codec.sub stays true, and every connection is in one hand   *)
(* or forgotten.                                                           *)
LEMMA HandsApart == Spec => []RaceInv
<1>1. Init => RaceInv
  BY DEF Init, RaceInv, SubInv, HandsInv, Holding, Closing, Reading
<1>2. TypeOK /\ WriterInv /\ WriterInv' /\ RaceInv /\ [Next]_vars => RaceInv'
  <2> SUFFICES ASSUME TypeOK, WriterInv, WriterInv', RaceInv, [Next]_vars, ~raced'
               PROVE  SubInv' /\ HandsInv'
    BY DEF RaceInv
  <2>s. ~raced /\ SubInv /\ HandsInv
    BY RacedStays DEF RaceInv
  <2> USE DEF Holding
  <2>o. \A m, n \in Messages : using[m] # None /\ using[n] # None => m = n
    BY DEF WriterInv
  (* The subscription's connection is not with a writer. *)
  <2>w. ASSUME sub \in Conns, closing # "forgetting"
        PROVE  \A n \in Messages : using[n] # None => using[n] \in Conns \ {sub}
    BY <2>s, <2>w DEF TypeOK, HandsInv
  <2>1. ASSUME NEW m \in Messages, ToWireError(m) \/ MarshalMsg(m) PROVE SubInv' /\ HandsInv'
    BY <2>1, <2>s
       DEF ToWireError, MarshalMsg, connVars, readVars, closeVars, SubInv, HandsInv, Closing,
           Reading
  <2>2. ASSUME NEW m \in Messages, Connection(m) PROVE SubInv' /\ HandsInv'
    <3>1. /\ UNCHANGED <<subscribed, read, popping, sub, closing>>
          /\ call[m] = "connecting" /\ using[m] = None
      BY <2>2 DEF Connection, readVars, closeVars, WriterInv
    <3>2. SubInv'
      BY <2>s, <3>1 DEF SubInv, Closing, Reading
    <3>3. CASE UNCHANGED <<where, forgotten, alive, inbox, using>>
      <4>1. HandsInv'
        BY <2>s, <3>1, <3>3 DEF HandsInv
      <4> QED BY <3>2, <4>1
    <3>4. CASE \E c \in Available : Take(c) /\ using' = [using EXCEPT ![m] = c]
      <4>1. PICK c \in Available : Take(c) /\ using' = [using EXCEPT ![m] = c]
        BY <3>4
      <4>2. c \in Conns
        BY DEF Available
      <4>3. /\ where'[c] = "out" /\ forgotten' = forgotten \ {c}
            /\ inbox'[c] = IF where[c] = "pool" THEN inbox[c] ELSE <<>>
            /\ \A d \in Conns \ {c} : where'[d] = where[d] /\ inbox'[d] = inbox[d]
            /\ \A d \in Conns : alive[d] => alive'[d]
        BY <4>1, <4>2, Handled
      <4>f. \/ where[c] = "pool"
            \/ /\ c \notin {sub, popping} /\ \A n \in Messages : using[n] # c
               /\ where[c] = "closed" \/ (c \in forgotten /\ ~alive[c])
        BY <4>2, Handled
      <4>5. inbox'[c] = <<>> /\ ~Holding(c)
        BY <2>s, <4>2, <4>3, <4>f DEF HandsInv
      <4>u. ~subscribed[c]
        BY <2>s, <4>2, <4>f, <4>5 DEF HandsInv
      <4>4. /\ using'[m] = c /\ \A n \in Messages \ {m} : using'[n] = using[n]
            /\ \A n \in Messages : using[n] # None => n # m /\ using[n] \in Conns \ {c}
        BY <2>s, <3>1, <4>1, <4>2, <4>f DEF TypeOK, HandsInv
      <4>6. \A d \in Conns : Holding(d)' <=> Holding(d)
        BY <3>1
      <4>7. \A d \in Conns : subscribed'[d] =>
              /\ alive'[d]
              /\ d \in forgotten' \/ (sub' = d /\ closing' \notin {"returning", "forgetting"})
        BY <2>s, <3>1, <4>3, <4>u DEF HandsInv
      <4>8. \A n \in Messages : using'[n] # None =>
              /\ where'[using'[n]] = "out" /\ inbox'[using'[n]] = <<>>
              /\ ~Holding(using[n])' /\ using'[n] \notin forgotten'
        <5> TAKE n \in Messages
        <5>1. CASE n = m
          BY <3>1, <4>3, <4>4, <4>5, <5>1
        <5>2. CASE n # m
          BY <2>s, <3>1, <4>3, <4>4, <5>2 DEF HandsInv
        <5> QED BY <5>1, <5>2
      <4>9. \A d \in Conns : /\ Holding(d)' => where'[d] = "out"
                             /\ where'[d] = "pool" => inbox'[d] = <<>>
                             /\ where'[d] = "out" =>
                                  \/ Holding(d)' \/ d \in forgotten'
                                  \/ \E n \in Messages : using'[n] = d
        <5> TAKE d \in Conns
        <5>1. CASE d = c
          BY <4>3, <4>4, <5>1
        <5>2. CASE d # c
          BY <2>s, <3>1, <4>2, <4>3, <4>4, <4>6, <5>2 DEF HandsInv
        <5> QED BY <5>1, <5>2
      <4>k. \A d \in forgotten' : where'[d] = "out" /\ sub' # d
        BY <2>s, <3>1, <4>3 DEF HandsInv, TypeOK
      <4>10. HandsInv'
        BY <2>s, <3>1, <4>7, <4>8, <4>9, <4>k DEF HandsInv
      <4> QED BY <3>2, <4>10
    <3> QED BY <2>2, <3>2, <3>3, <3>4 DEF Connection
  <2>3. ASSUME NEW m \in Messages, DoInt(m) PROVE SubInv' /\ HandsInv'
    <3> DEFINE c == using[m]
    <3>1. /\ UNCHANGED <<forgotten, alive, subscribed, read, popping, sub, closing>>
          /\ call[m] = "publishing" /\ where' = Returned(c)
          /\ using' = [using EXCEPT ![m] = None]
          /\ inbox' = Pushed(buf) \/ inbox' = inbox
          /\ c \in Conns
      BY <2>3 DEF DoInt, readVars, closeVars, WriterInv, TypeOK
    <3>2. SubInv'
      BY <2>s, <3>1 DEF SubInv, Closing, Reading
    <3>3. /\ \A d \in Conns : inbox'[d] # inbox[d] => subscribed[d] /\ d \notin forgotten
          /\ where'[c] \in {"pool", "closed"}
          /\ \A d \in Conns \ {c} : where'[d] = where[d]
      BY <3>1, Handled
    <3>4. where[c] = "out" /\ inbox[c] = <<>> /\ ~Holding(c) /\ c \notin forgotten
      BY <2>s, <3>1 DEF HandsInv
    <3>5. \A n \in Messages : using'[n] = None
      BY <2>o, <3>1 DEF TypeOK
    <3>6. \A d \in Conns :
            /\ Holding(d)' => where'[d] = "out"
            /\ subscribed'[d] =>
                 /\ alive'[d]
                 /\ d \in forgotten' \/ (sub' = d /\ closing' \notin {"returning", "forgetting"})
      BY <2>s, <3>1, <3>3, <3>4 DEF HandsInv
    <3>7. \A d \in Conns : where'[d] = "pool" => inbox'[d] = <<>>
      <4> TAKE d \in Conns
      <4>1. ~subscribed[d] \/ d \in forgotten => inbox'[d] = inbox[d]
        BY <3>3
      <4>2. CASE d = c
        <5>1. ~subscribed[d]
          BY <2>s, <3>4, <4>2 DEF HandsInv
        <5> QED BY <3>4, <4>1, <4>2, <5>1
      <4>3. CASE d # c
        <5>1. where[d] = "pool" => ~subscribed[d]
          BY <2>s DEF HandsInv
        <5> QED BY <2>s, <3>3, <4>1, <4>3, <5>1 DEF HandsInv
      <4> QED BY <4>2, <4>3
    <3>8. \A d \in Conns : where'[d] = "out" => Holding(d)' \/ d \in forgotten'
      <4> TAKE d \in Conns
      <4>1. CASE d = c
        BY <3>3, <4>1
      <4>2. CASE d # c
        <5>1. \A n \in Messages : using[n] # d
          BY <2>o, <3>1, <4>2
        <5> QED BY <2>s, <3>1, <3>3, <4>2, <5>1 DEF HandsInv
      <4> QED BY <4>1, <4>2
    <3>k. \A d \in forgotten' : where'[d] = "out" /\ sub' # d
      BY <2>s, <3>1, <3>3, <3>4 DEF HandsInv, TypeOK
    <3>9. HandsInv'
      BY <2>s, <3>1, <3>5, <3>6, <3>7, <3>8, <3>k DEF HandsInv
    <3> QED BY <3>2, <3>9
  <2>4. CASE LockRmu \/ LookAtSub \/ CallPop
    <3>1. /\ UNCHANGED <<using, connVars, sub>>
          /\ closing' = closing \/ (closing = "done" /\ closing' = "no")
          /\ read' \notin {"subscribing", "undoing"}
      BY <2>4 DEF Goto, LockRmu, LookAtSub, CallPop, writeVars, closeVars
    <3>2. SubInv'
      BY <2>4, <2>s DEF LockRmu, LookAtSub, CallPop, Goto, SubInv, closeVars, Closing, Reading
    <3>3. HandsInv'
      BY <2>s, <3>1 DEF HandsInv, connVars
    <3> QED BY <3>2, <3>3
  <2>5. CASE \/ NilSub("subscribing") \/ NilSub("undoing") \/ NilSub("pop")
             \/ NilClose("unsubscribing") \/ NilClose("returning")
    BY <2>5, <2>s DEF NilSub, NilClose, SubInv, Closing
  <2>6. CASE OpenSubscription
    <3>1. /\ UNCHANGED <<using, subscribed, popping, closing>>
          /\ read = "opening" /\ sub = None /\ ~Closing /\ closing \notin {"done", "panicked"}
      BY <2>6, <2>s DEF OpenSubscription, writeVars, closeVars, SubInv, Reading
    <3>2. CASE Goto("failed") /\ UNCHANGED <<where, forgotten, alive, inbox, sub>>
      BY <2>s, <3>1, <3>2 DEF Goto, SubInv, HandsInv, Closing, Reading
    <3>3. CASE \E c \in Available : Take(c) /\ sub' = c /\ Goto("subscribing")
      <4>1. PICK c \in Available : Take(c) /\ sub' = c /\ Goto("subscribing")
        BY <3>3
      <4>2. c \in Conns
        BY DEF Available
      <4>f. \/ where[c] = "pool"
            \/ /\ c \notin {sub, popping} /\ \A n \in Messages : using[n] # c
               /\ where[c] = "closed" \/ (c \in forgotten /\ ~alive[c])
        BY <4>2, Handled
      <4>3. /\ where'[c] = "out" /\ forgotten' = forgotten \ {c}
            /\ \A d \in Conns \ {c} : where'[d] = where[d] /\ inbox'[d] = inbox[d]
            /\ \A d \in Conns : alive[d] => alive'[d]
        BY <4>1, <4>2, Handled
      <4>4. SubInv'
        BY <3>1, <4>1, <4>2 DEF Goto, SubInv, Closing
      <4>5. \A n \in Messages : using[n] # None => using[n] \in Conns \ {c}
        BY <2>s, <4>2, <4>f DEF TypeOK, HandsInv
      <4>6. ~subscribed[c] /\ \A d \in Conns : ~Holding(d) /\ (subscribed[d] => d \in forgotten)
        BY <2>s, <3>1, <4>2, <4>f DEF HandsInv
      <4>7. \A d \in Conns : Holding(d)' <=> d = c
        BY <3>1, <4>1 DEF Closing
      <4>8. /\ \A d \in Conns : Holding(d)' => where'[d] = "out"
            /\ \A d \in Conns : subscribed'[d] => alive'[d] /\ d \in forgotten'
        BY <2>s, <3>1, <4>3, <4>6, <4>7 DEF HandsInv
      <4>9. \A n \in Messages : using'[n] # None =>
              /\ where'[using'[n]] = "out" /\ inbox'[using'[n]] = <<>>
              /\ ~Holding(using[n])' /\ using'[n] \notin forgotten'
        BY <2>s, <3>1, <4>3, <4>5, <4>7 DEF HandsInv
      <4>10. \A d \in Conns : where'[d] = "pool" => inbox'[d] = <<>>
        BY <2>s, <4>3 DEF HandsInv
      <4>11. \A d \in Conns : where'[d] = "out" =>
               Holding(d)' \/ d \in forgotten' \/ \E n \in Messages : using'[n] = d
        BY <2>s, <3>1, <4>3, <4>6, <4>7 DEF HandsInv
      <4>k. \A d \in forgotten' : where'[d] = "out" /\ sub' # d
        BY <2>s, <4>1, <4>3 DEF HandsInv, TypeOK
      <4>12. HandsInv'
        BY <3>1, <4>1, <4>6, <4>8, <4>9, <4>10, <4>11, <4>k DEF HandsInv
      <4> QED BY <4>4, <4>12
    <3> QED BY <2>6, <3>2, <3>3 DEF OpenSubscription
  <2>7. CASE Subscribe
    <3>1. /\ read = "subscribing" /\ sub \in Conns /\ ~Closing
          /\ closing \notin {"done", "panicked"}
          /\ UNCHANGED <<using, where, forgotten, alive, popping, sub, closing>>
          /\ read' \in {"pop", "undoing"}
      BY <2>7, <2>s DEF Subscribe, Goto, writeVars, closeVars, SubInv, HandsInv, TypeOK, Reading
    <3>2. /\ \A d \in Conns \ {sub} : inbox'[d] = inbox[d]
          /\ \A d \in Conns : subscribed'[d] => (d = sub /\ alive[sub]) \/ subscribed[d]
          /\ read' = "undoing" => UNCHANGED subscribed
      BY <2>7, <3>1 DEF Subscribe, Goto, TypeOK
    <3>3. SubInv'
      BY <3>1 DEF SubInv, Closing
    <3>4. where[sub] = "out" /\ \A n \in Messages : using[n] # None => using[n] \in Conns \ {sub}
      BY <2>s, <2>w, <3>1 DEF HandsInv, Closing
    <3>5. HandsInv'
      BY <2>s, <3>1, <3>2, <3>4 DEF HandsInv, Closing
    <3> QED BY <3>3, <3>5
  <2>u. CASE UndoSubscription
    <3>1. /\ read = "undoing" /\ sub \in Conns /\ ~Closing
          /\ closing \notin {"done", "panicked"}
          /\ UNCHANGED <<using, forgotten, alive, subscribed, popping, closing>>
          /\ GiveBack(sub) /\ sub' = None /\ read' = "failed"
      BY <2>u, <2>s DEF UndoSubscription, Goto, writeVars, closeVars, SubInv, TypeOK, Reading
    <3>2. SubInv'
      BY <3>1 DEF SubInv, Closing
    <3>3. /\ where'[sub] \in {"pool", "closed"} /\ inbox'[sub] = <<>>
          /\ \A d \in Conns \ {sub} : where'[d] = where[d] /\ inbox'[d] = inbox[d]
      BY <3>1, Handled
    <3>4. \A n \in Messages : using[n] # None => using[n] \in Conns \ {sub}
      BY <2>w, <3>1 DEF Closing
    <3>5. HandsInv'
      <4>1. \A d \in Conns : subscribed'[d] => d \in forgotten' /\ alive'[d] /\ d # sub
        BY <2>s, <3>1 DEF HandsInv, Closing
      <4>2. \A d \in Conns :
              /\ where'[d] = "pool" => inbox'[d] = <<>>
              /\ where'[d] = "out" => d # sub /\ where[d] = "out"
        BY <2>s, <3>3 DEF HandsInv
      <4>3. \A n \in Messages : using[n] # None =>
              /\ where'[using[n]] = "out" /\ inbox'[using[n]] = <<>>
              /\ using[n] \notin forgotten
        BY <2>s, <3>3, <3>4 DEF HandsInv
      <4>4. \A d \in forgotten : where'[d] = "out"
        BY <2>s, <3>1, <3>3 DEF HandsInv, TypeOK
      <4>5. \A d \in Conns : ~(sub' = d /\ closing' # "forgetting")
        BY <3>1
      <4>6. \A d \in Conns : where'[d] = "out" =>
              d \in forgotten \/ \E m \in Messages : using[m] = d
        BY <2>s, <4>2 DEF HandsInv, Holding
      <4>7. \A d \in forgotten : d # sub'
        BY <3>1 DEF TypeOK
      <4>8. \A m \in Messages : using'[m] # None =>
              /\ where'[using'[m]] = "out" /\ inbox'[using'[m]] = <<>>
              /\ ~(sub' = using'[m] /\ closing' # "forgetting") /\ using'[m] \notin forgotten'
        BY <3>1, <3>4, <4>3, <4>5
      <4>9. \A c \in Conns : where'[c] = "out" =>
              c \in forgotten' \/ \E m \in Messages : using'[m] = c
        BY <3>1, <4>6
      <4> QED BY <3>1, <4>1, <4>2, <4>4, <4>5, <4>7, <4>8, <4>9 DEF HandsInv, Holding
    <3> QED BY <3>2, <3>5
  <2>8. CASE Pop
    <3>1. /\ read = "popping" /\ popping = sub /\ sub \in Conns /\ ~Closing
          /\ closing \notin {"done", "panicked"}
          /\ read' \in {"looking", "idle", "failed"}
          /\ UNCHANGED <<using, where, forgotten, alive, subscribed, sub, closing>>
          /\ \A d \in Conns \ {sub} : inbox'[d] = inbox[d]
      BY <2>8, <2>s DEF Pop, Goto, writeVars, closeVars, SubInv, TypeOK, Reading
    <3>2. SubInv'
      BY <3>1 DEF SubInv, Closing
    <3>3. where[sub] = "out" /\ \A n \in Messages : using[n] # None => using[n] \in Conns \ {sub}
      BY <2>s, <2>w, <3>1 DEF HandsInv, Closing
    <3>4. HandsInv'
      BY <2>s, <3>1, <3>3 DEF HandsInv
    <3> QED BY <3>2, <3>4
  <2>9. CASE PopError
    <3>1. /\ read = "popping" /\ popping = sub /\ sub \in Conns /\ ~Closing
          /\ closing \notin {"done", "panicked"}
          /\ read' = "failed" /\ sub' = None /\ forgotten' = forgotten \cup {sub}
          /\ UNCHANGED <<using, where, alive, subscribed, closing>>
          /\ \A d \in Conns \ {sub} : inbox'[d] = inbox[d]
      BY <2>9, <2>s DEF PopError, Goto, writeVars, closeVars, SubInv, TypeOK, Reading
    <3>2. SubInv'
      BY <3>1 DEF SubInv, Closing
    <3>3. where[sub] = "out" /\ \A n \in Messages : using[n] # None => using[n] \in Conns \ {sub}
      BY <2>s, <2>w, <3>1 DEF HandsInv, Closing
    <3>4. HandsInv'
      BY <2>s, <3>1, <3>3 DEF HandsInv, TypeOK
    <3> QED BY <3>2, <3>4
  <2>10. CASE CallClose
    <3>1. /\ closing \in {"no", "done"} /\ ~Reading
          /\ closing' = IF sub = None THEN "done" ELSE "unsubscribing"
          /\ UNCHANGED <<using, connVars, read, popping, sub>>
      BY <2>10 DEF CallClose, Enter, writeVars, readVars
    <3>2. SubInv'
      BY <2>s, <3>1 DEF SubInv, Closing, Reading
    <3>3. HandsInv'
      BY <2>s, <3>1 DEF HandsInv, connVars
    <3> QED BY <3>2, <3>3
  <2>11. CASE Unsubscribe
    <3>1. /\ closing = "unsubscribing" /\ closing' = "returning" /\ sub \in Conns
          /\ ~Reading /\ read # "panicked"
          /\ UNCHANGED <<using, where, forgotten, alive, read, popping, sub>>
          /\ \A d \in Conns \ {sub} : inbox'[d] = inbox[d]
      BY <2>11, <2>s DEF Unsubscribe, writeVars, readVars, SubInv, TypeOK, Closing
    <3>2. SubInv'
      BY <3>1 DEF SubInv, Closing, Reading
    <3>3. where[sub] = "out" /\ \A n \in Messages : using[n] # None => using[n] \in Conns \ {sub}
      BY <2>s, <2>w, <3>1 DEF HandsInv
    <3>4. \A d \in Conns : subscribed'[d] => subscribed[d] /\ d # sub
      <4>1. CASE alive[sub]
        BY <2>11, <3>1, <4>1 DEF Unsubscribe, TypeOK
      <4>2. CASE ~alive[sub]
        BY <2>s, <2>11, <3>1, <4>2 DEF Unsubscribe, HandsInv
      <4> QED BY <4>1, <4>2
    <3>5. HandsInv'
      BY <2>s, <3>1, <3>3, <3>4 DEF HandsInv, TypeOK, Closing, Reading
    <3> QED BY <3>2, <3>5
  <2>12. CASE CloseSubscription
    <3>1. /\ closing = "returning" /\ closing' = "forgetting" /\ sub \in Conns
          /\ ~Reading /\ read # "panicked"
          /\ UNCHANGED <<using, forgotten, alive, subscribed, read, popping, sub>>
          /\ GiveBack(sub)
      BY <2>12, <2>s DEF CloseSubscription, writeVars, readVars, SubInv, TypeOK, Closing
    <3>2. SubInv'
      BY <3>1 DEF SubInv, Closing, Reading
    <3>3. /\ where'[sub] \in {"pool", "closed"} /\ inbox'[sub] = <<>>
          /\ \A d \in Conns \ {sub} : where'[d] = where[d] /\ inbox'[d] = inbox[d]
      BY <3>1, Handled
    <3>4. \A n \in Messages : using[n] # None => using[n] \in Conns \ {sub}
      BY <2>w, <3>1
    <3>5. HandsInv'
      <4>1. \A d \in Conns : subscribed'[d] => d \in forgotten' /\ alive'[d] /\ d # sub
        BY <2>s, <3>1 DEF HandsInv
      <4>2. \A d \in Conns :
              /\ where'[d] = "pool" => inbox'[d] = <<>>
              /\ where'[d] = "out" => d # sub /\ where[d] = "out"
        BY <2>s, <3>3 DEF HandsInv
      <4>3. \A n \in Messages : using[n] # None =>
              /\ where'[using[n]] = "out" /\ inbox'[using[n]] = <<>>
              /\ using[n] \notin forgotten
        BY <2>s, <3>3, <3>4 DEF HandsInv
      <4>4. \A d \in forgotten : where'[d] = "out" /\ d # sub
        BY <2>s, <3>1, <3>3 DEF HandsInv, TypeOK
      <4>5. \A d \in Conns : ~(sub' = d /\ closing' # "forgetting")
        BY <3>1
      <4>6. \A d \in Conns : where'[d] = "out" =>
              d \in forgotten \/ \E m \in Messages : using[m] = d
        BY <2>s, <4>2 DEF HandsInv, Holding
      <4>7. read' \notin {"subscribing", "undoing"}
        BY <3>1 DEF Reading, TypeOK
      <4>8. \A m \in Messages : using'[m] # None =>
              /\ where'[using'[m]] = "out" /\ inbox'[using'[m]] = <<>>
              /\ ~(sub' = using'[m] /\ closing' # "forgetting") /\ using'[m] \notin forgotten'
        BY <3>1, <3>4, <4>3, <4>5
      <4>9. \A c \in Conns : where'[c] = "out" =>
              c \in forgotten' \/ \E m \in Messages : using'[m] = c
        BY <3>1, <4>6
      <4> QED BY <3>1, <4>1, <4>2, <4>4, <4>5, <4>7, <4>8, <4>9 DEF HandsInv, Holding
    <3> QED BY <3>2, <3>5
  <2>13. CASE ForgetSub
    <3>1. /\ closing = "forgetting" /\ closing' = "done" /\ sub' = None
          /\ ~Reading /\ read # "panicked"
          /\ UNCHANGED <<using, where, forgotten, alive, subscribed, inbox, read, popping>>
      BY <2>13, <2>s DEF ForgetSub, writeVars, connVars, readVars, SubInv, Closing
    <3>2. SubInv'
      BY <3>1 DEF SubInv, Closing, Reading
    <3>3. HandsInv'
      BY <2>s, <3>1 DEF HandsInv, TypeOK, Reading
    <3> QED BY <3>2, <3>3
  <2>14. ASSUME NEW c \in Conns, Break(c) PROVE SubInv' /\ HandsInv'
    <3>1. /\ UNCHANGED <<using, where, forgotten, inbox, read, popping, sub, closing>>
          /\ alive' = [alive EXCEPT ![c] = FALSE]
          /\ subscribed' = [subscribed EXCEPT ![c] = FALSE]
      BY <2>14 DEF Break, writeVars, readVars, closeVars
    <3>2. SubInv'
      BY <2>s, <3>1 DEF SubInv, Closing, Reading
    <3>3. \A d \in Conns : subscribed'[d] => subscribed[d] /\ d # c
      BY <3>1 DEF TypeOK
    <3>4. \A d \in Conns : d # c => alive'[d] = alive[d]
      BY <3>1 DEF TypeOK
    <3>5. HandsInv'
      BY <2>s, <3>1, <3>3, <3>4 DEF HandsInv, TypeOK, Closing, Reading
    <3> QED BY <3>2, <3>5
  <2>15. ASSUME NEW g \in Garbage, PublishGarbage(g) PROVE SubInv' /\ HandsInv'
    <3>1. /\ UNCHANGED <<using, where, forgotten, alive, subscribed, read, popping, sub, closing>>
          /\ \A d \in Conns : ~subscribed[d] \/ d \in forgotten => inbox'[d] = inbox[d]
      BY <2>15 DEF PublishGarbage, Pushed, readVars, closeVars
    <3>2. SubInv'
      BY <2>s, <3>1 DEF SubInv, Closing, Reading
    <3>5. \A d \in Conns : where[d] = "pool" => ~subscribed[d]
      BY <2>s DEF HandsInv
    <3>6. \A n \in Messages : using[n] # None =>
            using[n] \in Conns /\ ~subscribed[using[n]]
      BY <2>s DEF HandsInv, TypeOK
    <3>4. HandsInv'
      BY <2>s, <3>1, <3>5, <3>6 DEF HandsInv
    <3> QED BY <3>2, <3>4
  <2>16. CASE UNCHANGED vars
    BY <2>16, <2>s
       DEF vars, writeVars, connVars, readVars, closeVars, SubInv, HandsInv, Closing, Reading
  <2> QED
    BY <2>1, <2>2, <2>3, <2>4, <2>5, <2>6, <2>7, <2>u, <2>8, <2>9, <2>10, <2>11, <2>12,
       <2>13, <2>14, <2>15, <2>16 DEF Next, WriteMessage, ReadMessage, ReadOn, Close
<1> QED BY <1>1, <1>2, WritersKeepBuf, PTL DEF Spec

(* For any number of writers and connections, and however often the codec  *)
(* is closed and read from again: until Close and a ReadMessage run at the *)
(* same time, neither uses a subscription that is gone.                    *)
THEOREM NeverNilSub == Spec => []NoNilSub
<1>1. RaceInv => NoNilSub
  BY DEF RaceInv, SubInv, NoNilSub
<1> QED BY <1>1, HandsApart, PTL

(* And once Close has returned nothing is subscribed before ReadMessage is *)
(* called again, but what Pop has failed on.                               *)
THEOREM CloseEndsSubscription == Spec => []ClosedIsUnsubscribed
<1>1. RaceInv => ClosedIsUnsubscribed
  <2> SUFFICES ASSUME RaceInv, ~raced, closing = "done", NEW c \in Conns \ forgotten, subscribed[c]
               PROVE  FALSE
    BY DEF ClosedIsUnsubscribed, CloseUnsubscribes
  <2>1. SubInv /\ HandsInv
    BY DEF RaceInv
  <2>2. sub = None /\ sub = c
    BY <2>1 DEF SubInv, HandsInv
  <2> QED BY <2>2
<1> QED BY <1>1, HandsApart, PTL

(* And a connection is lost only when Pop fails on it, none is lent twice, *)
(* or put back into the pool subscribed or with pushes nobody has read.    *)
THEOREM PoolStaysSound == Spec => []PoolSound
<1>1. TypeOK /\ WriterInv /\ RaceInv => PoolSound
  <2> SUFFICES ASSUME TypeOK, WriterInv, RaceInv, ~raced, NEW c \in Conns
      PROVE  /\ where[c] = "pool" => ~subscribed[c] /\ inbox[c] = <<>>
             /\ where[c] = "out" =>
                  Cardinality({m \in Messages : using[m] = c})
                    + (IF sub = c /\ closing # "forgetting" THEN 1 ELSE 0)
                    + (IF c \in forgotten THEN 1 ELSE 0) = 1
    BY DEF PoolSound
  <2>1. HandsInv
    BY DEF RaceInv
  <2>2. where[c] = "pool" => ~subscribed[c] /\ inbox[c] = <<>>
    BY <2>1 DEF HandsInv, Holding
  <2>f. Holding(c) => c \notin forgotten
    BY <2>1 DEF HandsInv, Holding
  <2>3. ASSUME where[c] = "out", Holding(c) \/ c \in forgotten
        PROVE  Cardinality({m \in Messages : using[m] = c}) = 0
    <3>1. {m \in Messages : using[m] = c} = {}
      BY <2>1, <2>3 DEF HandsInv
    <3> QED BY <3>1, FS_EmptySet
  <2>4. ASSUME where[c] = "out", ~Holding(c), c \notin forgotten
        PROVE  Cardinality({m \in Messages : using[m] = c}) = 1
    <3>1. PICK m \in Messages : using[m] = c
      BY <2>1, <2>4 DEF HandsInv
    <3>2. {n \in Messages : using[n] = c} = {m}
      BY <3>1 DEF WriterInv
    <3> QED BY <3>2, FS_Singleton
  <2> QED BY <2>2, <2>3, <2>4, <2>f DEF Holding
<1> QED BY <1>1, WritersKeepBuf, HandsApart, PTL

-----------------------------------------------------------------------------
(* Somebody else has published on the channel. *)
GarbagePublished == published \cap Garbage # {}

(* What is in an inbox that is no message has been published as well. *)
Accounted(inb) ==
  \A i \in 1..Len(inb) : inb[i] \in Garbage => Skipped(inb[i]) \/ GarbagePublished

(* A ReadMessage that fails either has no subscription any more or has met *)
(* what is no message.                                                     *)
CauseInv ==
  /\ \A c \in Conns : Accounted(inbox[c])
  /\ read = "opening" => sub = None
  /\ FailsForCause

(* An inbox remains accounted for when a message or a confirmation comes   *)
(* in, and when something is taken out.                                    *)
LEMMA InboxAccounted ==
  ASSUME NEW s \in Seq(Pushes), Accounted(s)
  PROVE  /\ \A x \in Pushes \ Garbage : Accounted(Append(s, x))
         /\ Accounted(Append(s, "confirmation"))
         /\ s # <<>> => Accounted(Tail(s))
         /\ Accounted(<<>>)
<1>1. ASSUME NEW x \in Pushes, x \notin Garbage \/ Skipped(x) PROVE Accounted(Append(s, x))
  <2>1. /\ Len(Append(s, x)) = Len(s) + 1 /\ Append(s, x)[Len(s) + 1] = x /\ Len(s) \in Nat
        /\ \A j \in 1..Len(s) : Append(s, x)[j] = s[j]
    BY AppendProperties, LenProperties
  <2>2. \A i \in 1..Len(Append(s, x)) : i = Len(s) + 1 \/ i \in 1..Len(s)
    BY <2>1
  <2> QED BY <1>1, <2>1, <2>2 DEF Accounted
<1>2. ASSUME s # <<>> PROVE Accounted(Tail(s))
  <2>1. /\ Len(Tail(s)) = Len(s) - 1 /\ Len(s) \in Nat
        /\ \A i \in 1..Len(Tail(s)) : Tail(s)[i] = s[i + 1]
    BY <1>2, HeadTailProperties, LenProperties
  <2>2. \A i \in 1..Len(Tail(s)) : i + 1 \in 1..Len(s)
    BY <2>1
  <2> QED BY <2>1, <2>2 DEF Accounted
<1>3. Accounted(<<>>)
  BY DEF Accounted
<1>4. "confirmation" \in Pushes /\ Skipped("confirmation")
  BY DEF Pushes, Skipped
<1> QED BY <1>1, <1>2, <1>3, <1>4

(* For any number of writers and connections, ReadMessage fails for a      *)
(* reason: a subscription that is lost or something that is no message.    *)
THEOREM FailuresHaveCauses == Spec => []FailsForCause
<1>1. Init => CauseInv
  BY DEF Init, CauseInv, FailsForCause, Accounted
<1>2. TypeOK /\ WriterInv /\ CauseInv /\ [Next]_vars => CauseInv'
  <2> SUFFICES ASSUME TypeOK, WriterInv, CauseInv, [Next]_vars PROVE CauseInv'
    OBVIOUS
  <2>t. \A c \in Conns : inbox[c] \in Seq(Pushes) /\ Accounted(inbox[c])
    BY DEF TypeOK, CauseInv
  (* The reader goes on as it was, or its step is one of these. *)
  <2>s. ASSUME published' = published, \A c \in Conns : Accounted(inbox'[c]),
               \/ read' = read
               \/ read' \notin {"opening", "failed"}
               \/ read' = "opening" /\ sub' = None
               \/ read' = "failed" /\ (sub' = None \/ GarbagePublished),
               sub' \in {sub, None} \/ read' \notin {"opening", "failed"}
        PROVE  CauseInv'
    BY <2>s DEF CauseInv, FailsForCause, Accounted, GarbagePublished
  <2>1. ASSUME NEW m \in Messages, ToWireError(m) \/ MarshalMsg(m) PROVE CauseInv'
    BY <2>1, <2>s, <2>t DEF ToWireError, MarshalMsg, connVars, readVars
  <2>a. ASSUME NEW c \in Conns, Take(c) PROVE \A d \in Conns : Accounted(inbox'[d])
    <3>1. /\ inbox'[c] = IF where[c] = "pool" THEN inbox[c] ELSE <<>>
          /\ \A d \in Conns \ {c} : inbox'[d] = inbox[d]
      BY <2>a, Handled
    <3>2. Accounted(<<>>)
      BY DEF Accounted
    <3> QED BY <2>t, <3>1, <3>2
  <2>2. ASSUME NEW m \in Messages, Connection(m) PROVE CauseInv'
    <3>1. \A d \in Conns : Accounted(inbox'[d])
      <4>1. Available \subseteq Conns
        BY DEF Available
      <4> QED BY <2>2, <2>a, <2>t, <4>1 DEF Connection
    <3> QED BY <2>2, <2>s, <3>1 DEF Connection, readVars
  <2>3. ASSUME NEW m \in Messages, DoInt(m) PROVE CauseInv'
    <3>1. /\ UNCHANGED <<read, popping, sub>>
          /\ \/ published' = published \cup {m} /\ inbox' = Pushed(m)
             \/ published' = published /\ inbox' = inbox
      BY <2>3 DEF DoInt, readVars, WriterInv
    <3>2. m \in Pushes \ Garbage
      BY DEF Pushes
    <3>3. CASE published' = published /\ inbox' = inbox
      BY <2>s, <2>t, <3>1, <3>3
    <3>4. CASE published' = published \cup {m} /\ inbox' = Pushed(m)
      <4>1. GarbagePublished => GarbagePublished'
        BY <3>4 DEF GarbagePublished
      <4>2. ASSUME NEW c \in Conns PROVE Accounted(inbox'[c])
        <5>1. inbox'[c] = inbox[c] \/ inbox'[c] = Append(inbox[c], m)
          BY <3>4 DEF Pushed
        <5> QED BY <2>t, <3>2, <5>1, InboxAccounted
      <4>3. ASSUME NEW c \in Conns PROVE Accounted(inbox[c])'
        BY <4>1, <4>2 DEF Accounted
      <4> QED BY <3>1, <4>1, <4>3 DEF CauseInv, FailsForCause, GarbagePublished
    <3> QED BY <3>1, <3>3, <3>4
  <2>4. CASE \/ LockRmu \/ LookAtSub \/ CallPop
             \/ NilSub("subscribing") \/ NilSub("undoing") \/ NilSub("pop")
    BY <2>4, <2>s, <2>t
       DEF LockRmu, LookAtSub, NilSub, CallPop, Goto, writeVars, connVars
  <2>5. CASE OpenSubscription
    <3>1. /\ read = "opening" /\ sub = None /\ UNCHANGED <<published, popping>>
          /\ \/ \E c \in Available : Take(c) /\ sub' = c /\ read' = "subscribing"
             \/ read' = "failed" /\ UNCHANGED <<inbox, sub>>
      BY <2>5 DEF OpenSubscription, Goto, CauseInv, writeVars
    <3>2. \A d \in Conns : Accounted(inbox'[d])
      <4>1. Available \subseteq Conns
        BY DEF Available
      <4> QED BY <2>a, <2>t, <3>1, <4>1
    <3> QED BY <2>s, <3>1, <3>2
  <2>6. CASE Subscribe
    <3>1. /\ sub \in Conns /\ UNCHANGED <<published, popping>>
          /\ read' \in {"pop", "undoing"} /\ sub' = sub
          /\ \/ inbox' = [inbox EXCEPT ![sub] = Append(inbox[sub], "confirmation")]
             \/ inbox' = inbox
      BY <2>6 DEF Subscribe, Goto, TypeOK, writeVars
    <3>2. \A d \in Conns : Accounted(inbox'[d])
      <4>1. Accounted(Append(inbox[sub], "confirmation"))
        BY <2>t, <3>1, InboxAccounted
      <4> QED BY <2>t, <3>1, <4>1 DEF TypeOK
    <3> QED BY <2>s, <3>1, <3>2
  <2>7. CASE Pop
    <3> DEFINE x == Head(inbox[popping])
    <3>1. /\ popping \in Conns /\ inbox[popping] # <<>>
          /\ inbox' = [inbox EXCEPT ![popping] = Tail(inbox[popping])]
          /\ UNCHANGED <<published, sub>>
          /\ \/ read' \in {"looking", "idle"}
             \/ read' = "failed" /\ ~Skipped(x) /\ x \notin Messages
      BY <2>7 DEF Pop, Goto, CauseInv, TypeOK, Unmarshals, writeVars
    <3>2. \A d \in Conns : Accounted(inbox'[d])
      <4>1. Accounted(Tail(inbox[popping]))
        BY <2>t, <3>1, InboxAccounted
      <4> QED BY <2>t, <3>1, <4>1 DEF TypeOK
    <3>3. read' = "failed" => GarbagePublished
      <4>1. x = inbox[popping][1] /\ 1 \in 1..Len(inbox[popping]) /\ x \in Pushes
        BY <2>t, <3>1, EmptySeq, LenProperties
      <4>2. x \in Garbage => Skipped(x) \/ GarbagePublished
        BY <2>t, <3>1, <4>1 DEF Accounted
      <4> QED BY <3>1, <4>1, <4>2 DEF Pushes, Skipped
    <3> QED BY <2>s, <3>1, <3>2, <3>3
  <2>8. CASE PopError
    <3>1. /\ popping \in Conns /\ inbox' = [inbox EXCEPT ![popping] = <<>>]
          /\ read' = "failed" /\ sub' = None /\ published' = published
      BY <2>8 DEF PopError, Goto, TypeOK, writeVars
    <3>2. \A d \in Conns : Accounted(inbox'[d])
      <4>1. Accounted(<<>>)
        BY DEF Accounted
      <4> QED BY <2>t, <3>1, <4>1 DEF TypeOK
    <3> QED BY <2>s, <3>1, <3>2
  <2>u. CASE UndoSubscription
    <3>1. /\ sub \in Conns /\ GiveBack(sub)
          /\ read' = "failed" /\ sub' = None /\ published' = published
      BY <2>u DEF UndoSubscription, Goto, TypeOK, writeVars
    <3>2. \A d \in Conns : Accounted(inbox'[d])
      <4>1. Accounted(<<>>)
        BY DEF Accounted
      <4> QED BY <2>t, <3>1, <4>1, Handled
    <3> QED BY <2>s, <3>1, <3>2
  <2>9. CASE \/ CallClose \/ ForgetSub
             \/ NilClose("unsubscribing") \/ NilClose("returning")
    BY <2>9, <2>s, <2>t
       DEF CallClose, Enter, ForgetSub, NilClose, writeVars, connVars, readVars
  <2>10. CASE Unsubscribe \/ CloseSubscription
    <3>1. /\ UNCHANGED <<published, read, popping, sub>>
          /\ \/ inbox' = inbox
             \/ sub \in Conns
                /\ inbox' = [inbox EXCEPT ![sub] = Append(inbox[sub], "confirmation")]
             \/ sub \in Conns /\ inbox' = [inbox EXCEPT ![sub] = <<>>]
      BY <2>10 DEF Unsubscribe, CloseSubscription, GiveBack, TypeOK, writeVars, readVars
    <3>2. \A d \in Conns : Accounted(inbox'[d])
      <4>1. sub \in Conns => Accounted(Append(inbox[sub], "confirmation")) /\ Accounted(<<>>)
        BY <2>t, InboxAccounted
      <4> QED BY <2>t, <3>1, <4>1 DEF TypeOK
    <3> QED BY <2>s, <3>1, <3>2
  <2>11. ASSUME NEW c \in Conns, Break(c) PROVE CauseInv'
    BY <2>11, <2>s, <2>t DEF Break, writeVars, readVars
  <2>12. ASSUME NEW g \in Garbage, PublishGarbage(g) PROVE CauseInv'
    <3>1. GarbagePublished'
      BY <2>12 DEF PublishGarbage, GarbagePublished
    <3>2. UNCHANGED <<read, popping, sub>>
      BY <2>12 DEF PublishGarbage, readVars
    <3> QED BY <3>1, <3>2 DEF CauseInv, FailsForCause, Accounted, GarbagePublished
  <2>13. CASE UNCHANGED vars
    BY <2>13, <2>s, <2>t DEF vars, writeVars, connVars, readVars
  <2> QED
    BY <2>1, <2>2, <2>3, <2>4, <2>5, <2>6, <2>7, <2>8, <2>u, <2>9, <2>10, <2>11, <2>12, <2>13
       DEF Next, WriteMessage, ReadMessage, ReadOn, Close
<1>3. CauseInv => FailsForCause
  BY DEF CauseInv
<1> QED BY <1>1, <1>2, <1>3, WritersKeepBuf, PTL DEF Spec

-----------------------------------------------------------------------------
(* A message is published by its own WriteMessage and by no other, on its  *)
(* way out.                                                                *)
PublishedInv ==
  \A m \in Messages : m \in published => call[m] \in {"ok", "failed"}

(* A connection is subscribed clean, and reads nothing before that.        *)
FreshInv ==
  ~raced /\ read = "subscribing" => ~subscribed[sub] /\ inbox[sub] = <<>>

PubSubInv == TypeOK /\ WriterInv /\ RaceInv /\ PublishedInv /\ FreshInv

(* Every step of WriteMessage: the call of m alone moves, and never back   *)
(* from where it has ended.                                                *)
LEMMA NextPublishedInv ==
  TypeOK /\ WriterInv /\ PublishedInv /\ [Next]_vars => PublishedInv'
<1> SUFFICES ASSUME TypeOK, WriterInv, PublishedInv, [Next]_vars PROVE PublishedInv'
  OBVIOUS
<1>s. ASSUME UNCHANGED published,
             \A n \in Messages : call[n] \in {"ok", "failed"} => call'[n] = call[n]
      PROVE  PublishedInv'
  BY <1>s DEF PublishedInv
<1>1. ASSUME NEW m \in Messages, ToWireError(m) \/ MarshalMsg(m) \/ Connection(m)
      PROVE  PublishedInv'
  <2>1. /\ UNCHANGED published
        /\ call[m] \notin {"ok", "failed"}
        /\ \A n \in Messages \ {m} : call'[n] = call[n]
    BY <1>1 DEF ToWireError, MarshalMsg, Connection, TypeOK
  <2> QED BY <1>s, <2>1
<1>2. ASSUME NEW m \in Messages, DoInt(m) PROVE PublishedInv'
  <2>1. /\ call'[m] \in {"ok", "failed"}
        /\ \A n \in Messages \ {m} : call'[n] = call[n]
        /\ published' \subseteq published \cup {m}
    BY <1>2 DEF DoInt, TypeOK, WriterInv
  <2>2. \A n \in Messages \ {m} : n \in published' => n \in published
    BY <2>1
  <2> QED BY <2>1, <2>2 DEF PublishedInv
<1>3. CASE ReadMessage
  <2>1. UNCHANGED <<published, call>>
    BY <1>3 DEF ReadMessage, ReadOn, LockRmu, LookAtSub, OpenSubscription, Subscribe,
                UndoSubscription, CallPop, Pop, PopError, NilSub, writeVars
  <2> QED BY <1>s, <2>1
<1>4. CASE Close
  <2>1. UNCHANGED <<published, call>>
    BY <1>4 DEF Close, CallClose, Enter, Unsubscribe, CloseSubscription, ForgetSub, NilClose,
                writeVars
  <2> QED BY <1>s, <2>1
<1>5. ASSUME NEW c \in Conns, Break(c) PROVE PublishedInv'
  BY <1>5, <1>s DEF Break, writeVars
<1>6. ASSUME NEW g \in Garbage, PublishGarbage(g) PROVE PublishedInv'
  <2>1. UNCHANGED call /\ published' = published \cup {g}
    BY <1>6 DEF PublishGarbage
  <2>2. \A n \in Messages : n \in published' => n \in published
    BY <2>1
  <2> QED BY <2>1, <2>2 DEF PublishedInv
<1>7. CASE UNCHANGED vars
  BY <1>7, <1>s DEF vars, writeVars
<1> QED
  BY <1>1, <1>2, <1>3, <1>4, <1>5, <1>6, <1>7 DEF Next, WriteMessage

(* While the reader is about to subscribe, nobody else has a hand on its   *)
(* connection.                                                             *)
LEMMA NextFreshInv ==
  TypeOK /\ TypeOK' /\ WriterInv /\ RaceInv /\ RaceInv' /\ FreshInv /\ [Next]_vars => FreshInv'
<1> SUFFICES ASSUME TypeOK, TypeOK', WriterInv, RaceInv, RaceInv', FreshInv, [Next]_vars,
                    ~raced', read' = "subscribing"
             PROVE  (~subscribed[sub] /\ inbox[sub] = <<>>)'
  BY DEF FreshInv
<1>1. ~raced /\ SubInv /\ HandsInv /\ closing' = "no"
  <2>1. ~raced
    BY RacedStays
  <2>2. TypeOK' /\ SubInv'
    BY DEF RaceInv
  <2> QED BY <2>1, <2>2 DEF RaceInv, SubInv, Closing, Reading, TypeOK
<1> USE DEF Holding
<1>k. ASSUME UNCHANGED <<read, sub, closing, subscribed>>,
             inbox'[sub] = inbox[sub] \/ subscribed[sub]
      PROVE  (~subscribed[sub] /\ inbox[sub] = <<>>)'
  BY <1>1, <1>k DEF FreshInv
<1>h. read = "subscribing" /\ closing = "no" => sub \in Conns /\ where[sub] = "out"
  BY <1>1 DEF SubInv, HandsInv, TypeOK
<1>2. ASSUME NEW m \in Messages, ToWireError(m) \/ MarshalMsg(m)
      PROVE  (~subscribed[sub] /\ inbox[sub] = <<>>)'
  BY <1>2, <1>k DEF ToWireError, MarshalMsg, connVars, readVars, closeVars
<1>3. ASSUME NEW m \in Messages, Connection(m)
      PROVE  (~subscribed[sub] /\ inbox[sub] = <<>>)'
  <2>1. UNCHANGED <<read, sub, closing, subscribed>>
    BY <1>3 DEF Connection, readVars, closeVars
  <2>2. \/ inbox' = inbox
        \/ \E c \in Available : Take(c)
    BY <1>3 DEF Connection
  <2>3. ASSUME NEW c \in Available, Take(c) PROVE inbox'[sub] = inbox[sub]
    <3>1. c \in Conns
      BY DEF Available
    <3>2. c # sub
      BY <1>1, <1>h, <2>1, <3>1, Handled DEF HandsInv
    <3> QED BY <1>1, <1>h, <2>1, <2>3, <3>1, <3>2, Handled
  <2> QED BY <1>k, <2>1, <2>2, <2>3
<1>4. ASSUME NEW m \in Messages, DoInt(m)
      PROVE  (~subscribed[sub] /\ inbox[sub] = <<>>)'
  <2>1. /\ UNCHANGED <<read, sub, closing, subscribed>>
        /\ inbox' = Pushed(buf) \/ inbox' = inbox
    BY <1>4 DEF DoInt, readVars, closeVars
  <2>2. inbox'[sub] = inbox[sub] \/ subscribed[sub]
    BY <1>1, <1>h, <2>1 DEF Pushed
  <2> QED BY <1>k, <2>1, <2>2
<1>5. CASE OpenSubscription
  <2>1. UNCHANGED <<subscribed, closing>> /\ sub = None
    BY <1>1, <1>5 DEF OpenSubscription, closeVars, SubInv
  <2>2. PICK c \in Available : Take(c) /\ sub' = c
    BY <1>5 DEF OpenSubscription, Goto
  <2>3. c \in Conns
    BY DEF Available
  <2>4. /\ inbox'[c] = IF where[c] = "pool" THEN inbox[c] ELSE <<>>
        /\ where[c] \in {"pool", "closed"} \/ ~alive[c]
    BY <2>2, <2>3, Handled
  <2>5. inbox'[c] = <<>> /\ ~subscribed[c]
    BY <1>1, <2>1, <2>3, <2>4 DEF HandsInv
  <2> QED BY <2>1, <2>2, <2>5
<1>6. CASE LockRmu \/ LookAtSub \/ Subscribe \/ UndoSubscription \/ CallPop \/ Pop \/ PopError
           \/ NilSub("subscribing") \/ NilSub("undoing") \/ NilSub("pop")
  BY <1>6 DEF LockRmu, LookAtSub, Subscribe, UndoSubscription, CallPop, Pop, PopError, NilSub,
              Goto
<1>7. CASE Close
  BY <1>1, <1>7 DEF Close, CallClose, Enter, Unsubscribe, CloseSubscription, ForgetSub, NilClose,
                    Reading, readVars
<1>8. ASSUME NEW c \in Conns, Break(c)
      PROVE  (~subscribed[sub] /\ inbox[sub] = <<>>)'
  <2>1. /\ UNCHANGED <<read, sub, closing, inbox>>
        /\ subscribed' = [subscribed EXCEPT ![c] = FALSE]
    BY <1>8 DEF Break, readVars, closeVars
  <2> QED BY <1>1, <1>h, <2>1 DEF FreshInv, TypeOK
<1>9. ASSUME NEW g \in Garbage, PublishGarbage(g)
      PROVE  (~subscribed[sub] /\ inbox[sub] = <<>>)'
  <2>1. UNCHANGED <<read, sub, closing, subscribed>> /\ inbox' = Pushed(g)
    BY <1>9 DEF PublishGarbage, readVars, closeVars
  <2>2. inbox'[sub] = inbox[sub] \/ subscribed[sub]
    BY <1>1, <1>h, <2>1 DEF Pushed
  <2> QED BY <1>k, <2>1, <2>2
<1>10. CASE UNCHANGED vars
  BY <1>10, <1>k DEF vars, connVars, readVars, closeVars
<1> QED
  BY <1>2, <1>3, <1>4, <1>5, <1>6, <1>7, <1>8, <1>9, <1>10
     DEF Next, WriteMessage, ReadMessage, ReadOn

-----------------------------------------------------------------------------
(* What the calls have reported changes with one call only. *)
LEMMA OneReports ==
  ASSUME TypeOK, NEW m \in Messages, NEW how \in {"ok", "failed"},
         call' = [call EXCEPT ![m] = how]
  PROVE  [n \in Messages |-> Reported(n)']
           = [[n \in Messages |-> Reported(n)] EXCEPT ![m] = how]
<1>1. /\ call'[m] = how
      /\ \A n \in Messages \ {m} : call'[n] = call[n]
  BY DEF TypeOK
<1>2. /\ Reported(m)' = how
      /\ \A n \in Messages \ {m} : Reported(n)' = Reported(n)
  BY <1>1 DEF Reported
<1> QED BY <1>2

(* What waits is unchanged by what is no publication, grows by what is,    *)
(* and what is taken off an inbox is taken off what waits.                 *)
LEMMA WaitingIs ==
  ASSUME TypeOK, NEW c \in Conns
  PROVE  /\ Selected(<<>>, Publications) = <<>>
         /\ Selected(Append(inbox[c], "confirmation"), Publications)
              = Selected(inbox[c], Publications)
         /\ \A x \in Messages \cup Garbage :
              Selected(Append(inbox[c], x), Publications)
                = Append(Selected(inbox[c], Publications), x)
<1>1. inbox[c] \in Seq(Pushes)
  BY DEF TypeOK
<1>2. "confirmation" \in Pushes /\ "confirmation" \notin DOMAIN Publications
  BY DEF Pushes, Publications
<1>3. ASSUME NEW x \in Messages \cup Garbage
      PROVE  x \in Pushes /\ x \in DOMAIN Publications /\ Publications[x] = x
  BY DEF Pushes, Publications
<1>4. Selected(Append(inbox[c], "confirmation"), Publications)
        = Selected(inbox[c], Publications)
  BY <1>1, <1>2, SelectedAppend
<1>5. ASSUME NEW x \in Messages \cup Garbage
      PROVE  Selected(Append(inbox[c], x), Publications)
               = Append(Selected(inbox[c], Publications), x)
  BY <1>1, <1>3, SelectedAppend
<1> QED BY <1>4, <1>5, SelectedEmpty

(* Whoever publishes x while the reader listens makes it wait. *)
LEMMA PushedWaits ==
  ASSUME TypeOK, SubInv, HandsInv, NEW x \in Messages \cup Garbage,
         inbox' = Pushed(x), sub' = sub
  PROVE  Waiting' = IF Listening THEN Append(Waiting, x) ELSE Waiting
<1>1. CASE sub = None
  BY <1>1 DEF Waiting, Listening
<1>2. CASE sub # None
  <2>1. sub \in Conns /\ sub \notin forgotten
    BY <1>2 DEF TypeOK, HandsInv
  <2>2. inbox'[sub] = IF subscribed[sub] THEN Append(inbox[sub], x) ELSE inbox[sub]
    BY <2>1 DEF Pushed
  <2>3. Selected(Append(inbox[sub], x), Publications) = Append(Waiting, x)
    BY <1>2, <2>1, WaitingIs DEF Waiting
  <2> QED BY <1>2, <2>2, <2>3 DEF Waiting, Listening
<1> QED BY <1>1, <1>2

(* Until Close and a ReadMessage run at the same time, a step of the codec *)
(* is a step of the channel or nothing to it.                              *)
LEMMA PubSubStep ==
  ASSUME PubSubInv, RaceInv', ~raced', [Next]_vars
  PROVE  [Channel!Next]_(Channel!pubsubVars)
<1> DEFINE Nothing == UNCHANGED Channel!pubsubVars
           out == [n \in Messages |-> Reported(n)]
<1>0. /\ TypeOK /\ WriterInv /\ PublishedInv /\ FreshInv /\ ~raced
      /\ SubInv /\ HandsInv /\ SubInv' /\ HandsInv'
  BY RacedStays DEF PubSubInv, RaceInv
<1>1. UNCHANGED <<call, published, received>> /\ UNCHANGED <<Listening, Waiting>> => Nothing
  BY DEF Channel!pubsubVars, Reported
<1>2. UNCHANGED call => out' = out
  BY DEF Reported
<1>3. /\ (sub = None => Waiting = <<>> /\ ~Listening)
      /\ (sub' = None => Waiting' = <<>> /\ ~Listening')
  BY DEF Waiting, Listening
<1>4. sub # None => sub \in Conns /\ inbox[sub] \in Seq(Pushes)
  BY <1>0 DEF TypeOK
<1>5. ASSUME UNCHANGED <<sub, subscribed>>, sub = None \/ inbox'[sub] = inbox[sub]
      PROVE  UNCHANGED <<Listening, Waiting>>
  BY <1>5 DEF Listening, Waiting
<1>6. ASSUME NEW m \in Messages, NEW how \in {"ok", "failed"},
             call' = [call EXCEPT ![m] = how]
      PROVE  out' = [out EXCEPT ![m] = how]
  BY <1>0, <1>6, OneReports
<1>7. \A m \in Messages : call[m] \notin {"ok", "failed"} =>
        out[m] = "pending" /\ m \notin published
  BY <1>0 DEF Reported, PublishedInv
<1> HIDE DEF out
<1>r. ASSUME NEW m \in Messages, call[m] \notin {"ok", "failed"},
             call' = [call EXCEPT ![m] = "failed"],
             UNCHANGED <<published, received, Listening, Waiting>>
      PROVE  Channel!Next
  <2>1. out' = [out EXCEPT ![m] = "failed"] /\ out[m] = "pending"
    BY <1>6, <1>7, <1>r
  <2>2. Channel!Refuse(m)
    BY <1>r, <2>1 DEF Channel!Refuse, out
  <2> QED BY <2>2 DEF Channel!Next
<1>8. ASSUME NEW m \in Messages, ToWireError(m) PROVE Channel!Next \/ Nothing
  <2>1. UNCHANGED <<published, received, sub, subscribed, inbox>> /\ call[m] = "idle"
    BY <1>8 DEF ToWireError, connVars, readVars
  <2>2. UNCHANGED <<Listening, Waiting>>
    BY <1>5, <2>1
  <2> QED BY <1>8, <1>r, <2>1, <2>2 DEF ToWireError
<1>9. ASSUME NEW m \in Messages, MarshalMsg(m) PROVE Channel!Next \/ Nothing
  <2>1. UNCHANGED <<published, received, sub, subscribed, inbox>> /\ call[m] = "idle"
    BY <1>9 DEF MarshalMsg, connVars, readVars
  <2>2. UNCHANGED <<Listening, Waiting>>
    BY <1>5, <2>1
  <2>3. \A n \in Messages : Reported(n)' = Reported(n)
    BY <1>0, <1>9, <2>1 DEF MarshalMsg, Reported, TypeOK
  <2> QED BY <2>1, <2>2, <2>3 DEF Channel!pubsubVars
<1>10. ASSUME NEW m \in Messages, Connection(m) PROVE Channel!Next \/ Nothing
  <2>1. UNCHANGED <<published, received, sub, subscribed, closing>> /\ call[m] = "connecting"
    BY <1>10 DEF Connection, readVars, closeVars
  <2>2. CASE call' = [call EXCEPT ![m] = "failed"] /\ UNCHANGED inbox
    <3>1. UNCHANGED <<Listening, Waiting>>
      BY <1>5, <2>1, <2>2
    <3> QED BY <1>r, <2>1, <2>2, <3>1
  <2>3. CASE \E c \in Available : Take(c) /\ call' = [call EXCEPT ![m] = "publishing"]
    <3>1. PICK c \in Available : Take(c) /\ call' = [call EXCEPT ![m] = "publishing"]
      BY <2>3
    <3>2. c \in Conns
      BY DEF Available
    <3>3. sub # None => inbox'[sub] = inbox[sub]
      (* A connection in the pool is lent as it is, and the name of sub is   *)
      (* not used again.                                                     *)
      <4>1. \A d \in Conns \ {c} : inbox'[d] = inbox[d]
        BY <1>0, <3>1, <3>2, Handled
      <4>2. where[c] = "pool" \/ c # sub
        BY <1>0, <3>2, Handled
      <4>3. where[c] = "pool" => inbox'[c] = inbox[c]
        BY <1>0, <3>1, <3>2, Handled
      <4> QED BY <1>4, <4>1, <4>2, <4>3
    <3>4. UNCHANGED <<Listening, Waiting>>
      BY <1>5, <2>1, <3>3
    <3>5. \A n \in Messages : Reported(n)' = Reported(n)
      BY <1>0, <2>1, <3>1 DEF Reported, TypeOK
    <3> QED BY <2>1, <3>4, <3>5 DEF Channel!pubsubVars
  <2> QED BY <1>10, <2>2, <2>3 DEF Connection
<1>11. ASSUME NEW m \in Messages, DoInt(m) PROVE Channel!Next
  <2>1. /\ UNCHANGED <<received, sub, subscribed>> /\ buf = m
        /\ call[m] = "publishing" /\ call[m] \notin {"ok", "failed"}
    BY <1>0, <1>11 DEF DoInt, readVars, WriterInv
  <2>2. CASE /\ published' = published \cup {m} /\ inbox' = Pushed(m)
             /\ \E how \in {"ok", "failed"} : call' = [call EXCEPT ![m] = how]
    <3>1. PICK how \in {"ok", "failed"} : call' = [call EXCEPT ![m] = how]
      BY <2>2
    <3>2. Waiting' = IF Listening THEN Append(Waiting, m) ELSE Waiting
      BY <1>0, <2>1, <2>2, PushedWaits
    <3>3. out' = [out EXCEPT ![m] = how] /\ out[m] = "pending" /\ m \notin published
      BY <1>6, <1>7, <2>1, <3>1
    <3>4. Listening' = Listening
      BY <2>1 DEF Listening
    <3>5. Channel!Publish(m)
      BY <2>1, <2>2, <3>2, <3>3, <3>4 DEF Channel!Publish
    <3>6. Channel!Write(m)
      BY <3>3, <3>5 DEF Channel!Write, out
    <3> QED BY <3>6 DEF Channel!Next
  <2>3. CASE UNCHANGED <<published, inbox>> /\ call' = [call EXCEPT ![m] = "failed"]
    <3>1. UNCHANGED <<Listening, Waiting>>
      BY <1>5, <2>1, <2>3
    <3> QED BY <1>r, <2>1, <2>3, <3>1
  <2> QED BY <1>11, <2>1, <2>2, <2>3 DEF DoInt
<1>12. CASE LockRmu \/ LookAtSub \/ CallPop
  <2>1. UNCHANGED <<call, published, received, sub, subscribed, inbox>>
    BY <1>12 DEF LockRmu, LookAtSub, CallPop, writeVars, connVars
  <2> QED BY <1>1, <1>5, <2>1
<1>13. CASE \/ NilSub("subscribing") \/ NilSub("undoing") \/ NilSub("pop")
            \/ NilClose("unsubscribing") \/ NilClose("returning")
  BY <1>0, <1>13 DEF NilSub, NilClose, SubInv, Closing
<1>14. CASE OpenSubscription
  <2>1. UNCHANGED <<call, published, received, subscribed>> /\ sub = None
    BY <1>0, <1>14 DEF OpenSubscription, writeVars, SubInv
  <2>2. CASE UNCHANGED <<inbox, sub>>
    BY <1>1, <1>5, <2>1, <2>2
  <2>3. CASE \E c \in Available : Take(c) /\ sub' = c
    <3>1. PICK c \in Available : Take(c) /\ sub' = c
      BY <2>3
    <3>2. c \in Conns
      BY DEF Available
    <3>3. inbox'[c] = <<>> /\ ~subscribed[c]
      <4>1. /\ inbox'[c] = IF where[c] = "pool" THEN inbox[c] ELSE <<>>
            /\ where[c] \in {"pool", "closed"} \/ ~alive[c]
        BY <1>0, <3>1, <3>2, Handled
      <4> QED BY <1>0, <2>1, <3>2, <4>1 DEF HandsInv, Holding
    <3>4. Waiting' = <<>> /\ ~Listening'
      BY <1>0, <2>1, <3>1, <3>2, <3>3, WaitingIs DEF Waiting, Listening
    <3> QED BY <1>1, <1>3, <2>1, <3>4 DEF Listening
  <2> QED BY <1>14, <2>2, <2>3 DEF OpenSubscription
<1>15. CASE Subscribe
  <2>1. /\ UNCHANGED <<call, published, received, sub>>
        /\ sub \in Conns /\ ~subscribed[sub] /\ inbox[sub] = <<>>
    BY <1>0, <1>4, <1>15 DEF Subscribe, writeVars, FreshInv
  <2>2. ~Listening /\ Waiting = <<>>
    BY <1>0, <2>1, WaitingIs DEF Listening, Waiting
  <2>3. CASE /\ subscribed' = [subscribed EXCEPT ![sub] = TRUE]
             /\ inbox' = [inbox EXCEPT ![sub] = Append(inbox[sub], "confirmation")]
    <3>1. subscribed'[sub] = TRUE /\ inbox'[sub] = Append(inbox[sub], "confirmation")
      BY <1>0, <2>1, <2>3 DEF TypeOK
    <3>2. Listening' = TRUE /\ Waiting' = Waiting
      BY <1>0, <2>1, <3>1, WaitingIs DEF Listening, Waiting
    <3>3. Channel!Listen
      BY <1>2, <2>1, <2>2, <3>2 DEF Channel!Listen, out
    <3> QED BY <3>3 DEF Channel!Next
  <2>4. CASE UNCHANGED <<subscribed, inbox>>
    BY <1>1, <1>5, <2>1, <2>4
  <2> QED BY <1>15, <2>3, <2>4 DEF Subscribe
<1>u. CASE UndoSubscription
  <2>1. /\ UNCHANGED <<call, published, received, subscribed>> /\ sub' = None
        /\ read = "undoing" /\ sub \in Conns
    BY <1>0, <1>4, <1>u DEF UndoSubscription, writeVars
  <2>2. ~Listening' /\ Waiting' = <<>>
    BY <1>3, <2>1
  <2>3. Channel!Leave
    BY <1>2, <2>1, <2>2 DEF Channel!Leave, out, Listening
  <2> QED BY <2>3 DEF Channel!Next
<1>16. CASE Pop
  <2> DEFINE x == Head(inbox[sub])
  <2>1. /\ popping = sub /\ sub \in Conns /\ inbox[sub] # <<>> /\ inbox[sub] \in Seq(Pushes)
        /\ UNCHANGED <<call, published, subscribed, sub>>
        /\ inbox' = [inbox EXCEPT ![sub] = Tail(inbox[sub])]
    BY <1>0, <1>4, <1>16 DEF Pop, SubInv, writeVars
  <2>2. \/ Skipped(x) /\ received' = received
        \/ ~Skipped(x) /\ x \in Messages /\ received' = Append(received, x)
        \/ ~Skipped(x) /\ x \notin Messages /\ received' = received
    BY <1>16, <2>1 DEF Pop, Unmarshals
  <2>3. /\ Waiting = Selected(inbox[sub], Publications)
        /\ Waiting' = Selected(Tail(inbox[sub]), Publications)
    <3>1. inbox'[sub] = Tail(inbox[sub]) /\ sub # None
      BY <1>0, <2>1 DEF TypeOK
    <3> QED BY <2>1, <3>1 DEF Waiting
  <2>4. Listening' = Listening
    BY <2>1 DEF Listening
  <2>5. x \in Pushes
    BY <2>1
  <2>6. /\ x \in DOMAIN Publications =>
             /\ Waiting # <<>> /\ Head(Waiting) = Publications[x]
             /\ Tail(Waiting) = Waiting'
        /\ x \notin DOMAIN Publications => Waiting' = Waiting
    BY <2>1, <2>3, SelectedTail
  <2> HIDE DEF x
  <2>7. CASE Skipped(x)
    <3>1. x \notin DOMAIN Publications
      BY <2>7 DEF Skipped, Publications
    <3> QED BY <1>1, <2>1, <2>2, <2>4, <2>6, <2>7, <3>1
  <2>8. CASE ~Skipped(x)
    <3>1. x \in DOMAIN Publications /\ Publications[x] = x
      BY <2>5, <2>8 DEF Skipped, Pushes, Publications
    <3>2. Channel!Take
      BY <1>2, <2>1, <2>2, <2>4, <2>6, <2>8, <3>1 DEF Channel!Take, out
    <3> QED BY <3>2 DEF Channel!Next
  <2> QED BY <2>7, <2>8
<1>17. CASE PopError
  <2>1. UNCHANGED <<call, published, received>> /\ sub' = None
    BY <1>17 DEF PopError, writeVars
  <2>2. ~Listening' /\ Waiting' = <<>>
    BY <1>3, <2>1
  <2>3. Channel!Leave
    BY <1>2, <2>1, <2>2 DEF Channel!Leave, out, Listening
  <2> QED BY <2>3 DEF Channel!Next
<1>18. CASE CallClose
  <2>1. UNCHANGED <<call, published, received, sub, subscribed, inbox>>
    BY <1>18 DEF CallClose, Enter, writeVars, connVars, readVars
  <2> QED BY <1>1, <1>5, <2>1
<1>19. CASE Unsubscribe
  <2>1. /\ UNCHANGED <<call, published, received, sub>> /\ sub \in Conns
    BY <1>0, <1>4, <1>19 DEF Unsubscribe, writeVars, readVars
  <2>2. CASE alive[sub]
    <3>1. /\ subscribed'[sub] = FALSE
          /\ inbox'[sub] = Append(inbox[sub], "confirmation")
      BY <1>0, <1>19, <2>1, <2>2 DEF Unsubscribe, TypeOK
    <3>2. Listening' = FALSE /\ Waiting' = Waiting
      BY <1>0, <2>1, <3>1, WaitingIs DEF Listening, Waiting
    <3>3. Channel!StopListening
      BY <1>2, <2>1, <3>2 DEF Channel!StopListening, out
    <3> QED BY <3>3 DEF Channel!Next
  <2>3. CASE ~alive[sub]
    <3>1. UNCHANGED <<subscribed, inbox>>
      BY <1>19, <2>3 DEF Unsubscribe
    <3> QED BY <1>1, <1>5, <2>1, <3>1
  <2> QED BY <2>2, <2>3
<1>20. CASE CloseSubscription \/ ForgetSub
  <2>1. /\ UNCHANGED <<call, published, received, subscribed>> /\ sub \in Conns
        /\ closing \in {"returning", "forgetting"}
        /\ sub' = None \/ (sub' = sub /\ inbox' = [inbox EXCEPT ![sub] = <<>>])
    BY <1>0, <1>4, <1>20
       DEF CloseSubscription, ForgetSub, GiveBack, SubInv, Closing, writeVars, connVars, readVars
  <2>2. ~subscribed[sub] /\ ~Listening
    BY <1>0, <2>1 DEF HandsInv, Listening
  <2>3. Waiting' = <<>> /\ Listening' = Listening
    <3>1. CASE sub' = None
      BY <1>3, <2>2, <3>1 DEF Listening
    <3>2. CASE sub' = sub /\ inbox' = [inbox EXCEPT ![sub] = <<>>]
      <4>1. inbox'[sub] = <<>>
        BY <1>0, <2>1, <3>2 DEF TypeOK
      <4> QED BY <1>0, <2>1, <2>2, <3>2, <4>1, WaitingIs DEF Waiting, Listening
    <3> QED BY <2>1, <3>1, <3>2
  <2>4. Channel!Leave
    BY <1>2, <2>1, <2>2, <2>3 DEF Channel!Leave, out
  <2> QED BY <2>4 DEF Channel!Next
<1>21. ASSUME NEW c \in Conns, Break(c) PROVE Channel!Next \/ Nothing
  <2>1. /\ UNCHANGED <<call, published, received, sub, inbox>>
        /\ subscribed' = [subscribed EXCEPT ![c] = FALSE]
    BY <1>21 DEF Break, writeVars, readVars
  <2>2. Waiting' = Waiting
    BY <2>1 DEF Waiting
  <2>3. Listening' = FALSE \/ Listening' = Listening
    BY <1>0, <1>4, <2>1 DEF Listening, TypeOK
  <2>4. CASE Listening' = FALSE
    <3>1. Channel!StopListening
      BY <1>2, <2>1, <2>2, <2>4 DEF Channel!StopListening, out
    <3> QED BY <3>1 DEF Channel!Next
  <2>5. CASE Listening' = Listening
    BY <1>1, <2>1, <2>2, <2>5
  <2> QED BY <2>3, <2>4, <2>5
<1>22. ASSUME NEW g \in Garbage, PublishGarbage(g) PROVE Channel!Next
  <2>1. /\ UNCHANGED <<call, received, sub, subscribed>>
        /\ g \notin published
        /\ published' = published \cup {g} /\ inbox' = Pushed(g)
    BY <1>22 DEF PublishGarbage, readVars
  <2>2. Waiting' = IF Listening THEN Append(Waiting, g) ELSE Waiting
    BY <1>0, <2>1, PushedWaits
  <2>3. Listening' = Listening
    BY <2>1 DEF Listening
  <2>4. Channel!Publish(g) /\ out' = out
    BY <1>2, <2>1, <2>2, <2>3 DEF Channel!Publish
  <2> QED BY <2>4 DEF Channel!Next, out
<1>23. CASE UNCHANGED vars
  <2>1. UNCHANGED <<call, published, received, sub, subscribed, inbox>>
    BY <1>23 DEF vars, writeVars, connVars, readVars
  <2> QED BY <1>1, <1>5, <2>1
<1> QED
  BY <1>8, <1>9, <1>10, <1>11, <1>12, <1>13, <1>14, <1>15, <1>u, <1>16, <1>17, <1>18, <1>19,
     <1>20, <1>21, <1>22, <1>23 DEF Next, WriteMessage, ReadMessage, ReadOn, Close

(* For any messages, any number of connections, whatever others publish,   *)
(* connections that break at any moment, and however often the codec is    *)
(* closed and read from again: until Close and a ReadMessage run at the    *)
(* same time, the two codecs are the ends of a pub-sub channel.  A         *)
(* WriteMessage that returns nil has published its own message, once, and  *)
(* what is published while the reader is subscribed is handed over in its  *)
(* turn or lost with the subscription, never reordered or handed over      *)
(* twice.                                                                  *)
THEOREM CodecIsPubSub == Spec => ImplementsPubSub
<1>1. Init => Channel!Init
  <2> SUFFICES ASSUME Init PROVE Channel!Init
    OBVIOUS
  <2>1. ~Listening /\ Waiting = <<>>
    BY DEF Init, Listening, Waiting
  <2> QED BY <2>1 DEF Init, Channel!Init, Reported
<1>2. Init => PublishedInv /\ FreshInv
  BY DEF Init, PublishedInv, FreshInv
<1>3. TypeOK /\ WriterInv /\ PublishedInv /\ [Next]_vars => PublishedInv'
  BY NextPublishedInv
<1>4. TypeOK /\ TypeOK' /\ WriterInv /\ RaceInv /\ RaceInv' /\ FreshInv /\ [Next]_vars
        => FreshInv'
  BY NextFreshInv
<1>5. TypeOK /\ WriterInv /\ RaceInv /\ RaceInv' /\ PublishedInv /\ FreshInv /\ [Next]_vars
        => [Channel!Next \/ raced']_<<Channel!pubsubVars>>
  <2> SUFFICES ASSUME PubSubInv, RaceInv', ~raced', [Next]_vars
               PROVE  [Channel!Next]_(Channel!pubsubVars)
    BY DEF PubSubInv
  <2> QED BY PubSubStep
<1> QED
  BY <1>1, <1>2, <1>3, <1>4, <1>5, WritersKeepBuf, HandsApart, PTL
     DEF Spec, ImplementsPubSub

=============================================================================
