----------------------------- MODULE RedisCodec -----------------------------
(***************************************************************************)
(* redis/redis.go: one direction between two Codecs on mirrored channels   *)
(* of one redis.Database.  The near end's WriteMessage calls marshal into  *)
(* Codec.buf and PUBLISH over a connection borrowed from the database's    *)
(* pool; the far end's ReadMessage subscribes on first use, over a         *)
(* connection of the same pool, and pops what redis pushes at it.  The far *)
(* end's Close takes no lock, so every look it or ReadMessage takes at     *)
(* Codec.sub is a step of its own.                                         *)
(*                                                                         *)
(* redis and its client are outside the repository: a connection is what   *)
(* the codec can tell of it, and a publication goes to whoever is          *)
(* subscribed at that moment.                                              *)
(***************************************************************************)
EXTENDS Naturals, Sequences, FiniteSets, Selections

CONSTANTS
  Messages,       (* the messages written, each by a goroutine of its own   *)
  Garbage,        (* what others publish on the channel                     *)
  Conns,          (* names for the connections the database has open        *)
  None,           (* no connection, no message, nobody                      *)
  MaxCloses       (* how often Close may be called                          *)

ASSUME RedisAssumption ==
  /\ Messages \cap Garbage = {}
  /\ None \notin Messages \cup Garbage \cup Conns
  /\ "confirmation" \notin Messages \cup Garbage
  /\ MaxCloses \in Nat

VARIABLES
  call,           (* call[m]: how far the WriteMessage of m has come        *)
  wmu, buf,       (* who holds wmu, and the message marshaled into buf      *)
  using,          (* using[m]: the connection the WriteMessage has borrowed *)
  published,      (* what redis has accepted                                *)
  where,          (* where[c]: "closed", in the "pool" or "out"             *)
  forgotten,      (* those out that Pop has failed on                       *)
  alive,          (* alive[c]: c works                                      *)
  subscribed,     (* subscribed[c]: redis pushes the channel at c           *)
  inbox,          (* inbox[c]: what redis has pushed and nobody has read    *)
  read,           (* how far ReadMessage is                                 *)
  sub,            (* Codec.sub: the connection of the subscription          *)
  popping,        (* the subscription that Pop was called on                *)
  received,       (* the messages handed to birpc                           *)
  closing,        (* how far Close is, or "done" until ReadMessage is called*)
  closes,         (* how often Close has been called                        *)
  raced           (* did Close and ReadMessage ever run at the same time    *)

writeVars == <<call, wmu, buf, using, published>>
connVars  == <<where, forgotten, alive, subscribed, inbox>>
readVars  == <<read, popping, received>>
closeVars == <<closing, closes, raced>>
vars      == <<writeVars, connVars, readVars, sub, closeVars>>

Init ==
  /\ call = [m \in Messages |-> "idle"]
  /\ wmu = None /\ buf = None
  /\ using = [m \in Messages |-> None]
  /\ published = {}
  /\ where = [c \in Conns |-> "closed"] /\ forgotten = {}
  /\ alive = [c \in Conns |-> FALSE]
  /\ subscribed = [c \in Conns |-> FALSE]
  /\ inbox = [c \in Conns |-> <<>>]
  /\ read = "idle" /\ sub = None /\ popping = None
  /\ received = <<>>
  /\ closing = "no" /\ closes = 0 /\ raced = FALSE

-----------------------------------------------------------------------------
(* The database *)

(* Nobody refers to c any more: its name is free. *)
Free(c) ==
  /\ where[c] = "closed" \/ (c \in forgotten /\ ~alive[c])
  /\ c \notin {sub, popping} /\ \A m \in Messages : using[m] # c

(* A pooled connection if there is one, else a new one. *)
Available ==
  LET pooled == {c \in Conns : where[c] = "pool"}
  IN  IF pooled # {} THEN pooled ELSE {c \in Conns : Free(c)}

Take(c) ==
  /\ where' = [where EXCEPT ![c] = "out"]
  /\ forgotten' = forgotten \ {c}
  /\ alive' = [alive EXCEPT ![c] = @ \/ where[c] # "pool"]
  /\ inbox' = [inbox EXCEPT ![c] = IF where[c] = "pool" THEN @ ELSE <<>>]

(* c goes back into the pool, or away if it is of no use any more. *)
Returned(c) == [where EXCEPT ![c] = IF alive[c] THEN "pool" ELSE "closed"]

(* Subscription.Close reads what is left on c and gives it back. *)
GiveBack(c) ==
  /\ where' = Returned(c)
  /\ inbox' = [inbox EXCEPT ![c] = <<>>]

(* redis pushes x at every subscriber; nobody reads a forgotten one. *)
Pushed(x) ==
  [c \in Conns |-> IF subscribed[c] /\ c \notin forgotten THEN Append(inbox[c], x)
                                                          ELSE inbox[c]]

(* redis or the network drops a connection. *)
Break(c) ==
  /\ where[c] \in {"pool", "out"} /\ alive[c]
  /\ alive' = [alive EXCEPT ![c] = FALSE]
  /\ subscribed' = [subscribed EXCEPT ![c] = FALSE]
  /\ UNCHANGED <<writeVars, where, forgotten, inbox, readVars, sub, closeVars>>

PublishGarbage(g) ==
  /\ g \notin published
  /\ published' = published \cup {g}
  /\ inbox' = Pushed(g)
  /\ UNCHANGED <<call, wmu, buf, using, where, forgotten, alive, subscribed, readVars, sub,
                 closeVars>>

-----------------------------------------------------------------------------
(* WriteMessage *)

(* A payload that is no msgp.Marshaler goes nowhere. *)
ToWireError(m) ==
  /\ call[m] = "idle"
  /\ call' = [call EXCEPT ![m] = "failed"]
  /\ UNCHANGED <<wmu, buf, using, published, connVars, readVars, sub, closeVars>>

(* Mutant: WriteMessage without wmu. *)
MarshalUnlocked(m) ==
  /\ call[m] = "idle"
  /\ wmu' = m /\ buf' = m
  /\ call' = [call EXCEPT ![m] = "connecting"]
  /\ UNCHANGED <<using, published, connVars, readVars, sub, closeVars>>

(* wmu covers buf until redis has answered. *)
MarshalMsg(m) ==
  /\ call[m] = "idle"
  /\ wmu = None
  /\ wmu' = m /\ buf' = m
  /\ call' = [call EXCEPT ![m] = "connecting"]
  /\ UNCHANGED <<using, published, connVars, readVars, sub, closeVars>>

(* What is left in buf is never read again. *)
Unlock == wmu' = None /\ buf' = None

(* Database.Connection, which may fail. *)
Connection(m) ==
  /\ call[m] = "connecting"
  /\ \/ \E c \in Available :
          /\ Take(c)
          /\ using' = [using EXCEPT ![m] = c]
          /\ call' = [call EXCEPT ![m] = "publishing"]
          /\ UNCHANGED <<wmu, buf>>
     \/ /\ call' = [call EXCEPT ![m] = "failed"]
        /\ Unlock
        /\ UNCHANGED <<where, forgotten, alive, inbox, using>>
  /\ UNCHANGED <<published, subscribed, readVars, sub, closeVars>>

(* PUBLISH, and then the deferred Return and Unlock.  redis accepts it, or *)
(* refuses it with an error reply; a dead connection is an error that does *)
(* not tell whether redis has had the message before.  A connection in     *)
(* subscriber mode is good for no PUBLISH.                                 *)
DoInt(m) ==
  LET c == using[m]
      Accept == published' = published \cup {buf} /\ inbox' = Pushed(buf)
      Refuse == UNCHANGED <<published, inbox>>
      Report(how) == call' = [call EXCEPT ![m] = how]
  IN  /\ call[m] = "publishing"
      /\ \/ alive[c] /\ ~subscribed[c] /\ Accept /\ Report("ok")
         \/ ~alive[c] /\ Accept /\ Report("failed")
         \/ Refuse /\ Report("failed")
      /\ where' = Returned(c)
      /\ using' = [using EXCEPT ![m] = None]
      /\ Unlock
      /\ UNCHANGED <<forgotten, alive, subscribed, readVars, sub, closeVars>>

WriteMessage(m) == ToWireError(m) \/ MarshalMsg(m) \/ Connection(m) \/ DoInt(m)

-----------------------------------------------------------------------------
(* ReadMessage, called in a loop by Serve, which may be called again when  *)
(* it has failed, and whenever Close is called or has been.                *)

Goto(step) == read' = step

(* A call of Close is in progress. *)
Closing == closing \in {"unsubscribing", "returning", "forgetting"}

LockRmu ==
  /\ read \in {"idle", "failed"}
  /\ Goto("looking")
  /\ raced' = (raced \/ Closing)
  /\ closing' = IF closing = "done" THEN "no" ELSE closing
  /\ UNCHANGED <<writeVars, connVars, popping, received, sub, closes>>

(* Mutant: no look at sub before it is used. *)
NeverLook ==
  /\ read = "looking"
  /\ Goto("pop")
  /\ UNCHANGED <<writeVars, connVars, popping, received, sub, closeVars>>

(* The top of the loop, and the same look again in setupSubscription. *)
LookAtSub ==
  /\ read = "looking"
  /\ Goto(IF sub = None THEN "opening" ELSE "pop")
  /\ UNCHANGED <<writeVars, connVars, popping, received, sub, closeVars>>

(* Database.Subscription, which may fail. *)
OpenSubscription ==
  /\ read = "opening"
  /\ \/ \E c \in Available :
          /\ Take(c)
          /\ sub' = c
          /\ Goto("subscribing")
     \/ Goto("failed") /\ UNCHANGED <<where, forgotten, alive, inbox, sub>>
  /\ UNCHANGED <<writeVars, subscribed, popping, received, closeVars>>

(* Whoever calls a method of c.sub while it is nil panics. *)
NilSub(step) ==
  /\ read = step
  /\ sub = None
  /\ Goto("panicked")
  /\ UNCHANGED <<writeVars, connVars, popping, received, sub, closeVars>>

(* redis confirms a subscription before it pushes anything else, or        *)
(* refuses it; a dead connection is an error as well.                      *)
Subscribe ==
  /\ read = "subscribing"
  /\ sub # None
  /\ \/ /\ alive[sub]
        /\ subscribed' = [subscribed EXCEPT ![sub] = TRUE]
        /\ inbox' = [inbox EXCEPT ![sub] = Append(@, "confirmation")]
        /\ Goto("pop")
     \/ Goto("undoing") /\ UNCHANGED <<subscribed, inbox>>
  /\ UNCHANGED <<writeVars, where, forgotten, alive, popping, received, sub, closeVars>>

(* The subscription that could not be had is closed. *)
UndoSubscription ==
  /\ read = "undoing"
  /\ sub # None
  /\ GiveBack(sub)
  /\ sub' = None
  /\ Goto("failed")
  /\ UNCHANGED <<writeVars, forgotten, alive, subscribed, popping, received, closeVars>>

CallPop ==
  /\ read = "pop"
  /\ sub # None
  /\ popping' = sub
  /\ Goto("popping")
  /\ UNCHANGED <<writeVars, connVars, received, sub, closeVars>>

(* Mutant: nothing is skipped. *)
NeverSkipped(x) == FALSE

(* Mutant: everything is taken for a confirmation. *)
AlwaysSkipped(x) == TRUE

(* A confirmation carries no message. *)
Skipped(x) == x = "confirmation"

(* Mutant: the error of UnmarshalMsg is ignored. *)
AnythingUnmarshals(x) == TRUE

(* UnmarshalMsg succeeds. *)
Unmarshals(x) == x \in Messages

(* Pop returns what redis pushed: a confirmation, which is skipped, a      *)
(* message, or something that does not unmarshal.                          *)
Pop ==
  /\ read = "popping"
  /\ inbox[popping] # <<>>
  /\ LET x == Head(inbox[popping])
     IN  \/ /\ Skipped(x)
            /\ Goto("looking")
            /\ UNCHANGED received
         \/ /\ ~Skipped(x) /\ Unmarshals(x)
            /\ Goto("idle")
            /\ received' = Append(received, x)
         \/ /\ ~Skipped(x) /\ ~Unmarshals(x)
            /\ Goto("failed")
            /\ UNCHANGED received
  /\ inbox' = [inbox EXCEPT ![popping] = Tail(@)]
  /\ popping' = None
  /\ UNCHANGED <<writeVars, where, forgotten, alive, subscribed, sub, closeVars>>

(* Pop fails, because the connection is dead or for any other reason.  The *)
(* subscription is dropped, whichever it is by now, and its connection     *)
(* neither closed nor given back.                                          *)
PopError ==
  /\ read = "popping"
  /\ sub' = None
  /\ forgotten' = forgotten \cup {popping}
  /\ inbox' = [inbox EXCEPT ![popping] = <<>>]
  /\ popping' = None
  /\ Goto("failed")
  /\ UNCHANGED <<writeVars, where, alive, subscribed, received, closeVars>>

(* Every step of ReadMessage but a Pop that fails. *)
ReadOn ==
  \/ LockRmu \/ LookAtSub \/ OpenSubscription \/ Subscribe \/ UndoSubscription \/ CallPop
  \/ Pop \/ NilSub("subscribing") \/ NilSub("undoing") \/ NilSub("pop")

ReadMessage == ReadOn \/ PopError

-----------------------------------------------------------------------------
(* Close *)

(* A ReadMessage is in progress. *)
Reading == read \notin {"idle", "failed", "panicked"}

(* Close is called, and comes to this step. *)
Enter(step) ==
  /\ closing \in {"no", "done"}
  /\ closes < MaxCloses
  /\ closing' = step
  /\ closes' = closes + 1
  /\ raced' = (raced \/ Reading)
  /\ UNCHANGED <<writeVars, connVars, readVars, sub>>

(* Mutant: the subscription is only forgotten. *)
CallForget == Enter("forgetting")

CallClose == Enter(IF sub = None THEN "done" ELSE "unsubscribing")

(* Close calls a method of c.sub as well. *)
NilClose(step) ==
  /\ closing = step
  /\ sub = None
  /\ closing' = "panicked"
  /\ UNCHANGED <<writeVars, connVars, readVars, sub, closes, raced>>

(* Mutant: Subscription.Close alone, which leaves the channel subscribed. *)
NoUnsubscribe ==
  /\ closing = "unsubscribing"
  /\ closing' = "returning"
  /\ UNCHANGED <<writeVars, connVars, readVars, sub, closes, raced>>

(* redis stops pushing and confirms it. *)
Unsubscribe ==
  /\ closing = "unsubscribing"
  /\ sub # None
  /\ IF alive[sub]
     THEN /\ subscribed' = [subscribed EXCEPT ![sub] = FALSE]
          /\ inbox' = [inbox EXCEPT ![sub] = Append(@, "confirmation")]
     ELSE UNCHANGED <<subscribed, inbox>>
  /\ closing' = "returning"
  /\ UNCHANGED <<writeVars, where, forgotten, alive, readVars, sub, closes, raced>>

CloseSubscription ==
  /\ closing = "returning"
  /\ sub # None
  /\ GiveBack(sub)
  /\ closing' = "forgetting"
  /\ UNCHANGED <<writeVars, forgotten, alive, subscribed, readVars, sub, closes, raced>>

ForgetSub ==
  /\ closing = "forgetting"
  /\ sub' = None
  /\ closing' = "done"
  /\ UNCHANGED <<writeVars, connVars, readVars, closes, raced>>

(* One call of Close at a time. *)
Close ==
  \/ CallClose \/ Unsubscribe \/ CloseSubscription \/ ForgetSub
  \/ NilClose("unsubscribing") \/ NilClose("returning")

Next ==
  \/ \E m \in Messages : WriteMessage(m)
  \/ ReadMessage
  \/ Close
  \/ \E c \in Conns : Break(c)
  \/ \E g \in Garbage : PublishGarbage(g)

Spec == Init /\ [][Next]_vars

(* Goroutines run, redis answers, and Pop returns what has been pushed; it *)
(* need not fail.                                                          *)
FairSpec == Spec /\ WF_vars(ReadOn) /\ \A m \in Messages : WF_vars(WriteMessage(m))

-----------------------------------------------------------------------------
(* Properties *)

Pushes == Messages \cup Garbage \cup {"confirmation"}

(* Every variable stays in its range. *)
TypeOK ==
  /\ call \in [Messages ->
       {"idle", "connecting", "publishing", "ok", "failed"}]
  /\ wmu \in Messages \cup {None} /\ buf \in Messages \cup {None}
  /\ using \in [Messages -> Conns \cup {None}]
  /\ published \subseteq Messages \cup Garbage
  /\ where \in [Conns -> {"closed", "pool", "out"}] /\ forgotten \subseteq Conns
  /\ alive \in [Conns -> BOOLEAN] /\ subscribed \in [Conns -> BOOLEAN]
  /\ inbox \in [Conns -> Seq(Pushes)]
  /\ read \in {"idle", "looking", "opening", "subscribing", "undoing", "pop", "popping",
               "failed", "panicked"}
  /\ sub \in Conns \cup {None} /\ popping \in Conns \cup {None}
  /\ read = "popping" => popping # None
  /\ received \in Seq(Messages)
  /\ closing \in {"no", "unsubscribing", "returning", "forgetting", "done", "panicked"}
  /\ closes \in 0..MaxCloses /\ raced \in BOOLEAN

Reported(m) == IF call[m] \in {"ok", "failed"} THEN call[m] ELSE "pending"

Listening == sub # None /\ subscribed[sub]

(* A confirmation is no publication. *)
Publications == [x \in Messages \cup Garbage |-> x]

Waiting == IF sub = None THEN <<>> ELSE Selected(inbox[sub], Publications)

Channel == INSTANCE PubSub WITH
  Foreign   <- Garbage,
  outcome   <- [m \in Messages |-> Reported(m)],
  listening <- Listening,
  waiting   <- Waiting

(* Unless Close and a ReadMessage have run at the same time, the two ends  *)
(* are the ends of a pub-sub channel: a WriteMessage that returns nil has  *)
(* published its own message, once, whatever is written over the same      *)
(* buffer meanwhile, and a message published while the reader is           *)
(* subscribed is handed over in its turn, or lost with the subscription.   *)
(* It may be closed and read from again as often as one likes.             *)
ImplementsPubSub ==
  Channel!Init /\ [][Channel!Next \/ raced']_<<Channel!pubsubVars>>

(* Unless Close and a ReadMessage have run at the same time, a connection  *)
(* in the pool is neither subscribed nor has it pushes unread, so that the *)
(* next borrower can use it; and one that is out is in the hands of the    *)
(* subscription or of one writer, or one that Pop has failed on.  Those    *)
(* are nobody's, and no connection leaks on any other way out.             *)
PoolSound ==
  ~raced => \A c \in Conns :
    /\ where[c] = "pool" => ~subscribed[c] /\ inbox[c] = <<>>
    /\ where[c] = "out" =>
         Cardinality({m \in Messages : using[m] = c})
           + (IF sub = c /\ closing # "forgetting" THEN 1 ELSE 0)
           + (IF c \in forgotten THEN 1 ELSE 0) = 1

(* Unless they have run at the same time, neither ReadMessage nor Close    *)
(* finds the subscription gone that it is about to use.                    *)
NoNilSub == read = "panicked" \/ closing = "panicked" => raced

(* ReadMessage fails only over a subscription that is lost or could not be *)
(* had, or something on the channel that is no message.                    *)
FailsForCause ==
  read = "failed" =>
    \/ sub = None
    \/ published \cap Garbage # {}

(* What redis has pushed at the subscription is handed over, unless the    *)
(* codec is closed, Pop fails or something that is no message came first.  *)
PushedIsReceived ==
  \A m \in Messages :
    (sub # None /\ \E i \in 1..Len(inbox[sub]) : inbox[sub][i] = m)
      ~> \/ \E i \in 1..Len(received) : received[i] = m
         \/ closing # "no" \/ read = "failed"

(* Close stops the redis subscription: once it has returned, with no       *)
(* ReadMessage called since, redis pushes nothing at this codec any more,  *)
(* but at a connection that Pop has failed on.                             *)
CloseUnsubscribes ==
  closing = "done" => \A c \in Conns \ forgotten : ~subscribed[c]

(* So it does if the two have never run at the same time. *)
ClosedIsUnsubscribed == ~raced => CloseUnsubscribes

=============================================================================
