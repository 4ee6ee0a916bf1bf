-------------------------------- MODULE Chat --------------------------------
(***************************************************************************)
(* examples/chat/main.go: the server.  Every websocket is served by two    *)
(* goroutines, serve, which runs the endpoint until the websocket ends, and*)
(* the pump, which calls Chat.Message on the browser for every broadcast.  *)
(* A Chat.Message from a browser puts its message into the topic, whose own*)
(* goroutine offers it to the channel of every connection, and closes the  *)
(* channel of one that has no room.                                        *)
(*                                                                         *)
(* topic, birpc and the browser are outside the repository: a topic is its *)
(* Broadcast channel, its set of channels and its lock; an endpoint starts *)
(* a goroutine for every call it sends and every call it serves, so a      *)
(* browser that does not read holds up nothing that is modelled here.      *)
(***************************************************************************)
EXTENDS Naturals, Sequences

CONSTANTS
  Conns,          (* the websockets                                         *)
  Incoming,       (* what the browsers say                                  *)
  Room,           (* what the channel of a connection holds, 10 in the code *)
  QueueLen        (* what topic.Broadcast holds                             *)

ASSUME ChatAssumption ==
  /\ Room \in Nat \ {0} /\ QueueLen \in Nat \ {0}

VARIABLES
  said,           (* said[x]: how far the Chat.Message with x is            *)
  queue,          (* topic.Broadcast                                        *)
  log,            (* everything the topic has broadcast, in order           *)
  registered,     (* the connections whose channel the topic knows          *)
  since,          (* since[c]: how much of log was before c registered      *)
  messages,       (* messages[c]: what is in the channel of c               *)
  closes,         (* closes[c]: how often that channel has been closed      *)
  dropped,        (* the connections the topic found too slow               *)
  serve, pump,    (* how far the two goroutines of each connection are      *)
  pumped,         (* pumped[c]: what the pump has taken from the channel    *)
  ws              (* ws[c]: "none", "open" or "closed"                      *)

topicVars == <<queue, log, registered, since, messages, closes, dropped>>
connVars  == <<serve, pump, pumped, ws>>
vars      == <<said, topicVars, connVars>>

Init ==
  /\ said = [x \in Incoming |-> "no"]
  /\ queue = <<>> /\ log = <<>>
  /\ registered = {} /\ dropped = {}
  /\ since = [c \in Conns |-> 0]
  /\ messages = [c \in Conns |-> <<>>]
  /\ closes = [c \in Conns |-> 0]
  /\ serve = [c \in Conns |-> "no"]
  /\ pump = [c \in Conns |-> "no"]
  /\ pumped = [c \in Conns |-> <<>>]
  /\ ws = [c \in Conns |-> "none"]

Set(f, c, v) == [f EXCEPT ![c] = v]

-----------------------------------------------------------------------------
(* The topic *)

(* Mutant: the channel is closed whether it is known or not. *)
UnregisterBlindly(c) ==
  /\ registered' = registered \ {c}
  /\ closes' = Set(closes, c, closes[c] + 1)

(* Only a channel that is still known is closed. *)
Unregister(c) ==
  /\ registered' = registered \ {c}
  /\ closes' = IF c \in registered THEN Set(closes, c, closes[c] + 1) ELSE closes

(* Mutant: room for one more than there is. *)
Full(c) == Len(messages[c]) > Room

NoRoom(c) == Len(messages[c]) >= Room

(* The topic's goroutine offers the next broadcast to everybody.  It and   *)
(* Register and Unregister exclude each other.                             *)
Broadcast ==
  /\ queue # <<>>
  /\ LET x    == Head(queue)
         slow == {c \in registered : NoRoom(c)}
     IN  /\ queue' = Tail(queue)
         /\ log' = Append(log, x)
         /\ messages' = [c \in Conns |->
                           IF c \in registered \ slow THEN Append(messages[c], x)
                           ELSE messages[c]]
         /\ registered' = registered \ slow
         /\ dropped' = dropped \cup slow
         /\ closes' = [c \in Conns |-> IF c \in slow THEN closes[c] + 1 ELSE closes[c]]
  /\ UNCHANGED <<said, since, connVars>>

-----------------------------------------------------------------------------
(* Chat.Message, called by a browser *)

Say(x) ==
  /\ said[x] = "no"
  /\ \E c \in Conns : ws[c] = "open" /\ serve[c] = "serving"
  /\ said' = Set(said, x, "sending")
  /\ UNCHANGED <<topicVars, connVars>>

(* The handler waits for room in topic.Broadcast. *)
Message(x) ==
  /\ said[x] = "sending"
  /\ Len(queue) < QueueLen
  /\ queue' = Append(queue, x)
  /\ said' = Set(said, x, "returned")
  /\ UNCHANGED <<log, registered, since, messages, closes, dropped, connVars>>

-----------------------------------------------------------------------------
(* serve *)

Upgrade(c) ==
  /\ serve[c] = "no"
  /\ ws' = Set(ws, c, "open")
  /\ serve' = Set(serve, c, "upgraded")
  /\ UNCHANGED <<said, topicVars, pump, pumped>>

Register(c) ==
  /\ serve[c] = "upgraded"
  /\ registered' = registered \cup {c}
  /\ since' = Set(since, c, Len(log))
  /\ serve' = Set(serve, c, "registered")
  /\ UNCHANGED <<said, queue, log, messages, closes, dropped,
                 pump, pumped, ws>>

(* The greeting, and the pump is started.  Here as there endpoint.Go waits *)
(* for nothing, and its error, if any, is not looked at.                   *)
Greet(c) ==
  /\ serve[c] = "registered"
  /\ pump' = Set(pump, c, "running")
  /\ serve' = Set(serve, c, "serving")
  /\ UNCHANGED <<said, topicVars, pumped, ws>>

(* endpoint.Serve ends with the websocket, and closes it; then the deferred*)
(* Unregister.                                                             *)
ServeReturns(c) ==
  /\ serve[c] = "serving"
  /\ ws[c] = "closed"
  /\ serve' = Set(serve, c, "leaving")
  /\ UNCHANGED <<said, topicVars, pump, pumped, ws>>

(* Mutant: nothing deferred. *)
ServeJustReturns(c) ==
  /\ serve[c] = "leaving"
  /\ serve' = Set(serve, c, "returned")
  /\ UNCHANGED <<said, topicVars, pump, pumped, ws>>

ServeUnregisters(c) ==
  /\ serve[c] = "leaving"
  /\ Unregister(c)
  /\ serve' = Set(serve, c, "returned")
  /\ UNCHANGED <<said, queue, log, since, messages, dropped,
                 pump, pumped, ws>>

Serve(c) ==
  \/ Register(c) \/ Greet(c) \/ ServeReturns(c) \/ ServeUnregisters(c)

-----------------------------------------------------------------------------
(* The pump *)

(* Mutant: a pump that is behind goes straight to the newest broadcast. *)
PumpNewest(c) ==
  /\ pump[c] = "running"
  /\ messages[c] # <<>>
  /\ messages' = Set(messages, c, <<>>)
  /\ pumped' = Set(pumped, c, Append(pumped[c], messages[c][Len(messages[c])]))
  /\ UNCHANGED <<said, queue, log, registered, since, closes, dropped,
                 serve, pump, ws>>

PumpOne(c) ==
  /\ pump[c] = "running"
  /\ messages[c] # <<>>
  /\ messages' = Set(messages, c, Tail(messages[c]))
  /\ pumped' = Set(pumped, c, Append(pumped[c], Head(messages[c])))
  /\ UNCHANGED <<said, queue, log, registered, since, closes, dropped,
                 serve, pump, ws>>

(* The channel is closed and empty. *)
PumpEnds(c) ==
  /\ pump[c] = "running"
  /\ messages[c] = <<>> /\ closes[c] > 0
  /\ pump' = Set(pump, c, "kicking")
  /\ UNCHANGED <<said, topicVars, serve, pumped, ws>>

(* Mutant: the websocket is left open. *)
KickNobody(c) ==
  /\ pump[c] = "kicking"
  /\ pump' = Set(pump, c, "leaving")
  /\ UNCHANGED <<said, topicVars, serve, pumped, ws>>

Kick(c) ==
  /\ pump[c] = "kicking"
  /\ ws' = Set(ws, c, "closed")
  /\ pump' = Set(pump, c, "leaving")
  /\ UNCHANGED <<said, topicVars, serve, pumped>>

PumpUnregisters(c) ==
  /\ pump[c] = "leaving"
  /\ Unregister(c)
  /\ pump' = Set(pump, c, "returned")
  /\ UNCHANGED <<said, queue, log, since, messages, dropped,
                 serve, pumped, ws>>

Pump(c) == PumpOne(c) \/ PumpEnds(c) \/ Kick(c) \/ PumpUnregisters(c)

-----------------------------------------------------------------------------
(* The browser goes away, the network takes it, or it sends what makes the *)
(* endpoint give up and close the websocket.                               *)
Disconnect(c) ==
  /\ ws[c] = "open"
  /\ ws' = Set(ws, c, "closed")
  /\ UNCHANGED <<said, topicVars, serve, pump, pumped>>

Next ==
  \/ Broadcast
  \/ \E x \in Incoming : Say(x) \/ Message(x)
  \/ \E c \in Conns : \/ Upgrade(c) \/ Serve(c) \/ Pump(c)
                      \/ Disconnect(c)

Spec == Init /\ [][Next]_vars

(* Goroutines run.  Browsers do what they like. *)
FairSpec ==
  /\ Spec
  /\ WF_vars(Broadcast)
  /\ \A x \in Incoming : WF_vars(Message(x))
  /\ \A c \in Conns : WF_vars(Serve(c)) /\ WF_vars(Pump(c))

-----------------------------------------------------------------------------
(* Properties *)

(* Every variable stays in its range, and no channel holds more than fits. *)
TypeOK ==
  /\ said \in [Incoming -> {"no", "sending", "returned"}]
  /\ queue \in Seq(Incoming) /\ Len(queue) <= QueueLen
  /\ log \in Seq(Incoming)
  /\ registered \subseteq Conns /\ dropped \subseteq Conns
  /\ since \in [Conns -> Nat] /\ closes \in [Conns -> Nat]
  /\ messages \in [Conns -> Seq(Incoming)] /\ pumped \in [Conns -> Seq(Incoming)]
  /\ \A c \in Conns : Len(messages[c]) <= Room
  /\ serve \in [Conns -> {"no", "upgraded", "registered", "serving", "leaving", "returned"}]
  /\ pump \in [Conns -> {"no", "running", "kicking", "leaving", "returned"}]
  /\ ws \in [Conns -> {"none", "open", "closed"}]

(* Between the topic, serve and the pump, each of which may close it, the  *)
(* channel of a connection is closed once and then offered nothing: either *)
(* would be a panic that takes the server down.                            *)
ClosedOnce ==
  \A c \in Conns : closes[c] <= 1 /\ (c \in registered => closes[c] = 0)

(* What the pump has taken and what it has still to take is everything that*)
(* has been broadcast since the connection registered, in order, up to when*)
(* it was found too slow or left.                                          *)
NoGaps ==
  \A c \in Conns :
    LET got == pumped[c] \o messages[c]
    IN  /\ got = SubSeq(log, since[c] + 1, since[c] + Len(got))
        /\ c \in registered => since[c] + Len(got) = Len(log)

(* A disconnect takes both goroutines of the connection with it, whichever *)
(* notices first.                                                          *)
DisconnectStopsBoth ==
  \A c \in Conns :
    ws[c] = "closed" ~> serve[c] = "returned" /\ pump[c] = "returned"

(* A connection the topic has given up on is closed: left open, it would   *)
(* be shown no further broadcast, and the browser would not reconnect.     *)
DroppedIsDisconnected == \A c \in Conns : c \in dropped ~> ws[c] = "closed"

(* The pump comes to its end because the topic has kicked it out for being *)
(* too slow, as the comment and the log line there say.                    *)
KickedIsSlow == \A c \in Conns : pump[c] = "kicking" => c \in dropped

=============================================================================
