-------------------------- MODULE ChatClientProofs --------------------------
(***************************************************************************)
(* What is proved about ChatClient, for any number of websockets, frames   *)
(* and outages: a page never has two websockets open, never has none and   *)
(* no timer, and never has more timers than it ought to.                   *)
(*                                                                         *)
(* The invariant counts what can still call connect() or call for it:      *)
(* closing the main websocket starts a timer, so the two are counted       *)
(* together, and calling connect() by hand is all that adds to them.       *)
(***************************************************************************)
EXTENDS ChatClient, TLAPS

Alive == {"CONNECTING", "OPEN"}

(* The reconnections to come, if the websocket the page has were to close. *)
Pending == timers + (IF ws # None /\ readyState[ws] \in Alive THEN 1 ELSE 0)

(* TypeOK, but for the limit of timers. *)
Typed ==
  /\ page \in {"there", "leaving", "gone"}
  /\ ws \in Sockets \cup {None}
  /\ readyState \in [Sockets -> {"CONNECTING", "OPEN", "CLOSING", "CLOSED"}]
  /\ timers \in Nat
  /\ backoff_attempts \in 0..MaxBackoff
  /\ reading \in [Incoming ->
       {"no", "reading", "shown", "ignored", "thrown", "refused", "unread"}]
  /\ said \in [Outgoing -> {"no", "sent", "lost", "submitted"}]
  /\ console \in 0..MaxConsole
  /\ up \in BOOLEAN /\ outages \in 0..MaxOutages

(* Before the page has loaded nothing is pending. *)
Budget ==
  /\ ws = None  => timers = 0
  /\ ws # None => Pending <= 1 + console

(* connect puts another in the place of the websocket it closes. *)
MainKept == ws # None => readyState[ws] # "CLOSING"

IInv == Typed /\ OneWebsocket /\ NeverStranded /\ MainKept /\ Budget

(* However connect comes to be called, it leaves one websocket the page    *)
(* has not closed, the main one.                                           *)
LEMMA ConnectReplaces ==
  ASSUME NEW new \in Sockets, Typed, OneWebsocket, Connect(new)
  PROVE  /\ ws' = new /\ ws' # None
         /\ readyState' \in [Sockets -> {"CONNECTING", "OPEN", "CLOSING", "CLOSED"}]
         /\ readyState'[new] = "CONNECTING"
         /\ OneWebsocket'
<1>1. ws' = new /\ readyState'[new] = "CONNECTING"
  BY DEF Connect
<1>2. new # None
  BY ClientAssumption
<1>3. readyState' \in [Sockets -> {"CONNECTING", "OPEN", "CLOSING", "CLOSED"}]
  BY DEF Connect, Typed
<1>4. OneWebsocket'
  <2> SUFFICES ASSUME NEW s \in Sockets, s # new
               PROVE  readyState'[s] \notin {"CONNECTING", "OPEN"}
    BY <1>1 DEF OneWebsocket
  <2>1. CASE s = ws
    BY <2>1 DEF Connect
  <2>2. CASE s # ws
    <3>1. readyState'[s] = readyState[s]
      BY <2>2 DEF Connect
    <3> QED BY <2>2, <3>1 DEF OneWebsocket
  <2> QED BY <2>1, <2>2
<1> QED BY <1>1, <1>2, <1>3, <1>4

(* A page that has just been connected has its one websocket, and whatever *)
(* timers there were.                                                      *)
LEMMA ConnectKeeps ==
  ASSUME NEW new \in Sockets, IInv, Connect(new), timers' \in Nat, console' \in Nat,
         timers' + 1 <= 1 + console',
         UNCHANGED <<page, backoff_attempts, frameVars, serverVars>>,
         console' \in 0..MaxConsole
  PROVE  IInv'
<1>1. /\ ws' = new /\ ws' # None
      /\ readyState' \in [Sockets -> {"CONNECTING", "OPEN", "CLOSING", "CLOSED"}]
      /\ readyState'[new] = "CONNECTING"
      /\ OneWebsocket'
  BY ConnectReplaces DEF IInv
<1>2. Typed'
  BY <1>1 DEF IInv, Typed, frameVars, serverVars
<1>3. NeverStranded' /\ MainKept'
  BY <1>1 DEF NeverStranded, MainKept
<1>4. Budget'
  <2>1. Pending' = timers' + 1
    BY <1>1 DEF Pending, Alive
  <2> QED BY <1>1, <2>1 DEF Budget
<1> QED BY <1>1, <1>2, <1>3, <1>4 DEF IInv

LEMMA InitIInv == Init => IInv
<1> SUFFICES ASSUME Init PROVE IInv
  OBVIOUS
<1> USE DEF Init
<1>1. Typed
  BY ClientAssumption DEF Typed
<1>2. OneWebsocket
  BY DEF OneWebsocket
<1>3. NeverStranded /\ MainKept /\ Budget
  BY DEF NeverStranded, MainKept, Budget
<1> QED BY <1>1, <1>2, <1>3 DEF IInv

LEMMA NextIInv == IInv /\ [Next]_vars => IInv'
<1> SUFFICES ASSUME IInv, [Next]_vars PROVE IInv'
  OBVIOUS
<1> USE DEF IInv
<1>1. CASE PageLoads
  <2>1. PICK new \in Sockets : Connect(new)
    BY <1>1 DEF PageLoads
  <2>2. timers = 0 /\ timers' = timers /\ console' = console
    BY <1>1 DEF PageLoads, Budget
  <2>3. /\ timers' \in Nat /\ console' \in Nat /\ console' \in 0..MaxConsole
        /\ timers' + 1 <= 1 + console'
    BY <2>2, ClientAssumption DEF Typed
  <2>4. UNCHANGED <<page, backoff_attempts, frameVars, serverVars>>
    BY <1>1 DEF PageLoads
  <2> QED BY <2>1, <2>3, <2>4, ConnectKeeps
<1>2. CASE TimerFires
  <2>1. PICK new \in Sockets : Connect(new)
    BY <1>2 DEF TimerFires
  <2>2. /\ timers \in Nat /\ timers > 0 /\ timers' = timers - 1
        /\ console' = console /\ console \in 0..MaxConsole
    BY <1>2 DEF TimerFires, Typed
  <2>3. ws # None
    BY <2>2 DEF Budget
  <2>4. timers <= 1 + console
    BY <2>2, <2>3, ClientAssumption DEF Budget, Pending
  <2>5. /\ timers' \in Nat /\ console' \in Nat /\ console' \in 0..MaxConsole
        /\ timers' + 1 <= 1 + console'
    BY <2>2, <2>4, ClientAssumption
  <2>6. UNCHANGED <<page, backoff_attempts, frameVars, serverVars>>
    BY <1>2 DEF TimerFires
  <2> QED BY <2>1, <2>5, <2>6, ConnectKeeps
<1>3. CASE ConnectByHand
  <2>1. PICK new \in Sockets : Connect(new)
    BY <1>3 DEF ConnectByHand
  <2>2. /\ timers \in Nat /\ timers' = timers /\ ws # None
        /\ console' = console + 1 /\ console \in 0..MaxConsole /\ console < MaxConsole
    BY <1>3 DEF ConnectByHand, Typed
  <2>3. timers <= 1 + console
    BY <2>2, ClientAssumption DEF Budget, Pending
  <2>4. /\ timers' \in Nat /\ console' \in Nat /\ console' \in 0..MaxConsole
        /\ timers' + 1 <= 1 + console'
    BY <2>2, <2>3, ClientAssumption
  <2>5. UNCHANGED <<page, backoff_attempts, frameVars, serverVars>>
    BY <1>3 DEF ConnectByHand
  <2> QED BY <2>1, <2>4, <2>5, ConnectKeeps
<1>4. ASSUME NEW s \in Sockets, OnOpen(s) PROVE IInv'
  <2> USE <1>4 DEF OnOpen
  <2>1. Typed'
    BY ClientAssumption DEF Typed, frameVars, serverVars
  <2>2. OneWebsocket'
    BY DEF OneWebsocket, Typed
  <2>3. NeverStranded' /\ MainKept'
    BY DEF NeverStranded, MainKept, Typed
  <2>4. s = ws
    BY DEF OneWebsocket
  <2>5. Budget'
    BY <2>4 DEF Budget, Pending, Alive, Typed
  <2> QED BY <2>1, <2>2, <2>3, <2>5
<1>5. ASSUME NEW s \in Sockets, OnClose(s) PROVE IInv'
  <2>1. /\ readyState' = [readyState EXCEPT ![s] = "CLOSED"]
        /\ ws' = ws /\ page' = page /\ console' = console
        /\ UNCHANGED <<frameVars, serverVars>>
    BY <1>5 DEF OnClose
  <2>2. timers' \in Nat /\ backoff_attempts' \in 0..MaxBackoff
    BY <1>5, ClientAssumption DEF OnClose, Reconnect, Typed
  <2>3. Typed'
    BY <2>1, <2>2 DEF Typed, frameVars, serverVars
  <2>4. OneWebsocket' /\ MainKept'
    BY <2>1 DEF OneWebsocket, MainKept, Typed
  <2>5. CASE s = ws
    <3>1. timers' = timers + 1 /\ timers \in Nat
      BY <1>5, <2>5 DEF OnClose, Reconnect, Typed
    <3>2. ws # None /\ readyState[ws] \in Alive
      BY <1>5, <2>5, ClientAssumption DEF OnClose, Closes, MainKept, Alive
    <3>3. timers + 1 <= 1 + console
      BY <3>2 DEF Budget, Pending
    <3>4. readyState'[ws] \notin Alive
      BY <2>1, <2>5 DEF Typed, Alive
    <3>5. NeverStranded'
      BY <3>1 DEF NeverStranded
    <3>6. Budget'
      BY <2>1, <3>1, <3>2, <3>3, <3>4 DEF Budget, Pending
    <3> QED BY <2>3, <2>4, <3>5, <3>6
  <2>6. CASE s # ws
    <3>1. timers' = timers
      BY <1>5, <2>6 DEF OnClose
    <3>2. ws # None => readyState'[ws] = readyState[ws]
      BY <2>1, <2>6 DEF Typed
    <3>3. NeverStranded' /\ Budget'
      BY <2>1, <3>1, <3>2 DEF NeverStranded, Budget, Pending, Alive
    <3> QED BY <2>3, <2>4, <3>3
  <2> QED BY <2>5, <2>6
<1>6. ASSUME UNCHANGED <<ws, readyState, timers, console>>, Typed' PROVE IInv'
  BY <1>6 DEF OneWebsocket, NeverStranded, MainKept, Budget, Pending
<1>7. ASSUME NEW m \in Incoming, OnMessage(m) PROVE IInv'
  <2>1. Typed'
    BY <1>7 DEF OnMessage, Typed, pageVars, serverVars
  <2> QED BY <1>6, <1>7, <2>1 DEF OnMessage, pageVars
<1>8. ASSUME NEW m \in Incoming, Handle(m) PROVE IInv'
  <2>1. Fate(m) \in {"shown", "ignored", "thrown", "refused"}
    BY ClientAssumption DEF Fate, Kinds
  <2>2. Typed'
    BY <1>8, <2>1 DEF Handle, Typed, pageVars, serverVars
  <2> QED BY <1>6, <1>8, <2>2 DEF Handle, pageVars
<1>9. ASSUME NEW x \in Outgoing, Send(x) PROVE IInv'
  <2>1. Typed'
    BY <1>9 DEF Send, Typed, pageVars, serverVars
  <2> QED BY <1>6, <1>9, <2>1 DEF Send
<1>10. CASE GoesDown \/ ComesUp
  <2>1. up' \in BOOLEAN /\ outages' \in 0..MaxOutages
    <3>1. up' \in BOOLEAN
      BY <1>10 DEF GoesDown, ComesUp
    <3>2. \/ outages' = outages
          \/ outages < MaxOutages /\ outages' = outages + 1
      BY <1>10 DEF GoesDown, ComesUp
    <3>3. outages \in 0..MaxOutages /\ MaxOutages \in Nat
      BY ClientAssumption DEF Typed
    <3>4. outages' \in 0..MaxOutages
      BY <3>2, <3>3
    <3> QED BY <3>1, <3>4
  <2>2. UNCHANGED <<pageVars, frameVars, console>>
    BY <1>10 DEF GoesDown, ComesUp
  <2>3. Typed'
    BY <2>1, <2>2 DEF Typed, pageVars, frameVars
  <2> QED BY <1>6, <2>2, <2>3 DEF pageVars
<1>11. CASE UNCHANGED vars
  <2>1. Typed'
    BY <1>11 DEF vars, pageVars, frameVars, serverVars, Typed
  <2> QED BY <1>6, <1>11, <2>1 DEF vars, pageVars
<1>12. CASE Navigate
  <2>1. /\ page' \in {"there", "gone"} /\ ws' = None /\ timers' = 0 /\ backoff_attempts' = 0
        /\ readyState' = [s \in Sockets |-> "CLOSED"]
        /\ reading' = [m \in Incoming |-> IF reading[m] = "reading" THEN "unread" ELSE reading[m]]
        /\ UNCHANGED <<said, console, serverVars>>
    BY <1>12 DEF Navigate, Unload
  <2>2. Typed'
    BY <2>1, ClientAssumption DEF Typed, serverVars
  <2>3. OneWebsocket' /\ NeverStranded' /\ MainKept' /\ Budget'
    BY <2>1 DEF OneWebsocket, NeverStranded, MainKept, Budget
  <2> QED BY <2>2, <2>3
<1>13. CASE ReloadByHand
  <2>1. Typed'
    BY <1>13 DEF ReloadByHand, Typed, frameVars, serverVars
  <2> QED BY <1>6, <1>13, <2>1 DEF ReloadByHand
<1> QED
  BY <1>1, <1>2, <1>3, <1>4, <1>5, <1>7, <1>8, <1>9, <1>10, <1>11, <1>12, <1>13
     DEF Next, Socket, Frame

LEMMA Inductive == Spec => []IInv
<1> QED BY InitIInv, NextIInv, PTL DEF Spec

(* However often the server goes away, there is never more than one timer, *)
(* and one more for every connect() called by hand; the other variables    *)
(* stay in their ranges.                                                   *)
THEOREM TypeCorrect == Spec => []TypeOK
<1>1. IInv => TypeOK
  <2> SUFFICES ASSUME IInv PROVE TypeOK
    OBVIOUS
  <2>1. timers \in 0..(1 + console)
    BY ClientAssumption DEF IInv, Typed, Budget, Pending
  <2> QED BY <2>1 DEF IInv, Typed, TypeOK
<1> QED BY <1>1, Inductive, PTL

(* Timers, the console and websockets that close late never leave the page *)
(* with two websockets it has not closed.                                  *)
THEOREM AlwaysOneWebsocket == Spec => []OneWebsocket
<1>1. IInv => OneWebsocket
  BY DEF IInv
<1> QED BY <1>1, Inductive, PTL

(* A page that has loaded is never left without a websocket and without a  *)
(* timer that gets it one.                                                 *)
THEOREM ReconnectsAlways == Spec => []NeverStranded
<1>1. IInv => NeverStranded
  BY DEF IInv
<1> QED BY <1>1, Inductive, PTL

=============================================================================
