----------------------------- MODULE ChatClient -----------------------------
(***************************************************************************)
(* examples/chat/chat.js, below the msgpack library it begins with, and    *)
(* the form of chat.html: one tab of a browser.  The code runs on the      *)
(* event loop, one callback at a time; what is left open is the order the  *)
(* callbacks come in: the events of the current websocket and of the ones  *)
(* before it, the timers that reconnect, the FileReaders with what has     *)
(* arrived, the user who sends, and who may call connect() from the        *)
(* console.  Where send throws, the form is submitted and the page loaded  *)
(* anew.                                                                   *)
(*                                                                         *)
(* The WebSocket, setTimeout, FileReader and forms are the browser's.  A   *)
(* websocket that is closed is garbage once nothing refers to it: its name *)
(* in Sockets is used again.                                               *)
(***************************************************************************)
EXTENDS Naturals

CONSTANTS
  Sockets,        (* names for the websockets                               *)
  Incoming,       (* the frames a server has for this page                  *)
  KindOf,         (* KindOf[m]: "message", "response", "unknown" or "broken"*)
  Outgoing,       (* what the user has to say                               *)
  MaxBackoff,     (* bound: where the delay has come to backoff_max, 12 in  *)
                  (* the code                                               *)
  MaxConsole,     (* bound: how often connect() is called from the console  *)
  MaxOutages,     (* bound: how often the server goes away                  *)
  None            (* no websocket yet                                       *)

Kinds == {"message", "response", "unknown", "broken"}

ASSUME ClientAssumption ==
  /\ None \notin Sockets
  /\ KindOf \in [Incoming -> Kinds]
  /\ MaxBackoff \in Nat /\ MaxConsole \in Nat /\ MaxOutages \in Nat

VARIABLES
  page,               (* "there", "leaving" once the form is submitted, or  *)
                      (* "gone" when the server did not answer that         *)
  ws,                 (* the global: the main websocket                     *)
  readyState,         (* readyState[s], as the WebSocket has it             *)
  timers,             (* how many setTimeout(connect, ...) are still to fire*)
  backoff_attempts,   (* the global, as far as the delay still grows        *)
  reading,            (* reading[m]: how far the page is with the frame m   *)
  said,               (* said[x]: how far the page is with what the user    *)
                      (* has to say                                         *)
  console,            (* how often connect() has been called by hand        *)
  up,                 (* the server is there and keeps its websockets       *)
  outages             (* how often it has gone away                         *)

pageVars   == <<page, ws, readyState, timers, backoff_attempts>>
frameVars  == <<reading, said>>
serverVars == <<up, outages>>
vars       == <<pageVars, frameVars, console, serverVars>>

Init ==
  /\ page = "there"
  /\ ws = None
  /\ readyState = [s \in Sockets |-> "CLOSED"]
  /\ timers = 0
  /\ backoff_attempts = 0
  /\ reading = [m \in Incoming |-> "no"]
  /\ said = [x \in Outgoing |-> "no"]
  /\ console = 0
  /\ up = TRUE /\ outages = 0

-----------------------------------------------------------------------------
(* connect *)

(* Mutant: the websocket that was the main one is left open. *)
ConnectAnother(new) ==
  /\ readyState[new] = "CLOSED"
  /\ readyState' = [readyState EXCEPT ![new] = "CONNECTING"]
  /\ ws' = new

(* The main websocket is closed, unless it is already, and a new one takes *)
(* its place.  All of it is one callback.                                  *)
Connect(new) ==
  /\ readyState[new] = "CLOSED"
  /\ readyState' = [s \in Sockets |->
       CASE s = new                              -> "CONNECTING"
         [] s = ws /\ readyState[s] # "CLOSED"   -> "CLOSING"
         [] OTHER                                -> readyState[s]]
  /\ ws' = new

(* The page has been loaded: init. *)
PageLoads ==
  /\ page # "gone" /\ ws = None
  /\ \E new \in Sockets : Connect(new)
  /\ UNCHANGED <<page, timers, backoff_attempts, frameVars, console, serverVars>>

(* Mutant: the timer goes on firing, as with setInterval. *)
IntervalFires ==
  /\ timers > 0
  /\ \E new \in Sockets : Connect(new)
  /\ UNCHANGED <<page, timers, backoff_attempts, frameVars, console, serverVars>>

TimerFires ==
  /\ timers > 0
  /\ timers' = timers - 1
  /\ \E new \in Sockets : Connect(new)
  /\ UNCHANGED <<page, backoff_attempts, frameVars, console, serverVars>>

ConnectByHand ==
  /\ ws # None
  /\ console < MaxConsole
  /\ console' = console + 1
  /\ \E new \in Sockets : Connect(new)
  /\ UNCHANGED <<page, timers, backoff_attempts, frameVars, serverVars>>

-----------------------------------------------------------------------------
(* The events of a websocket *)

(* onopen *)
OnOpen(s) ==
  /\ readyState[s] = "CONNECTING"
  /\ up
  /\ readyState' = [readyState EXCEPT ![s] = "OPEN"]
  /\ backoff_attempts' = 0
  /\ UNCHANGED <<page, ws, timers, frameVars, console, serverVars>>

(* The browser closes s: the page asked for it, nobody accepts the         *)
(* connection, or it is gone.                                              *)
Closes(s) ==
  \/ readyState[s] = "CLOSING"
  \/ readyState[s] \in {"CONNECTING", "OPEN"} /\ ~up

Reconnect ==
  /\ backoff_attempts' = IF backoff_attempts < MaxBackoff THEN backoff_attempts + 1
                         ELSE MaxBackoff
  /\ timers' = timers + 1

(* Mutant: any websocket that closes has the page reconnect. *)
OnCloseAlways(s) ==
  /\ Closes(s)
  /\ readyState' = [readyState EXCEPT ![s] = "CLOSED"]
  /\ Reconnect
  /\ UNCHANGED <<page, ws, frameVars, console, serverVars>>

(* Mutant: the page only reconnects where it has been connected. *)
OnCloseOnceOpen(s) ==
  /\ Closes(s)
  /\ readyState' = [readyState EXCEPT ![s] = "CLOSED"]
  /\ IF s = ws /\ readyState[s] = "OPEN"
     THEN Reconnect ELSE UNCHANGED <<timers, backoff_attempts>>
  /\ UNCHANGED <<page, ws, frameVars, console, serverVars>>

(* onclose: only the main websocket has the page reconnect. *)
OnClose(s) ==
  /\ Closes(s)
  /\ readyState' = [readyState EXCEPT ![s] = "CLOSED"]
  /\ IF s = ws THEN Reconnect ELSE UNCHANGED <<timers, backoff_attempts>>
  /\ UNCHANGED <<page, ws, frameVars, console, serverVars>>

(* onmessage: a frame comes in, and a FileReader is put to it.  A          *)
(* websocket that is closing has no more messages.                         *)
OnMessage(m) ==
  /\ reading[m] = "no"
  /\ \E s \in Sockets : readyState[s] = "OPEN"
  /\ reading' = [reading EXCEPT ![m] = "reading"]
  /\ UNCHANGED <<pageVars, said, console, serverVars>>

(* handle: what becomes of a frame.  The refusal of a function the page    *)
(* does not have goes to the main websocket, whichever one it came from:   *)
(* send throws while that is connecting and does nothing when it is closed.*)
Fate(m) ==
  CASE KindOf[m] = "message"  -> "shown"
    [] KindOf[m] = "response" -> "ignored"
    [] KindOf[m] = "broken"   -> "thrown"
    [] KindOf[m] = "unknown"  -> CASE readyState[ws] = "CONNECTING" -> "thrown"
                                   [] readyState[ws] = "OPEN"       -> "refused"
                                   [] OTHER                         -> "ignored"

(* The onload of the FileReader.  Each has its own, and they come in any   *)
(* order.                                                                  *)
Handle(m) ==
  /\ reading[m] = "reading"
  /\ reading' = [reading EXCEPT ![m] = Fate(m)]
  /\ UNCHANGED <<pageVars, said, console, serverVars>>

(* send: before there is a websocket and while it is connecting it throws, *)
(* never comes to its return false, and the form is submitted with what    *)
(* has been typed; on a closed websocket it does nothing, and what has     *)
(* been typed is cleared all the same.                                     *)
Send(x) ==
  LET state == IF ws = None THEN "none" ELSE readyState[ws]
  IN  /\ page # "gone"
      /\ said[x] = "no"
      /\ said' = [said EXCEPT ![x] = CASE state = "OPEN"                 -> "sent"
                                       [] state \in {"CLOSING", "CLOSED"} -> "lost"
                                       [] OTHER                          -> "submitted"]
      /\ page' = IF said'[x] = "submitted" THEN "leaving" ELSE page
      /\ UNCHANGED <<ws, readyState, timers, backoff_attempts, reading, console, serverVars>>

-----------------------------------------------------------------------------
(* The browser loads a page.  Until the server answers the old one runs    *)
(* on; then nothing is left of it, its websockets, its timers and what it  *)
(* was reading, and no event of theirs comes any more.                     *)

Unload ==
  /\ ws' = None
  /\ readyState' = [s \in Sockets |-> "CLOSED"]
  /\ timers' = 0 /\ backoff_attempts' = 0
  /\ reading' = [m \in Incoming |-> IF reading[m] = "reading" THEN "unread" ELSE reading[m]]
  /\ UNCHANGED <<said, console, serverVars>>

(* The page again, or an error page of the browser's own. *)
Navigate ==
  /\ page = "leaving"
  /\ page' = IF up THEN "there" ELSE "gone"
  /\ Unload

(* The user tries again. *)
ReloadByHand ==
  /\ page = "gone"
  /\ up
  /\ page' = "there"
  /\ UNCHANGED <<ws, readyState, timers, backoff_attempts, frameVars, console, serverVars>>

-----------------------------------------------------------------------------
(* The server *)

GoesDown ==
  /\ up
  /\ outages < MaxOutages
  /\ up' = FALSE
  /\ outages' = outages + 1
  /\ UNCHANGED <<pageVars, frameVars, console>>

ComesUp ==
  /\ ~up
  /\ up' = TRUE
  /\ UNCHANGED <<pageVars, frameVars, console, outages>>

Socket(s) == OnOpen(s) \/ OnClose(s)
Frame(m)  == OnMessage(m) \/ Handle(m)

Next ==
  \/ PageLoads \/ TimerFires \/ ConnectByHand \/ Navigate \/ ReloadByHand
  \/ \E s \in Sockets : Socket(s)
  \/ \E m \in Incoming : Frame(m)
  \/ \E x \in Outgoing : Send(x)
  \/ GoesDown \/ ComesUp

Spec == Init /\ [][Next]_vars

(* The browser runs its callbacks.  Nobody promises that the server comes  *)
(* back or answers a form, that it or the user says anything, or that the  *)
(* user reloads a page that is gone.                                       *)
FairSpec ==
  /\ Spec
  /\ WF_vars(PageLoads) /\ WF_vars(TimerFires)
  /\ \A s \in Sockets : WF_vars(Socket(s))

-----------------------------------------------------------------------------
(* Properties *)

(* Every variable stays in its range.  However often the server goes away  *)
(* there is one reconnection to come, and one more for every connect()     *)
(* called by hand.                                                         *)
TypeOK ==
  /\ page \in {"there", "leaving", "gone"}
  /\ ws \in Sockets \cup {None}
  /\ readyState \in [Sockets -> {"CONNECTING", "OPEN", "CLOSING", "CLOSED"}]
  /\ timers \in 0..(1 + console)
  /\ backoff_attempts \in 0..MaxBackoff
  /\ reading \in [Incoming ->
       {"no", "reading", "shown", "ignored", "thrown", "refused", "unread"}]
  /\ said \in [Outgoing -> {"no", "sent", "lost", "submitted"}]
  /\ console \in 0..MaxConsole
  /\ up \in BOOLEAN /\ outages \in 0..MaxOutages

(* A websocket the page has not closed is its main one, so the chat shows  *)
(* every message once: left-over timers and connect() by hand never leave  *)
(* two of them open.                                                       *)
OneWebsocket ==
  \A s \in Sockets : readyState[s] \in {"CONNECTING", "OPEN"} => s = ws

(* Once loaded, the page has a websocket it has not closed, or a timer     *)
(* that will get it one.                                                   *)
NeverStranded ==
  ws # None => readyState[ws] \in {"CONNECTING", "OPEN"} \/ timers > 0

(* When the server is there for good, the page ends up on one open         *)
(* websocket for good, with its backoff reset: timers left over from       *)
(* earlier failures close it and open another, and have to run out, and so *)
(* has what the user sends while it connects.  Unless that was while the   *)
(* server was away, and the page is gone.                                  *)
SettlesDown ==
  <>[]up => <>[](\/ page = "gone"
                 \/ ws # None /\ readyState[ws] = "OPEN" /\ backoff_attempts = 0)

=============================================================================
