------------------------------ MODULE ChatRoom ------------------------------
(***************************************************************************)
(* The chat end to end: the server of Chat, the goroutines its endpoints   *)
(* write from, the websockets, and the pages of chat.js at the other end.  *)
(* A message goes from a page's send() through Chat.Message, the topic and *)
(* the pumps to the onmessage and handle of every page.                    *)
(*                                                                         *)
(* endpoint.Go returns at once and leaves the writing to a goroutine of its*)
(* own; the goroutines of one connection queue on the codec's wmu in any   *)
(* order, and each writes one whole frame (WebsocketCodec).  A page reads  *)
(* every frame with a FileReader of its own, which may be done in any      *)
(* order too.  A page that hangs stops taking frames, and the goroutines   *)
(* that write to it wait.                                                  *)
(*                                                                         *)
(* The replies to the calls are left out: the server's go out as one more  *)
(* goroutine's frame each, which handle drops, and the page sends none.    *)
(***************************************************************************)
EXTENDS Chat

CONSTANTS
  Buffered,       (* frames the network holds for a page that does not read *)
  Speakers,       (* the pages somebody writes at                           *)
  Leavers,        (* the pages that may go away by themselves               *)
  Hello,          (* the greeting                                           *)
  Nobody          (* no page has said it yet                                *)

ASSUME RoomAssumption ==
  /\ Buffered \in Nat \ {0}
  /\ Speakers \subseteq Conns /\ Leavers \subseteq Conns
  /\ Incoming \subseteq Nat
  /\ Hello \notin Incoming /\ Nobody \notin Conns

VARIABLES
  author,         (* author[x]: the page that has sent x                    *)
  calls,          (* calls[c]: what endpoint.Go has still to write to c     *)
  frames,         (* frames[c]: the frames on their way to the page         *)
  reading,        (* reading[c]: those its FileReaders are reading          *)
  shown           (* shown[c][x]: how often the page shows x                *)

pageVars == <<author, calls, frames, reading, shown>>
roomVars == <<vars, pageVars>>

Outgoing == Incoming \cup {Hello}

RoomInit ==
  /\ Init
  /\ author = [x \in Incoming |-> Nobody]
  /\ calls = [c \in Conns |-> {}]
  /\ frames = [c \in Conns |-> <<>>]
  /\ reading = [c \in Conns |-> {}]
  /\ shown = [c \in Conns |-> [x \in Outgoing |-> 0]]

(* A step of the server that the pages see nothing of. *)
Meanwhile(A) == A /\ UNCHANGED pageVars

-----------------------------------------------------------------------------
(* The pages *)

(* A page can send as soon as its websocket is open.  Messages are numbered *)
(* in the order they are sent in.                                          *)
Send(c, x) ==
  /\ c \in Speakers
  /\ ws[c] = "open"
  /\ author[x] = Nobody
  /\ \A y \in Incoming : y < x => author[y] # Nobody
  /\ author' = Set(author, x, c)
  /\ UNCHANGED <<vars, calls, frames, reading, shown>>

OnMessage(c) ==
  /\ frames[c] # <<>>
  /\ ws[c] = "open"
  /\ frames' = Set(frames, c, Tail(frames[c]))
  /\ reading' = Set(reading, c, reading[c] \cup {Head(frames[c])})
  /\ UNCHANGED <<vars, author, calls, shown>>

(* onload of a FileReader, which may come after the websocket is closed. *)
Handle(c) ==
  \E x \in reading[c] :
    /\ reading' = Set(reading, c, reading[c] \ {x})
    /\ shown' = [shown EXCEPT ![c][x] = @ + 1]
    /\ UNCHANGED <<vars, author, calls, frames>>

Page(c) == OnMessage(c) \/ Handle(c)

Leave(c) == c \in Leavers /\ Meanwhile(Disconnect(c))

-----------------------------------------------------------------------------
(* The endpoints *)

(* Mutant: the endpoint serves before the connection is registered. *)
ServedEarly(c) == ws[c] = "open"

Served(c) == ws[c] = "open" /\ serve[c] = "serving"

(* Endpoint.Serve reads a call and starts a goroutine for it. *)
ServeCall(x) ==
  /\ author[x] # Nobody
  /\ Served(author[x])
  /\ Say(x)
  /\ UNCHANGED pageVars

Go(c, x) ==
  /\ calls' = Set(calls, c, calls[c] \cup {x})
  /\ UNCHANGED <<author, frames, reading, shown>>

GreetPage(c) == Greet(c) /\ Go(c, Hello)

PumpToPage(c) == PumpOne(c) /\ Go(c, Head(messages[c]))

(* Mutant: a call that has been written is written again. *)
WriteAgain(c) ==
  \E x \in calls[c] :
    /\ ws[c] = "open" /\ Len(frames[c]) < Buffered
    /\ frames' = Set(frames, c, Append(frames[c], x))
    /\ UNCHANGED <<vars, author, calls, reading, shown>>

(* One of the goroutines gets wmu and writes its frame, or finds the       *)
(* websocket closed, which nobody hears of.                                *)
WriteMessage(c) ==
  \E x \in calls[c] :
    /\ calls' = Set(calls, c, calls[c] \ {x})
    /\ \/ /\ ws[c] = "open" /\ Len(frames[c]) < Buffered
          /\ frames' = Set(frames, c, Append(frames[c], x))
       \/ ws[c] = "closed" /\ UNCHANGED frames
    /\ UNCHANGED <<vars, author, reading, shown>>

-----------------------------------------------------------------------------
ServeRoom(c) ==
  \/ GreetPage(c)
  \/ Meanwhile(Register(c)) \/ Meanwhile(ServeReturns(c)) \/ Meanwhile(ServeUnregisters(c))

PumpRoom(c) ==
  \/ PumpToPage(c)
  \/ Meanwhile(PumpEnds(c)) \/ Meanwhile(Kick(c)) \/ Meanwhile(PumpUnregisters(c))

Server ==
  \/ Meanwhile(Broadcast)
  \/ \E x \in Incoming : ServeCall(x) \/ Meanwhile(Message(x))
  \/ \E c \in Conns : ServeRoom(c) \/ PumpRoom(c) \/ WriteMessage(c)

RoomNext ==
  \/ Server
  \/ \E c \in Conns :
       \/ Meanwhile(Upgrade(c)) \/ Leave(c) \/ Page(c)
       \/ \E x \in Incoming : Send(c, x)

RoomSpec == RoomInit /\ [][RoomNext]_roomVars

(* The server goes on as long as any of its goroutines can; as they all    *)
(* have only so much to do, that is enough.  The pages may hang.           *)
FairRoomSpec == RoomSpec /\ WF_roomVars(Server)

(* The page at the end of c does not hang, nor does the network. *)
PageRuns(c) == WF_roomVars(Page(c))

-----------------------------------------------------------------------------
(* Properties *)

(* Every variable stays in its range; the network holds what it has room   *)
(* for.                                                                    *)
RoomTypeOK ==
  /\ TypeOK
  /\ author \in [Incoming -> Conns \cup {Nobody}]
  /\ calls \in [Conns -> SUBSET Outgoing] /\ reading \in [Conns -> SUBSET Outgoing]
  /\ frames \in [Conns -> Seq(Outgoing)] /\ shown \in [Conns -> [Outgoing -> Nat]]
  /\ \A c \in Conns : Len(frames[c]) <= Buffered

Elements(s) == {s[i] : i \in 1..Len(s)}

Shown(c) == {x \in Outgoing : shown[c][x] > 0}

(* What the server has handed to the endpoint of c. *)
Sent(c) == Elements(pumped[c]) \cup (IF pump[c] = "no" THEN {} ELSE {Hello})

(* A page shows a message at most once, and only one that somebody has sent*)
(* and that was broadcast after the page was registered, or the greeting:  *)
(* on its way to the page a message is in one place at a time.             *)
ShownOnce ==
  \A c \in Conns :
    /\ \A i, j \in 1..Len(frames[c]) : frames[c][i] = frames[c][j] => i = j
    /\ \A x \in Outgoing : shown[c][x] <= 1
    /\ calls[c] \cap (Elements(frames[c]) \cup reading[c] \cup Shown(c)) = {}
    /\ Elements(frames[c]) \cap (reading[c] \cup Shown(c)) = {}
    /\ reading[c] \cap Shown(c) = {}
    /\ calls[c] \cup Elements(frames[c]) \cup reading[c] \cup Shown(c)
         \subseteq Sent(c)
    /\ \A x \in Sent(c) \ {Hello} :
         /\ author[x] # Nobody
         /\ \E i \in (since[c] + 1)..Len(log) : log[i] = x

(* c has been registered since before x reached the topic, or has sent it. *)
Due(c, x) ==
  \/ author[x] = c
  \/ /\ serve[c] \notin {"no", "upgraded"}
     /\ said[x] # "no"
     /\ \A i \in 1..since[c] : log[i] # x

(* A message is shown by the page that has sent it, and by every page that *)
(* was registered before it reached the topic, if the page stays and does  *)
(* not hang: whatever else is written, in whatever order, and though every *)
(* other page may have hung.  A message once due remains so, so a page that*)
(* shows all that is due time and again shows each sooner or later.        *)
ReachesEveryPage ==
  \A c \in Conns : PageRuns(c) =>
    []<>(ws[c] = "closed" \/ \A x \in Incoming : Due(c, x) => x \in Shown(c))

=============================================================================
