# Verification of bimpc

bimpc carries [birpc](https://github.com/tv42/birpc) messages in MessagePack
over a stream connection (`generic/`), a websocket (`websocket/`) or redis
pub-sub (`redis/`). `mpc/` has what they share: the wire message, its generated
encoding, its pool, and the conversion from and to `birpc.Message`.
`examples/chat` is a chat room on top of the websocket codec.

This directory holds TLA+ models of these parts, the TLC configurations that
check them, and TLAPS proofs about them. `PROJECT.json` ties every definition to
the lines it models and lists runs, theorems, findings and hazards.

## The system

| part | state | operations | hard because |
| --- | --- | --- | --- |
| generic codec (`generic/generic.go`) | one buffered `msgp.Writer` under `wmu`; one buffered `msgp.Reader` and one `Message` under `rmu`; the connection | `WriteMessage`, `ReadMessage`, `Close` | birpc writes every message from a goroutine of its own; a full buffer is written out half way through a message; a Write may fail half way; `Close` takes no lock and meets goroutines blocked in Read and Write |
| websocket codec (`websocket/websocket.go`) | as above, reset for every message; gorilla's `Conn` | the same | a message spans frames and is complete only when its writer is closed; the peer may be a browser that sends text or rubbish |
| redis codec (`redis/redis.go`) | `sub` and `wire` under `rmu`, `buf` under `wmu`, the database's connection pool | the same, with a subscription opened on first use | pooled connections, errors that look like values, confirmations among the messages, `Close` without `rmu` |
| wire message (`mpc/mpc.go`) | the `sync.Pool` of messages, their payload buffers | `GetMessage`, `ToWire`, `PutMessage`, `FromWire`, `Unmarshal` | buffers are reused while birpc still serves what was in them |
| wire format (`mpc/mpc_gen.go`) | none; decodes into a dirty `Message` | `EncodeMsg`/`MarshalMsg`, `DecodeMsg`/`UnmarshalMsg` | a payload is any object; input may be cut or damaged |
| structs (`main_gen.go`, `testmsg_gen.go`, `mpc.Unmarshal`) | none; decodes into a struct that may hold something | `MarshalMsg`, `UnmarshalMsg`, `Unmarshal` | the two ends need not have the same struct; numbers come in any width; a refused payload leaves the struct half decoded |
| chat server (`examples/chat/main.go`) | a topic; per connection a channel, a serving goroutine and a pump | `serve`, the pump, `Chat.Message` | three parties may close one channel; goroutines must not outlive the connection |
| chat page (`chat.js`, `chat.html`) | the main websocket, the backoff, the timers to reconnect | `init`, `connect`, the events of a websocket, `handle`, `send` | timers, late closings and `connect()` by hand in any order; frames are read asynchronously; where `send` throws, the form takes the page away |

The codecs call into `mpc` (`GetMessage`, `ToWire`, encode, `PutMessage` on the
way out; decode, `FromWire` on the way in). birpc calls the codecs: `Serve`
calls `ReadMessage` in a loop until it fails and then `Close`; calls and replies
come to `WriteMessage` from goroutines of their own, and `UnmarshalArgs` and
`UnmarshalResult` are called while the next `ReadMessage` is already running.
The chat server runs one endpoint per websocket; the page speaks the wire format
itself, with a msgpack library of its own.

What makes each part correct:

- codecs: messages never interleave or merge; a call that returns nil has sent
  its message and one that returns an error never will have; messages come out
  in order, once; `Close` returns and gets everybody else out;
- redis codec besides: a refused PUBLISH is an error; and as long as `Close` and
  `ReadMessage` do not run at the same time, no connection goes back dirty, none
  leaks but those `Pop` has failed on, and a closed codec is not subscribed;
- wire message: nobody ever sees the bytes of another message; a large buffer is
  let go of;
- wire format: what was sent is what is decoded, whatever the decoder had
  before; half a message is not a message;
- structs: a field is what the payload says or what it was, and only what cannot
  be read is refused;
- chat server: no double close, no missed broadcast, no goroutine left behind;
- chat page: never two websockets, never none without a timer, and once the
  server stays, one that stays too, unless the page was lost while it was away;
- the chat from page to page: what is said is shown once, by everybody who is
  there, however many pages hang.

## Modules

### `MessageChannel`

What one direction of a connection-oriented codec promises, without buffers,
locks or frames: messages are put into a channel and taken out in order, a
WriteMessage that succeeds has put its message in, one that fails never has and
never will. `StreamCodec` and `WebsocketCodec` are checked to implement it
(`ImplementsChannel`), under refinement mappings stated next to the property:
the channel is the sequence of messages whose last part, or final frame, the
connection has accepted.

### `StreamCodec` (`generic/generic.go`)

One direction between two Codecs. A message is a run of parts, the pieces
between which a buffer may be written out; `stream` has every part ever encoded,
and three indices cut it into what is decoded, in the `msgp.Reader`, on the
connection, and in the `msgp.Writer`. Between two locks every step of
WriteMessage and ReadMessage is an action: `ToWire`, `LockWmu`, `EncodeMsg` (one
part), `ConnWrite` (partial progress), `WriteError`, `WriteReturn`; `LockRmu`,
`ConnRead` (reads ahead), `DecodeMsg`, `FromWire`, `ReadError`; `Close` with the
call to it a step before, so that one can see it wait. The connection is
external and may break at any step. `MayTimeout` lets a Write fail once and
another succeed later.

### `WebsocketCodec` (`websocket/websocket.go`)

The same with frames. The `Conn` is modelled by what the code uses of it: a
writer whose frames are final only when it is closed, write errors that are for
good, a reader that skips the rest of the message before and ends with the
message it is for. `SendForeign` is a peer that is no Codec: whatever there is in
a websocket message of its own, in however many frames (`ForeignSent`), and for
TLC that is text, half a message in a binary one, or a message with half another
behind it. `ReadMessage` may be
called again after an error here, though birpc's `Serve` would not, because the
codec allows it and the property says what then happens.

### `Selections`

`Selected` is what is left of a sequence for whom only some of its elements say
something: the messages of a stream whose last part is on the connection, the
first frames of websocket messages, the pushes of an inbox that are
publications. The refinement mappings are stated with it.

### `PubSub`

What a redis channel promises its two ends: it keeps nothing. A publication
waits for the listener there is, in order, or is lost; a call that reports
success has published its message, and one that reports an error may have. That
is less than `MessageChannel`, and all birpc gets over redis.

### `RedisCodec` (`redis/redis.go`)

Connections are in the pool, out, or closed, alive or not, subscribed or not,
and carry an inbox of pushes. When one is closed its name is used again, so the
codec may lose and replace connections for ever. Others publish on the channel
too (`Garbage`).

Every look at `Codec.sub`, by ReadMessage or by Close, is a step of its own,
since Close takes no lock. `NilSub` and `NilClose` are the panics that a look in
between allows. ReadMessage may be called before, during and after Close: the
code has no flag that a Codec is closed, and one that is read from again
subscribes again. Close may be called at any moment as well, up to `MaxCloses`
times and one call after the other. `raced` remembers whether a Close and a
ReadMessage have ever run at the same time, whichever was called first; the
properties that the code keeps only if they have not say so.

When Pop fails, ReadMessage drops the subscription (`redis.go:65-69`) and neither
closes it nor gives it back; where Subscribe fails it closes it (`redis.go:45`).
Such connections are `forgotten`: they are out and in nobody's hands, redis goes
on pushing at those that still work, and only the name of one that has died is
used again.

`ImplementsPubSub` is the refinement: the listener is the subscription of
`Codec.sub`, and what waits for it is that connection's inbox without the
confirmations (whose tag, `"confirmation"`, is assumed to be the name of no
message). It holds up to the moment a Close and a ReadMessage run at the same
time.

### `PayloadBuffers` (`mpc/mpc.go`)

The wire messages of the pool and of a reading codec with their payload buffers,
which are backing arrays on a heap: a slice is an array and a length, so that
sharing shows. Two writers take messages from the pool, marshal, encode and put
them back, while a codec decodes the next message and birpc serves those before
it: each that is handed over has a goroutine of its own (`Servers`), many run at
a time, and they unmarshal their payloads in any order. FromWire waits for none
of them; that there are only so many is a bound of TLC's.

### `MessagePack`, `WireFormat` (`mpc/mpc_gen.go`)

`MessagePack` has the tokens the generated code reads and writes, how many
objects follow each, and what one object with all that is in it is. `WireFormat`
has messages as sequences of tokens; both decoders, field by field, into a
`Message` that still has whatever the previous frame, whole or half decoded,
has left in it. The two differ in what a payload that fails half way leaves
behind. A frame arrives whole, with more behind it, cut at any token, or with
any token changed. A payload is absent or one object with all that is in it
(`OneObject`), as a `msgp.Marshaler` writes it; what strings say makes no
difference, so that they are a constant set.

### `Structs` (`examples/chat/main_gen.go`, `internal/testmsg/testmsg_gen.go`, `Unmarshal` of `mpc/mpc.go`)

msgp generates the same four methods for every struct, so that a struct is its
list of fields and the methods are one set of actions that run through it.
`Unmarshal` is called once, on a struct that may hold something (`Targets`),
with a payload that is whole, cut off at any token, no map at all, or
absent. The map is any struct's, not only the one it is decoded into: either end
may be newer than the other, or no Go program, as the chat's page is, which
writes the fields of an `Incoming` by hand. A field keeps the
range of its Go type; TLC has `MaxUint32` and `MaxInt64` scaled down. The names
of the module are none of `WireFormat`'s, so that both have their proofs in one
place.

### `Chat` (`examples/chat/main.go`)

Per connection the serving goroutine and the pump, each a sequence of steps, and
the topic in between: its Broadcast channel, the set of channels it knows, and
its goroutine, which drops a channel with no room. `log`, `since`, `pumped` and
`dropped` are history. `endpoint.Go` waits for nothing ("always sends from a
fresh goroutine", `websocket/bench_test.go:34`), so a browser that does not read
holds up nothing in this module, and what becomes of a call is the codec's
business. `DisconnectStopsBoth` therefore starts from a closed websocket.

### `ChatRoom` (`examples/chat`, both ends)

`Chat` extended with what is around it: a page's `Send`, the goroutine birpc
starts for the call (`ServeCall`), the goroutines in which `endpoint.Go` writes
the greeting and the pump's messages (`calls`), the network (`frames`), and the
page's `OnMessage` and `Handle` with the FileReaders in between (`reading`). A
step of the server that calls `Go` is composed with the step that starts the
goroutine; every other one leaves the pages alone (`Meanwhile`). Goroutines and
FileReaders overtake each other. A page may hang, and then the goroutines that
write to it wait. Replies are left out: the page drops those it gets and sends
none.

### `ChatClient` (`examples/chat/chat.js`)

The page runs one callback at a time, so every callback is an action: `init`, the
timer, `onopen`, `onclose`, `onmessage`, the `onload` of a FileReader (`Handle`),
`send`, and `connect()` called from the console, which a comment in the code
invites to (`chat.js:779`). `connect` itself is an operator the three that call
it share. The WebSocket, `setTimeout` and the FileReader are the browser's: a
websocket that is closed reports it later, a timer fires whenever it does, and
frames are read in any order. A frame is a chat message, a response, a call of a
function the page does not have, or one that does not decode; `Fate` is
what becomes of it. Names of closed websockets are used again, so the page may
reconnect for ever. The server comes and goes.

`Send` is the `onsubmit` of the form. Before there is a websocket and while it is
connecting, `ws.send` throws (`chat.js:817`), `return false` (line 819) is never
reached, and the form is submitted to `#` (`chat.html:9`): the page is `"leaving"`
and runs on until the server answers. Then it starts anew, without its
websockets, its timers and the frames it was reading (`Navigate`, `Unload`); or,
if the server is away, it is `"gone"` until the user reloads it (`ReloadByHand`).

`MC*` modules hold the constants TLC cannot read from a `.cfg`, symmetry sets and
views. Operators commented "Mutant" are bugs the code does not have; each is
used to check that a property notices it.

## Runs

| run | shows |
| --- | --- |
| `Stream` | `WholeMessages`, `NeverGarbled`, `ImplementsChannel`, `CloseLeavesNobodyInside`, `WrittenIsReceived`: two writers, one of a message larger than the buffers, a payload that cannot be marshaled, two readers, a connection that may break, and a far end that may stop reading |
| `StreamTimeout` | violated: `WholeMessages` over a connection with write deadlines |
| `WebsocketSafety` | `FramesWhole`, `FramesIsolated`, `ImplementsChannel` with two writers, two readers and a peer that is no Codec |
| `Redis` | `ImplementsPubSub`, `PoolSound`, `NoNilSub`, `FailsForCause`, `ClosedIsUnsubscribed`, `PushedIsReceived`, with connections that break at any step, Pop that fails at any time, and Close and ReadMessage called at any moment |
| `RedisCloseRace` | violated: `CloseUnsubscribes` when Close and a ReadMessage run at the same time |
| `PayloadBuffers` | `EncodedFaithful`, `HandedOverIntact`, `KeptBounded`, with two messages being written, two being served and one being read |
| `WireFormat` | `RoundTrip`, and `SurvivesRoundTrip`: a frame that is cut or damaged is refused, or is one that encodes to just these tokens |
| `Structs` | `DecodesWhatItNames`, `RefusedForCause` for every struct, every pair of fields and every cut |
| `Chat` | `ClosedOnce`, `NoGaps`, `DisconnectStopsBoth`, `DroppedIsDisconnected` |
| `ChatKick` | violated: `KickedIsSlow` |
| `ChatRoom` | `ShownOnce`, `ReachesEveryPage`: what is said is shown once, by every page that is registered, stays and does not hang |
| `ChatClient` | `OneWebsocket`, `NeverStranded`, `SettlesDown`, with a server that goes away and a page that is reloaded |

Every run has a type invariant besides.

The three violated runs are findings:

- `StreamTimeout`: after a failed Write the Codec is still usable, and over a
  connection that accepts a later Write the next message follows half of
  another. `generic.go:14` says any `io.ReadWriteCloser` will do.
- `RedisCloseRace`: "Close stops the redis subscription" (`redis.go:117`), but a
  ReadMessage in progress may subscribe after it has returned.
  That a connection Pop has failed on is neither closed nor given back
  (`redis.go:67`) shows in the model too, as `forgotten`; no comment says
  otherwise, so that it is no finding but an exception `PoolSound` names.
- `ChatKick`: the end of the pump is put down to the topic (`main.go:123`) and
  logged as "Kicking slow client"; every disconnect comes there.

### Bounds

- Codecs: two messages that can be sent and one that cannot. Interleaving and
  queueing on a lock need two; a third would wait behind the second. Messages
  differ in size so that one fits the buffer and one does not.
- Two readers where the codec locks readers, one in `RedisCodec`, where
  everything a second reader could meet is behind `rmu`.
- Redis: at most one writer has a connection at a time (`wmu`) and there is one
  subscription, so that two names, used again when their connections are closed
  or have died forgotten, are enough for both to be in use at once; with one
  forgotten the other goes back and forth between writer and subscription. Three
  in `RedisCloseRace`, where a subscription may be left behind. One call of Close
  (`MaxCloses`), after which ReadMessage may be called again; the proofs are for
  any number of each.
- `PayloadBuffers`: an array is small or large, with one of each beside
  `maxKeptBuffer`. Two `Servers`, as a third message would be copied as the
  second is; the proof is for any number. `MCPayloadBuffers` leaves out of the
  fingerprint what no step can read again: the buffers of a call that has failed
  or is done, and arrays nobody has a slice of.
- `WireFormat`: two frames, since a decoder only remembers the one before;
  messages with a nested, an absent and a nil payload, an error and an empty
  one.
- `Structs`: structs that are zero or have something in every field; maps of up
  to two pairs, any of five keys with any of seven values,
  the same key twice among them, and whatever each struct is marshaled to. With
  `MaxUint32` at 1 and `MaxInt64` at 2 each width is exceeded by a number a field
  may meet. A third field is decoded like the second.
- `Chat`: two connections, three broadcasts and room for two, so that a channel
  overflows; the code has room for ten.
- `ChatRoom`: two pages and two messages, one page that speaks and one that may
  leave; either is dropped if it is slow. One place in every queue, so that a
  single frame the page has not read holds up the next, and two goroutines
  overtake each other.
- `ChatClient`: three names for websockets, the main one and two that are still
  closing; two outages and one `connect()` by hand, which is what it takes to
  have a timer left over beside the next; a frame of every kind, and two things to
  say, each once, so that the page is submitted twice at most. The backoff counts to two instead of the twelve attempts after which
  `backoff_max` limits the delay; how long a delay is makes no difference to
  when the model lets the timer fire.

### Fairness

Fairness is weak and on whole goroutines: a goroutine that can go on does.
`HungPeerSpec` has it for the writers and for Close only, since nobody makes a
peer read; where a property needs a peer that goes on it says so, by starting
with `ReadersRun`. In `RedisCodec` it is
on WriteMessage and on every step of ReadMessage but a Pop that fails (`ReadOn`);
Pop returning what has been pushed is the redis client's part. In `Chat` it is on the topic, the handlers, serve and the pump;
browsers come, speak and go as they like. In `ChatRoom` it is on the server as a
whole, the least one can ask: some goroutine that can go on does, and as they
have only so much to do each gets its turn. No fairness is asked of pages: that
a page does not hang (`PageRuns`) is the premise of what is said about that page,
and of no other. In `ChatClient` it is on the callbacks
the browser owes the page; not on the server, the user, what arrives or the
answer to a form (`Navigate`, `ReloadByHand`), and
`SettlesDown` is about a server that is up from some time on. Locks are not assumed fair beyond
that: no property needs a particular waiter to win.

## Proofs

`StreamCodecProofs`, `WebsocketCodecProofs`, `RedisCodecProofs`,
`PayloadBuffersProofs`, `MessagePackProofs`, `ChatRoomProofs` and
`ChatClientProofs` hold for every value of the constants, under the modules'
named assumptions, which TLC evaluates on every run.

`SelectionsProofs` has the laws of `Selected`: what it makes of the empty
sequence, of one more element at the end and of one less at the front, of two
sequences in a row, and which elements it has. They are inductions, and the
library's theorems about induction take a predicate, which the provers cannot
instantiate; the lemmas here (`SetInduction`, `SequenceInduction`) say that a set
of numbers, or of sequences, that has the first and with every one the next has
all of them, which comes to the same and needs no predicate. They are proved from
the library's theorem that the numbers are well-founded.

`StreamCodecProofs`:

- `TypeCorrect`: `TypeOK`, whose last line keeps the indices of the stream in
  order.
- `WritersNeverInterleave`: `WholeMessages`, from `~MayTimeout`, a connection
  that refuses every Write after one it has refused. `WholeMessages` speaks of
  what is on the connection, and is not inductive: the writer's buffer comes
  there later. `WriterInv` adds that
  whoever is encoding holds `wmu` and has encoded as much as `encoded` says
  (`HolderInv`), and that as long as the connection takes Writes the whole
  stream, the buffer included, is well formed and ends where its last writer is
  (`StreamInv`). Once it takes no more, `flushed` stands still.
- `ReadersStayInStep`: `NeverGarbled`, under the same assumption. `ReaderInv` says that
  `wire` is the beginning of one message (`WireInv`), that it ends where the
  stream has been consumed to, and that a reader that starts anew starts at a
  message's start, or with nothing more to read (`ReadPosition`).
- `CodecIsAChannel`: `ImplementsChannel`, under the same assumption. The channel
  has the messages whose last part the connection has accepted, and these three
  say how that comes about: a message has its last part in the stream once at
  most, and none before Flush (`WritingInv`); whatever is still buffered is of the
  message being written, unless the connection takes no more, so that one Write
  finishes one message at most and an error is never reported for a message that
  is in (`BufferInv`); and all that has been decoded to its end has been handed
  over, but the message at hand (`ReceivedInv`).

`WebsocketCodecProofs`:

- `TypeCorrect`: `TypeOK`.
- `MessagesStayWhole`: `FramesWhole`. `FramesWhole` alone does not say who may
  continue a websocket message that is not finished. `WriterInv` does: whoever is
  past the lock holds `wmu`, and a message without its final frame is the
  holder's, or one that failed, after which the Conn writes no more. The
  assumption is that a foreign message is well framed too (`WellFramed`): such a
  peer has a browser or a `websocket.Conn` to frame what it sends.
- `MessagesStayApart`: `FramesIsolated`, what ReadMessage makes of a websocket
  message being what it would make of it alone. It speaks of results only; the
  invariant has to say what a message is before it has one. `PartsInv` is that the
  frames of a message, one after the other, have its content from the beginning
  on, where every frame starts where the one before ended; that the writer is as
  far in its message as its frames and its buffer are; and that the reader has
  what has come of the message at hand and nothing else, which is Reset's doing.
  `CountInv` is that there is one result for every message begun, but the one at
  hand: a ReadMessage that fails leaves the rest of its message to be skipped.
- `CodecIsAChannel`: `ImplementsChannel`, whatever foreign messages come in
  between. `SentInv` says which calls have their final frame out, and
  `ReceivedInv` that of the messages complete in the frames read all have been
  handed over, but the one at hand.

`PayloadBuffersProofs`, all from one invariant `IInv`:

- `TypeCorrect`, `WritesWhatWasGiven`, `HandsOverWhatArrived`, `LargeBuffersGo`:
  `TypeOK`, `EncodedFaithful`, `HandedOverIntact` and `KeptBounded`. The heart of
  it is `SliceInv`: an array belongs to one field of one owner (`OfSlot`), so that
  no two payloads share one, whatever the pool does. A step then writes the
  arrays of its own slots only (`WritesOnly`), and whoever has the others is where
  he was: a writer as far as `WriterAt` says, the reader as far as `ReaderInv`
  does, and a server with the copies it was given (`CopyKept`), however many
  servers there are. There are to be two arrays for every slot at least, so that there is a
  free one to grow into; Go's heap has them.

`RedisCodecProofs`:

- `TypeCorrect`: `TypeOK`. It needs `WriterInv`, that whoever is on the way to a
  PUBLISH holds `wmu` with its own message in `buf`, for without it what is
  published need not be a message.
- `NeverNilSub`, `CloseEndsSubscription`, `PoolStaysSound`: `NoNilSub`,
  `ClosedIsUnsubscribed` and `PoolSound`, all until a Close and a ReadMessage run
  at the same time, and all from `RaceInv`. Its one half, `SubInv`, says
  that what ReadMessage and Close have read of `sub` is still so when they act on
  it; the other, `HandsInv`, that every connection is in one hand or forgotten,
  and clean in the pool's and a writer's. Once `raced`, always `raced`
  (`RacedStays`), so that nothing need be claimed from then on. That no race
  means no overlap is not in the guards but in `raced` itself, which LockRmu and
  CallClose set from where the other is.
- `FailuresHaveCauses`: `FailsForCause`, whether Close races or not. `CauseInv`
  adds that whatever waits in an inbox and is no message has been published by
  somebody.
- `CodecIsPubSub`: `ImplementsPubSub`, step by step: what Break, Unsubscribe, a
  Pop or a dead connection is to the listener. From `WriterInv` and `RaceInv`,
  with `PublishedInv`, that no message is published before its WriteMessage is
  on its way out, so that none is published twice; and `FreshInv`, that the
  connection about to be subscribed is not yet and has nothing in its inbox, so
  that a new listener is handed nothing from before its time.

`MessagePackProofs`, about `Structs`:

- `FieldsHoldTheirTypes`: `StructTypeOK`. `StructTypeInv` adds that a value is read
  only for a field the struct has, and that what is being skipped still misses
  something.
- `DecodedAsNamed`, `NeverRefusedWithoutCause`: `DecodesWhatItNames` and
  `RefusedForCause`, for structs that hold anything, maps of any length and values
  of any depth. Both speak of the end; `PlaceInv` says where decoding is until
  then. Between two pairs exactly the tokens of the pairs so far are taken, `ret`
  is what they say (`After`), and none of them was a cause to stop; in the middle
  of a value that is skipped, what is missing is what the value itself still
  misses there (`InValue`), so that Skip ends where the value does. It rests on two
  things proved first: where each pair is in what a map is encoded to
  (`MapLayout`, over the recursion of `Written`, by `SetInduction`), and how one
  more pair changes what `After` says (`AfterPair`).
- `StructRoundTrip`: what MarshalMsg has written of a struct, UnmarshalMsg reads
  back to the same struct, whatever was there before. With `DecodedAsNamed` it is
  only left to show that MarshalMsg names every field with its own value
  (`MarshaledFields`).

And about `WireFormat`:

- `TypeCorrect`: `TypeOK`, with `pos` never past the frame.
- `AcceptsWhatWasThere`: `SurvivesRoundTrip`. `GotInv` is the same for a decoder
  that is not done yet: what has been read so far is what the fields decoded so
  far would be encoded to, with the payload at hand behind them.
- `DecodesWhatWasSent`: `RoundTrip`. `WholeInv` says for a frame that arrives whole
  that the decoder stands where in `EncodeMsg(sent)` its next field begins and has
  decoded those before. In the middle of a payload it counts the objects that are
  open; `OneObject` says that this count is the payload's own, and so comes to
  nothing at its last token and at none before.

`ChatRoomProofs`, about `Chat`:

- `TypeCorrect`: no channel holds more than it has room for.
- `NeverClosedTwice`: `ClosedOnce`. `CloseInv` adds that a connection that has
  not registered is unknown to the topic and its channel has not been closed.
- `NothingPassedOver`: `NoGaps`, from the lemma `GotFromTheLog`. `GapInv` adds that what a connection has got
  ends within the log, which is what keeps it in place when the log grows. The
  lemmas before it are about sub-sequences of a sequence that is appended to.

And about `ChatRoom`:

- `RoomImplementsChat`: `RoomSpec => Spec`. A step of the room is a step of the
  server or leaves it alone, so that every theorem about `Chat` is one about
  `ChatRoom`.
- `RoomTypeCorrect`: `RoomTypeOK`.
- `NothingShownTwice`: `ShownOnce`. It takes three invariants: `FlowInv`, that a
  message goes from its author through the topic's queue to the log and is in
  one of them at a time, so that the log has it once; `GapInv`,
  from which what a pump has got is a piece of that log, and so has no message
  twice either; and `PlaceInv`, which is `ShownOnce` on the way from a pump's
  goroutines through the frames and FileReaders to the page.

`ChatClientProofs`, all from one invariant `IInv`:

- `TypeCorrect`: `TypeOK`, whose limit on `timers` is the part with substance.
  `Budget` counts the timers and a main websocket that may still close together,
  because one becomes the other; only `connect()` by hand adds to the sum.
  When the page is loaded anew, both are gone.
- `AlwaysOneWebsocket`: `OneWebsocket`.
- `ReconnectsAlways`: `NeverStranded`, with `MainKept`: the main websocket is never
  one the page is closing, so it is `onclose` with `this === ws` that ends it.

Model-checked only: every liveness property, since fairness and ENABLED are
beyond the prover. Every invariant that a passing run checks is proved.

## Not modelled

- birpc, topic, gorilla/websocket, msgp, the redis client and `sync.Pool` are
  outside the repository; they are modelled by how the code uses them, and
  those definitions are marked external.
- How a token is made of bytes: msgp's, and so is how deep objects may nest, or
  that a key of a map may come as a binary as well. `Msgsize` is a hint.
  `Error`'s own encoding methods are not used by the codecs, which is why the
  wire format counts as partly modelled.
- `FillArgs` hands out the connection or the database and changes nothing.
  `Chat.Message`, the one RPC method of the repository that takes it, uses it to
  log the address of whom it has heard.
- Replies, and who waits for them: a pending call is birpc's. `Arith` and
  `Counter` of `internal/testmsg` are services for the tests to call. How the
  chat's page looks, its style sheet and its flags.
- The msgpack library at the beginning of `chat.js` (lines 1-647), a copy of a third
  party's. What the page throws on a frame it cannot decode is modelled.

## Plan

Done: `MessageChannel` with `StreamCodec` and `WebsocketCodec`, `PubSub` with
`RedisCodec`, `PayloadBuffers`, `MessagePack` with `WireFormat` and `Structs`,
`Chat`, `ChatRoom`, `ChatClient`; proofs of every invariant and refinement.

Next, in this order:

1. `Endpoint`: two codecs under birpc's Serve, calls and replies, to check that
   every call ends, answered or with the connection. Its codecs are
   `MessageChannel`s, which the detailed ones implement. Most of it would be
   birpc's, which is outside the repository.
2. The strings of `chat.js` (`utf8Write`, `utf8Read`, lines 40-116) against UTF-8: which
   characters that people type reach the other browsers as they were typed.
   `utf8Read` takes four bits of the first of two bytes, where UTF-8 has five.
   They belong to the copied library, which is why this comes second.
3. Who gets out of `WebsocketCodec` when it is closed, as `StreamCodec` has it.
