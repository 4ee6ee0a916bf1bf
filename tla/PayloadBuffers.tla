--------------------------- MODULE PayloadBuffers ---------------------------
(***************************************************************************)
(* mpc/mpc.go: who may touch which payload buffer, and when.  Every codec  *)
(* writes through wire messages from one process-wide pool, marshaling the *)
(* payloads into whatever buffers those come with, and reads through a     *)
(* wire message of its own whose buffers every message is decoded into.    *)
(*                                                                         *)
(* A buffer is a slice [arr, len, cap] of a backing array, and mem[a] is   *)
(* the payload the array was last filled with, Junk if it was filled half: *)
(* two slices of one array see the same bytes, which is the hazard.  An    *)
(* array is named after the field it was allocated for, and a generation.  *)
(***************************************************************************)
EXTENDS Naturals, FiniteSets

CONSTANTS
  Payloads,       (* the values sent as arguments and results               *)
  Plain,          (* those that are no msgp.Marshaler or fail to marshal    *)
  SizeOf,         (* how many bytes each is                                 *)
  Errors,         (* the error texts sent                                   *)
  Inputs,         (* the birpc messages written: [args, result, error]      *)
  Writers,        (* goroutines inside WriteMessage, of any codec           *)
  WireIds,        (* wire messages of the pool                              *)
  Servers,        (* goroutines birpc serves the messages handed over in    *)
  MaxKept,        (* maxKeptBuffer                                          *)
  Gens,           (* arrays one field may have had and somebody still has   *)
  Nil,            (* no payload, no error, no array, no message             *)
  Junk            (* bytes of no payload                                    *)

Fields  == {"args", "result"}
Arrays  == [owner : WireIds \cup Servers \cup {"codec"}, field : Fields, gen : Gens]

ASSUME BufferAssumption ==
  /\ Plain \subseteq Payloads
  /\ SizeOf \in [Payloads -> Nat \ {0}]
  /\ Inputs \subseteq [args : Payloads \cup {Nil}, result : Payloads \cup {Nil},
                       error : Errors \cup {Nil}]
  /\ MaxKept \in Nat
  /\ Nil \notin Payloads \cup Errors \cup WireIds
  /\ Junk \notin Payloads \cup {Nil}
  /\ WireIds \cap Servers = {} /\ "codec" \notin WireIds \cup Servers
  /\ \E g, h \in Gens : g # h
  /\ Nil \notin Arrays

VARIABLES
  mem,            (* what the backing arrays hold                           *)
  pool,           (* messages: the wire messages waiting for reuse          *)
  msg,            (* msg[id]: the fields of a wire message of the pool      *)
  call, given,    (* how far each WriteMessage is, and with which message   *)
  holds,          (* the wire message it got from the pool                  *)
  sent,           (* what it encoded                                        *)
  wire,           (* Codec.wire, which every ReadMessage decodes into       *)
  read, incoming, (* how far ReadMessage is, and in which message           *)
  served          (* served[s]: the message that is not unmarshaled yet     *)

writeVars == <<pool, msg, call, given, holds, sent>>
readVars  == <<wire, read, incoming, served>>
vars      == <<mem, writeVars, readVars>>

NoSlice == [arr |-> Nil, len |-> 0, cap |-> 0]
Empty   == [args |-> NoSlice, result |-> NoSlice, error |-> Nil]

Init ==
  /\ mem = [a \in Arrays |-> Junk]
  /\ pool = {}
  /\ msg = [id \in WireIds |-> Empty]
  /\ call = [w \in Writers |-> "idle"]
  /\ given = [w \in Writers |-> Nil]
  /\ holds = [w \in Writers |-> Nil]
  /\ sent = [w \in Writers |-> Nil]
  /\ wire = Empty
  /\ read = "idle" /\ incoming = Nil
  /\ served = [s \in Servers |-> Nil]

-----------------------------------------------------------------------------
(* Slices and backing arrays *)

(* What whoever reads the slice finds in it; an empty one is an absent     *)
(* payload.                                                                *)
Content(s) == IF s.len = 0 THEN Nil ELSE mem[s.arr]

(* Every array somebody refers to; the others are garbage. *)
Live == UNION {{m.args.arr, m.result.arr} :
                 m \in {msg[id] : id \in WireIds} \cup {wire}
                      \cup ({served[s] : s \in Servers} \ {Nil})}

New(o, f) == CHOOSE a \in [owner : {o}, field : {f}, gen : Gens] : a \notin Live

Truncated(s) == [s EXCEPT !.len = 0]

(* buf[:0] with n bytes appended: in place where they fit, else in a new   *)
(* array that leaves room to spare, as msgp.Require allocates it.          *)
Grown(buf, n, o, f) ==
  IF n <= buf.cap THEN [buf EXCEPT !.len = n]
  ELSE [arr |-> New(o, f), len |-> n, cap |-> n + 2 * buf.cap]

(* Mutant: every buffer is kept. *)
KeepAll(s) == Truncated(s)

Keep(s) == IF s.cap > MaxKept THEN NoSlice ELSE Truncated(s)

-----------------------------------------------------------------------------
(* WriteMessage *)

(* Mutant: a message is handed out while somebody has it. *)
GetMessageShared(w) ==
  /\ call[w] = "idle"
  /\ \E m \in Inputs : given' = [given EXCEPT ![w] = m]
  /\ \E id \in WireIds : holds' = [holds EXCEPT ![w] = id] /\ pool' = pool \ {id}
  /\ call' = [call EXCEPT ![w] = "args"]
  /\ UNCHANGED <<mem, msg, sent, readVars>>

(* sync.Pool hands out any message it has, or a new one. *)
GetMessage(w) ==
  /\ call[w] = "idle"
  /\ \E m \in Inputs : given' = [given EXCEPT ![w] = m]
  /\ \E id \in WireIds \ {holds[v] : v \in Writers} :
       /\ holds' = [holds EXCEPT ![w] = id]
       /\ pool' = pool \ {id}
  /\ call' = [call EXCEPT ![w] = "args"]
  /\ UNCHANGED <<mem, msg, sent, readVars>>

(* The garbage collector empties the pool. *)
Collect ==
  /\ pool # {}
  /\ pool' = {}
  /\ msg' = [id \in WireIds |-> IF id \in pool THEN Empty ELSE msg[id]]
  /\ UNCHANGED <<mem, call, given, holds, sent, readVars>>

(* One field of ToWire: the payload is marshaled into the buffer the wire  *)
(* message already has, and one that cannot be is an error.                *)
Marshal(w, f, err, next) ==
  LET id  == holds[w]
      v   == given[w][f]
      buf == IF v \in Payloads \ Plain THEN Grown(msg[id][f], SizeOf[v], id, f)
             ELSE Truncated(msg[id][f])
  IN  /\ msg' = [msg EXCEPT ![id][f] = buf,
                            ![id].error = IF v \in Plain THEN Nil ELSE err]
      /\ mem' = IF buf.len > 0 THEN [mem EXCEPT ![buf.arr] = v] ELSE mem
      /\ call' = [call EXCEPT ![w] = IF v \in Plain THEN "done" ELSE next]
      /\ UNCHANGED <<pool, given, holds, sent, readVars>>

ToWireArgs(w) == call[w] = "args" /\ Marshal(w, "args", Nil, "result")

ToWireResult(w) ==
  call[w] = "result" /\ Marshal(w, "result", given[w].error, "encode")

(* EncodeMsg or MarshalMsg copies the fields out; the connection may fail. *)
EncodeMsg(w) ==
  /\ call[w] = "encode"
  /\ LET m == msg[holds[w]]
     IN  sent' \in {sent, [sent EXCEPT ![w] = [args |-> Content(m.args),
                                               result |-> Content(m.result),
                                               error |-> m.error]]}
  /\ call' = [call EXCEPT ![w] = "done"]
  /\ UNCHANGED <<mem, pool, msg, given, holds, readVars>>

(* Mutant: the message goes back to the pool as soon as it is filled. *)
PutMessageEarly(w) ==
  /\ call[w] \in {"encode", "done"}
  /\ msg' = [msg EXCEPT ![holds[w]] = [args |-> Keep(@.args), result |-> Keep(@.result),
                                       error |-> Nil]]
  /\ pool' = pool \cup {holds[w]}
  /\ call' = [call EXCEPT ![w] = IF @ = "encode" THEN "encode" ELSE "idle"]
  /\ UNCHANGED <<mem, given, holds, sent, readVars>>

(* The deferred PutMessage runs on every way out of WriteMessage. *)
PutMessage(w) ==
  /\ call[w] = "done"
  /\ msg' = [msg EXCEPT ![holds[w]] = [args |-> Keep(@.args), result |-> Keep(@.result),
                                       error |-> Nil]]
  /\ pool' = pool \cup {holds[w]}
  /\ holds' = [holds EXCEPT ![w] = Nil]
  /\ given' = [given EXCEPT ![w] = Nil]
  /\ sent' = [sent EXCEPT ![w] = Nil]
  /\ call' = [call EXCEPT ![w] = "idle"]
  /\ UNCHANGED <<mem, readVars>>

-----------------------------------------------------------------------------
(* ReadMessage *)

(* One payload of DecodeMsg or UnmarshalMsg.  Reading may stop half way:   *)
(* the connection failed, or the bytes are no message.                     *)
Decode(v, f, next) ==
  LET buf == IF v = Nil THEN Truncated(wire[f])
             ELSE Grown(wire[f], SizeOf[v], "codec", f)
      Fill(u) == mem' = IF v = Nil THEN mem ELSE [mem EXCEPT ![buf.arr] = u]
  IN  /\ wire' = [wire EXCEPT ![f] = buf]
      /\ (Fill(v) /\ read' = next) \/ (Fill(Junk) /\ read' = "failed")
      /\ UNCHANGED <<writeVars, served>>

(* Array header, ID, Func and Args, of a message of this peer. *)
DecodeArgs ==
  /\ read \in {"idle", "failed"}
  /\ \E m \in Inputs :
       /\ {m.args, m.result} \cap Plain = {}
       /\ incoming' = m
       /\ Decode(m.args, "args", "result")

DecodeResult ==
  /\ read = "result"
  /\ Decode(incoming.result, "result", "error")
  /\ UNCHANGED incoming

(* nil takes the error of an earlier message away; otherwise it is         *)
(* overwritten, or stays when its text cannot be read.                     *)
DecodeError ==
  /\ read = "error"
  /\ \/ wire' = [wire EXCEPT !.error = incoming.error] /\ read' = "decoded"
     \/ incoming.error # Nil /\ wire' = wire /\ read' = "failed"
  /\ UNCHANGED <<mem, writeVars, incoming, served>>

(* Mutant: one array takes the copies of all messages. *)
HandOverScratch(s, f) ==
  LET scratch == {served[t][f].arr : t \in {u \in Servers : served[u] # Nil}} \ {Nil}
  IN  IF wire[f].len = 0 THEN NoSlice
      ELSE [arr |-> IF scratch = {} THEN New(s, f) ELSE CHOOSE a \in scratch : TRUE,
            len |-> wire[f].len, cap |-> wire[f].len]

(* A copy of the payload in field f for s, or no payload. *)
HandOver(s, f) ==
  IF wire[f].len = 0 THEN NoSlice
  ELSE [arr |-> New(s, f), len |-> wire[f].len, cap |-> wire[f].len]

(* FromWire hands over copies and keeps the buffers.  birpc serves every   *)
(* message in a goroutine of its own, whatever it still serves: Servers is *)
(* as large as one likes.                                                  *)
FromWire ==
  /\ read = "decoded"
  /\ \E s \in Servers :
       /\ served[s] = Nil
       /\ served' = [served EXCEPT ![s] =
                       [want |-> incoming, error |-> wire.error,
                        args |-> HandOver(s, "args"), result |-> HandOver(s, "result")]]
       /\ mem' = [a \in Arrays |->
                    IF \E f \in Fields : a = HandOver(s, f).arr THEN Content(wire[a.field])
                    ELSE mem[a]]
  /\ wire' = [wire EXCEPT !.args = Keep(@), !.result = Keep(@)]
  /\ read' = "idle" /\ incoming' = Nil
  /\ UNCHANGED writeVars

(* birpc has unmarshaled the payloads of a message, in any order. *)
Unmarshal(s) ==
  /\ served[s] # Nil
  /\ served' = [served EXCEPT ![s] = Nil]
  /\ UNCHANGED <<mem, writeVars, wire, read, incoming>>

WriteMessage(w) ==
  GetMessage(w) \/ ToWireArgs(w) \/ ToWireResult(w) \/ EncodeMsg(w) \/ PutMessage(w)

ReadMessage == DecodeArgs \/ DecodeResult \/ DecodeError \/ FromWire

Next ==
  \/ \E w \in Writers : WriteMessage(w)
  \/ Collect
  \/ ReadMessage
  \/ \E s \in Servers : Unmarshal(s)

Spec == Init /\ [][Next]_vars

-----------------------------------------------------------------------------
(* Properties *)

Slices   == [arr : Arrays \cup {Nil}, len : Nat, cap : Nat]
Contents == Payloads \cup {Nil, Junk}
Messages == [args : Slices, result : Slices, error : Errors \cup {Nil}]

(* Every variable stays in its range, and no wire message is given out     *)
(* twice.                                                                  *)
TypeOK ==
  /\ mem \in [Arrays -> Payloads \cup {Junk}]
  /\ pool \subseteq WireIds
  /\ msg \in [WireIds -> Messages]
  /\ call \in [Writers -> {"idle", "args", "result", "encode", "done"}]
  /\ given \in [Writers -> Inputs \cup {Nil}]
  /\ holds \in [Writers -> WireIds \cup {Nil}]
  /\ \A w \in Writers : holds[w] = Nil <=> call[w] = "idle"
  /\ \A w \in Writers : holds[w] \notin pool
  /\ \A v, w \in Writers : holds[v] = holds[w] => v = w \/ holds[v] = Nil
  /\ sent \in [Writers -> [args : Contents, result : Contents, error : Errors \cup {Nil}]
                          \cup {Nil}]
  /\ wire \in Messages
  /\ read \in {"idle", "result", "error", "decoded", "failed"}
  /\ served \in [Servers -> [want : Inputs, error : Errors \cup {Nil},
                             args : Slices, result : Slices] \cup {Nil}]

(* What reaches the peer is the message that was written, whatever the     *)
(* wire message and its buffers carried before and whoever else is writing.*)
EncodedFaithful == \A w \in Writers : sent[w] # Nil => sent[w] = given[w]

(* The messages handed to birpc are those that have arrived, whatever      *)
(* earlier ones, read to the end or not, left in Codec.wire, and each      *)
(* stays so until birpc has unmarshaled it, however many others it serves  *)
(* and the codec reads meanwhile.                                          *)
HandedOverIntact ==
  \A s \in Servers : served[s] # Nil =>
    [args |-> Content(served[s].args), result |-> Content(served[s].result),
     error |-> served[s].error] = served[s].want

(* A message that had to grow a large buffer does not pin it: what waits   *)
(* in the pool, or in the codec for the next message, is bounded.          *)
KeptBounded ==
  /\ \A id \in pool, f \in Fields : msg[id][f].cap <= MaxKept
  /\ read = "idle" => \A f \in Fields : wire[f].cap <= MaxKept

=============================================================================
