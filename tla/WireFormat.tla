----------------------------- MODULE WireFormat -----------------------------
(***************************************************************************)
(* mpc/mpc_gen.go: what a Message looks like on the wire, and how DecodeMsg*)
(* and UnmarshalMsg read it back, field by field, into a Message that still*)
(* holds what the one before has left in it.                               *)
(*                                                                         *)
(* The wire is a sequence of MessagePack tokens.  Payloads are raw: any one*)
(* object, an array or a map with all that is in it included.  Messages    *)
(* arrive one to a frame, as the websocket and the redis codec receive     *)
(* them, and not always whole.                                             *)
(***************************************************************************)
EXTENDS MessagePack

CONSTANTS
  Sendable,       (* the wire messages that are sent                        *)
  Junk,           (* tokens that may be in the place of another             *)
  MaxFrames,      (* how many frames arrive                                 *)
  Strings,        (* what Func and Error may say                            *)
  EmptyString,    (* a string with nothing in it                            *)
  NoError         (* Message.Error is nil                                   *)

Tokens == TokensOf(Int, Strings)

MessageType == [id : Nat, fn : Strings, args : Seq(Tokens), result : Seq(Tokens),
                err : Strings \cup {NoError}]

(* A payload is absent, or one object: a Marshaler writes no half of one.  *)
ASSUME WireAssumption ==
  /\ Sendable \subseteq MessageType
  /\ \A m \in Sendable : \A p \in {m.args, m.result} : p = <<>> \/ OneObject(p)
  /\ Junk \subseteq Tokens
  /\ MaxFrames \in Nat
  /\ EmptyString \in Strings /\ NoError \notin Strings

VARIABLES
  decoder,        (* which of the two decoders is used                      *)
  frames,         (* how many frames have arrived                           *)
  sent,           (* the message that was sent                              *)
  damage,         (* what has become of it on the way                       *)
  frame,          (* the tokens that have arrived                           *)
  pos,            (* how many of them have been read                        *)
  at,             (* what the decoder reads next                            *)
  z,              (* the Message that is decoded into                       *)
  raw,            (* the tokens of the payload being read                   *)
  open            (* the objects it takes to complete the payload           *)

arrival == <<decoder, frames, sent, damage, frame>>
vars    == <<arrival, pos, at, z, raw, open>>

-----------------------------------------------------------------------------
(* Encoding: EncodeMsg and MarshalMsg write the same. *)

(* An absent payload is nil on the wire. *)
EncodeRaw(payload) == IF payload = <<>> THEN <<Nil>> ELSE payload

EncodeError(err) == IF err = NoError THEN <<Nil>> ELSE <<Array(1), Str(err)>>

EncodeMsg(m) ==
  <<Array(5), Number(m.id), Str(m.fn)>>
    \o EncodeRaw(m.args) \o EncodeRaw(m.result) \o EncodeError(m.err)

(* The other way round, nil is an absent payload. *)
DecodedRaw(tokens) == IF tokens = <<Nil>> THEN <<>> ELSE tokens

-----------------------------------------------------------------------------
Empty == [id |-> 0, fn |-> EmptyString, args |-> <<>>, result |-> <<>>, err |-> NoError]

Init ==
  /\ decoder \in {"DecodeMsg", "UnmarshalMsg"}
  /\ frames = 0 /\ sent = Empty /\ damage = "none" /\ frame = <<>>
  /\ pos = 0 /\ at = "idle" /\ z = Empty /\ raw = <<>> /\ open = 0

(* A frame arrives, and the decoder starts on it. *)
Arrive(m, what, tokens) ==
  /\ at \in {"idle", "failed"}
  /\ frames < MaxFrames
  /\ frames' = frames + 1
  /\ sent' = m /\ damage' = what /\ frame' = tokens
  /\ pos' = 0 /\ at' = "header"
  /\ UNCHANGED <<decoder, z, raw, open>>

ArriveWhole(m) == Arrive(m, "none", EncodeMsg(m))

(* Another message behind it, which is not looked at. *)
ArriveWithMore(m) == \E n \in Sendable : Arrive(m, "more", EncodeMsg(m) \o EncodeMsg(n))

ArriveCut(m) ==
  \E n \in 0..(Len(EncodeMsg(m)) - 1) : Arrive(m, "cut", SubSeq(EncodeMsg(m), 1, n))

ArriveChanged(m) ==
  \E i \in 1..Len(EncodeMsg(m)), t \in Junk :
    /\ t # EncodeMsg(m)[i]
    /\ Arrive(m, "changed", [EncodeMsg(m) EXCEPT ![i] = t])

-----------------------------------------------------------------------------
(* Decoding *)

More == pos < Len(frame)
Peek == frame[pos + 1]

(* The next token is read. *)
Read == pos' = pos + 1

(* It is not what is wanted, or there is none: the error is returned, what *)
(* has been decoded so far stays, and the field at hand becomes zero.  How *)
(* much of the frame has been read is of no use to anybody any more.       *)
Fail ==
  /\ at' = "failed"
  /\ UNCHANGED <<arrival, pos, raw, open>>

ReadArrayHeader(where, wanted, then) ==
  /\ at = where
  /\ UNCHANGED z
  /\ IF More /\ Peek = Array(wanted)
     THEN /\ Read /\ at' = then
          /\ UNCHANGED <<arrival, raw, open>>
     ELSE Fail

DecodeHeader == ReadArrayHeader("header", 5, "id")

DecodeID ==
  /\ at = "id"
  /\ IF More /\ Peek.kind = "number" /\ Peek.val >= 0
     THEN /\ Read /\ at' = "fn"
          /\ z' = [z EXCEPT !.id = Peek.val]
          /\ UNCHANGED <<arrival, raw, open>>
     ELSE Fail /\ z' = [z EXCEPT !.id = 0]

DecodeFunc ==
  /\ at = "fn"
  /\ IF More /\ Peek.kind = "string"
     THEN /\ Read /\ at' = "args"
          /\ z' = [z EXCEPT !.fn = Peek.val]
          /\ raw' = <<>> /\ open' = 1
          /\ UNCHANGED arrival
     ELSE Fail /\ z' = [z EXCEPT !.fn = EmptyString]

(* How many objects more a payload takes after a token of it. *)
StillOpen(t) == open - 1 + Holds(t)

(* Raw.DecodeMsg appends to the buffer as it reads, Raw.UnmarshalMsg copies *)
(* the whole payload once it knows its end.                                *)
DecodeRaw(field, then) ==
  /\ at = field
  /\ IF ~More
     THEN /\ Fail
          /\ z' = IF decoder = "DecodeMsg" THEN [z EXCEPT ![field] = raw] ELSE z
     ELSE IF StillOpen(Peek) > 0
          THEN /\ Read
               /\ raw' = Append(raw, Peek) /\ open' = StillOpen(Peek)
               /\ UNCHANGED <<arrival, at, z>>
          ELSE /\ Read /\ at' = then
               /\ z' = [z EXCEPT ![field] = DecodedRaw(Append(raw, Peek))]
               /\ raw' = <<>> /\ open' = 1
               /\ UNCHANGED arrival

(* Mutant: a nil Error leaves the one that is there. *)
ErrorStays ==
  /\ at = "error"
  /\ More /\ Peek = Nil
  /\ Read /\ at' = "done"
  /\ UNCHANGED <<arrival, z, raw, open>>

(* Mutant: the nil is read twice. *)
NilTwice ==
  /\ at = "error"
  /\ More /\ Peek = Nil
  /\ pos' = pos + 2 /\ at' = "done"
  /\ z' = [z EXCEPT !.err = NoError]
  /\ UNCHANGED <<arrival, raw, open>>

(* Mutant: the arity of the Error is not looked at. *)
AnyArity ==
  /\ at = "error"
  /\ ~(More /\ Peek = Nil)
  /\ z' = IF z.err = NoError THEN [z EXCEPT !.err = EmptyString] ELSE z
  /\ IF More /\ Peek.kind = "array"
     THEN /\ Read /\ at' = "errorMsg"
          /\ UNCHANGED <<arrival, raw, open>>
     ELSE Fail

(* A nil here is no error; anything else is taken for one, into the Error  *)
(* that is there already if there is one.                                  *)
DecodeErrorNil ==
  /\ at = "error"
  /\ More /\ Peek = Nil
  /\ Read /\ at' = "done"
  /\ z' = [z EXCEPT !.err = NoError]
  /\ UNCHANGED <<arrival, raw, open>>

DecodeErrorHeader ==
  /\ at = "error"
  /\ ~(More /\ Peek = Nil)
  /\ z' = IF z.err = NoError THEN [z EXCEPT !.err = EmptyString] ELSE z
  /\ IF More /\ Peek = Array(1)
     THEN /\ Read /\ at' = "errorMsg"
          /\ UNCHANGED <<arrival, raw, open>>
     ELSE Fail

DecodeErrorMsg ==
  /\ at = "errorMsg"
  /\ IF More /\ Peek.kind = "string"
     THEN /\ Read /\ at' = "done"
          /\ z' = [z EXCEPT !.err = Peek.val]
          /\ UNCHANGED <<arrival, raw, open>>
     ELSE Fail /\ z' = [z EXCEPT !.err = EmptyString]

(* FromWire takes the payloads with it. *)
FromWire ==
  /\ at = "done"
  /\ at' = "idle"
  /\ z' = [z EXCEPT !.args = <<>>, !.result = <<>>]
  /\ UNCHANGED <<arrival, pos, raw, open>>

Decode ==
  \/ DecodeHeader \/ DecodeID \/ DecodeFunc
  \/ DecodeRaw("args", "result") \/ DecodeRaw("result", "error")
  \/ DecodeErrorNil \/ DecodeErrorHeader \/ DecodeErrorMsg

Next ==
  \/ \E m \in Sendable :
       ArriveWhole(m) \/ ArriveWithMore(m) \/ ArriveCut(m) \/ ArriveChanged(m)
  \/ Decode
  \/ FromWire

Spec == Init /\ [][Next]_vars

-----------------------------------------------------------------------------
(* Properties *)

(* Every variable stays in its range, pos never past the frame. *)
TypeOK ==
  /\ decoder \in {"DecodeMsg", "UnmarshalMsg"}
  /\ frames \in 0..MaxFrames
  /\ sent \in Sendable \cup {Empty}
  /\ damage \in {"none", "more", "cut", "changed"}
  /\ frame \in Seq(Tokens) /\ raw \in Seq(Tokens)
  /\ pos \in 0..Len(frame)
  /\ at \in {"idle", "header", "id", "fn", "args", "result", "error", "errorMsg",
             "done", "failed"}
  /\ z \in MessageType
  /\ open \in Nat

(* What a message is after it has been on the wire: a payload that marshals*)
(* to nil is as good as none.                                              *)
Normal(m) == [m EXCEPT !.args = DecodedRaw(@), !.result = DecodedRaw(@)]

(* A message that arrives whole is decoded, to what was sent and no token  *)
(* further, whatever message, whole or half, the decoder had before it.    *)
RoundTrip ==
  damage \in {"none", "more"} =>
    /\ at # "failed"
    /\ at = "done" => z = Normal(sent) /\ pos = Len(EncodeMsg(sent))

(* Whatever a decoder accepts, out of whatever arrived, is what was there: *)
(* encoding it again gives the very tokens it was decoded from, so that no *)
(* part of a message is taken for a message either.                        *)
SurvivesRoundTrip == at = "done" => EncodeMsg(z) = SubSeq(frame, 1, pos)

=============================================================================
