---------------------------- MODULE MCWireFormat ----------------------------
(* An instance of WireFormat for TLC. *)
EXTENDS WireFormat

CONSTANTS f, s, e

Message(args, result, err) ==
  [id |-> 1, fn |-> f, args |-> args, result |-> result, err |-> err]

(* A request, a reply, replies with an error, and payloads that marshal to *)
(* nil.                                                                    *)
MCSendable ==
  { Message(<<Map(1), Str(s), Number(3)>>, <<>>, NoError),
    Message(<<>>, <<Number(2)>>, NoError),
    Message(<<>>, <<>>, e),
    Message(<<>>, <<Array(1), Array(1), Nil>>, EmptyString),
    Message(<<Nil>>, <<Nil>>, NoError) }

MCStrings == {f, s, e, EmptyString}

MCJunk == {Nil, Array(0), Array(1), Array(2), Array(5), Number(7), Number(-1), Str(s)}

=============================================================================
