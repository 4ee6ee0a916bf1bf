-------------------------- MODULE MCWebsocketCodec --------------------------
(* An instance of WebsocketCodec for TLC. *)
EXTENDS WebsocketCodec

CONSTANTS m1, m2, p, text, half, double

MCMessages == {m1, m2, p}
MCPlain    == {p}
MCForeign  == {text, half, double}

(* One message takes one frame, one takes two. *)
MCSize == [m \in MCMessages \cup MCForeign |-> IF m = m2 THEN 3 ELSE 2]

Part(m, i) == [msg |-> m, part |-> i]

Sent(kind, parts, cuts) == [kind |-> kind, parts |-> parts, cuts |-> cuts]

(* A text message, half a message in a binary one, and a message with half *)
(* another behind it in a second frame.                                    *)
MCForeignSent ==
  [f \in MCForeign |->
    CASE f = text   -> Sent("text", <<>>, <<0>>)
      [] f = half   -> Sent("binary", <<Part(f, 1)>>, <<1>>)
      [] f = double -> Sent("binary",
                            <<Part(f, 1), Part(f, 2), Part(half, 1), Part(half, 1)>>,
                            <<3, 4>>)]

=============================================================================
