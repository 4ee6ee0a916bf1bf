-------------------------- MODULE MCPayloadBuffers --------------------------
(* An instance of PayloadBuffers for TLC. *)
EXTENDS PayloadBuffers, TLC

CONSTANTS small, large, plain, boom

MCPayloads == {small, large, plain}
MCPlain    == {plain}
MCSize     == (small :> 1) @@ (large :> 3) @@ (plain :> 1)
MCErrors   == {boom}

Message(a, r, e) == [args |-> a, result |-> r, error |-> e]

(* Requests carry no result, and replies no arguments. *)
MCInputs ==
  {Message(small, Nil, Nil), Message(large, Nil, Nil),
   Message(Nil, small, boom), Message(Nil, plain, Nil)}

Interchangeable == Permutations(Writers) \cup Permutations(WireIds) \cup Permutations(Servers)

(* What a buffer holds tells states apart only while it may be read before *)
(* it is filled again: not when the call has failed or is done.            *)
Spent(m) == [m EXCEPT !.args = Truncated(@), !.result = Truncated(@)]

MsgState ==
  [id \in WireIds |-> IF \E w \in Writers : holds[w] = id /\ call[w] = "done"
                     THEN Spent(msg[id]) ELSE msg[id]]
WireState == IF read = "failed" THEN Spent(wire) ELSE wire
GivenState ==
  [w \in Writers |-> IF call[w] = "done" /\ sent[w] = Nil THEN Nil ELSE given[w]]
IncomingState == IF read = "failed" THEN Nil ELSE incoming

(* Nor does an array that no slice refers to, but an empty one.            *)
InUse == {s \in UNION {{m[f] : f \in Fields} :
                         m \in {MsgState[id] : id \in WireIds} \cup {WireState}
                              \cup ({served[s] : s \in Servers} \ {Nil})} : s.len > 0}

ReadableState ==
  <<[a \in {s.arr : s \in InUse} |-> mem[a]], pool, MsgState, call, GivenState, holds, sent,
    WireState, read, IncomingState, served>>

=============================================================================
