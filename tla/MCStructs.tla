----------------------------- MODULE MCStructs ------------------------------
(* An instance of Structs for TLC. *)
EXTENDS Structs

Keys == {Str("from"), Str("time"), Str("c"), Str("zz"), Number(1)}

(* A struct of type T with every field given by kind. *)
Filled(T, Of(_)) == [n \in Names(T) |-> Of(Kind(T, n))]

Some(kind) == IF kind = "string" THEN "old" ELSE 1

MCTargets == {[type |-> T, held |-> Filled(T, Zero)] : T \in Types}
               \cup {[type |-> T, held |-> Filled(T, Some)] : T \in Types}

MCTexts == {"", "old", "x", "zz"} \cup UNION {Names(T) : T \in Types}

(* Every width is exceeded by a number, and a value that has to be skipped *)
(* names a field itself.                                                   *)
Objects ==
  { <<Str("x")>>, <<Number(-1)>>, <<Number(1)>>, <<Number(2)>>, <<Number(3)>>, <<Nil>>,
    <<Map(1), Str("from"), Array(1), Str("x")>> }

Pairs == [key : Keys, value : Objects]

(* What each of the structs is marshaled to, whatever it is decoded into,  *)
(* and any map of up to two pairs, the same key twice among them.          *)
MCPayloads ==
  {MarshalMsg(T, Filled(T, Some)) : T \in Types} \cup {<<>>}
    \cup {<<p>> : p \in Pairs} \cup {<<p, q>> : p, q \in Pairs}

MCOthers == {<<Nil>>, <<Str("x")>>, <<Array(1), Map(0)>>}

=============================================================================
