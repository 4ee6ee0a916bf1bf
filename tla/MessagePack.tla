---------------------------- MODULE MessagePack -----------------------------
(***************************************************************************)
(* MessagePack as the generated code sees it through msgp: a sequence of   *)
(* tokens.  How a token is made of bytes is msgp's business.               *)
(***************************************************************************)
EXTENDS Integers, Sequences

Token(kind, val) == [kind |-> kind, val |-> val]

Array(n)  == Token("array", n)
Map(n)    == Token("map", n)
Number(n) == Token("number", n)
Str(s)    == Token("string", s)
Nil       == Token("nil", 0)

(* How many objects follow t that belong to the object t starts. *)
Holds(t) == CASE t.kind = "array" -> t.val
              [] t.kind = "map"   -> 2 * t.val
              [] OTHER            -> 0

(* The tokens with these numbers and strings. *)
TokensOf(numbers, strings) ==
  {Nil} \cup [kind : {"array", "map"}, val : Nat] \cup [kind : {"number"}, val : numbers]
        \cup [kind : {"string"}, val : strings]

(* How many objects are open before each token of p, when p is one object  *)
(* with all that is in it.                                                 *)
Opens(o, p) ==
  /\ o[0] = 1 /\ o[Len(p)] = 0
  /\ \A i \in 1..Len(p) : o[i - 1] > 0 /\ o[i] = o[i - 1] - 1 + Holds(p[i])

OneObject(p) == \E o \in [0..Len(p) -> 0..Len(p)] : Opens(o, p)

=============================================================================
