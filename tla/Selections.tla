----------------------------- MODULE Selections -----------------------------
(***************************************************************************)
(* What a sequence comes to when only some values are of interest, and of  *)
(* those not everything: the abstract view of a stream, a connection or an *)
(* inbox.                                                                  *)
(***************************************************************************)
EXTENDS Naturals, Sequences

(* What h makes of the elements of s it is defined for, in their order. *)
Selected(s, h) ==
  LET upTo[n \in 0..Len(s)] ==
        IF n = 0 THEN <<>>
        ELSE IF s[n] \in DOMAIN h THEN Append(upTo[n-1], h[s[n]])
        ELSE upTo[n-1]
  IN  upTo[Len(s)]

=============================================================================
