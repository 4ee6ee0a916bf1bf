--------------------------- MODULE MCStreamCodec ----------------------------
(* Instances of StreamCodec for TLC. *)
EXTENDS StreamCodec

CONSTANTS m1, m2, p

(* A message that fits the buffers, one that does not, and one that cannot *)
(* be marshaled.                                                           *)
MCMessages == {m1, m2, p}
MCPlain    == {p}
MCSize     == [m \in MCMessages |-> IF m = m2 THEN 3 ELSE 2]

=============================================================================
