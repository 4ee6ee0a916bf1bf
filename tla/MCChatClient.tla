---------------------------- MODULE MCChatClient ----------------------------
(* Instances of ChatClient for TLC. *)
EXTENDS ChatClient

CONSTANTS a, r, u, b

(* A frame of every kind the page tells apart. *)
MCIncoming == {a, r, u, b}
MCKindOf   == [m \in MCIncoming |->
                 CASE m = a -> "message"
                   [] m = r -> "response"
                   [] m = u -> "unknown"
                   [] m = b -> "broken"]

=============================================================================
