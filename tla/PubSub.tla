------------------------------- MODULE PubSub -------------------------------
(***************************************************************************)
(* What one redis channel promises the two codecs at its ends: it is a     *)
(* channel that keeps nothing.  A publication waits for the listener if    *)
(* there is one at that moment and is lost if there is none; what waits is *)
(* handed over in the order it was published in, each once, until the      *)
(* listener goes away.  A call that reports success has published its      *)
(* message, one that reports an error may have.                            *)
(***************************************************************************)
EXTENDS Naturals, Sequences

CONSTANTS
  Messages,                (* the messages that may be written              *)
  Foreign                  (* what others may publish on the channel        *)

VARIABLES
  outcome,                 (* what each message's WriteMessage has reported *)
  published,               (* the publications                              *)
  listening,               (* is there a listener                           *)
  waiting,                 (* what has been published to it, not yet taken  *)
  received                 (* the messages ReadMessage has handed over      *)

pubsubVars == <<outcome, published, listening, waiting, received>>

Init ==
  /\ outcome = [m \in Messages |-> "pending"]
  /\ published = {}
  /\ listening = FALSE
  /\ waiting = <<>>
  /\ received = <<>>

Publish(x) ==
  /\ x \notin published
  /\ published' = published \cup {x}
  /\ waiting' = IF listening THEN Append(waiting, x) ELSE waiting
  /\ UNCHANGED <<listening, received>>

Write(m) ==
  /\ outcome[m] = "pending"
  /\ Publish(m)
  /\ \E how \in {"ok", "failed"} : outcome' = [outcome EXCEPT ![m] = how]

Refuse(m) ==
  /\ outcome[m] = "pending"
  /\ outcome' = [outcome EXCEPT ![m] = "failed"]
  /\ UNCHANGED <<published, listening, waiting, received>>

Listen ==
  /\ ~listening /\ waiting = <<>>
  /\ listening' = TRUE
  /\ UNCHANGED <<outcome, published, waiting, received>>

(* What has arrived before may still be read afterwards. *)
StopListening ==
  /\ listening' = FALSE
  /\ UNCHANGED <<outcome, published, waiting, received>>

(* Only a listener that stops loses what waits for it. *)
Leave ==
  /\ listening' = FALSE
  /\ waiting' = <<>>
  /\ UNCHANGED <<outcome, published, received>>

Take ==
  /\ waiting # <<>>
  /\ waiting' = Tail(waiting)
  /\ received' = IF Head(waiting) \in Messages THEN Append(received, Head(waiting))
                                               ELSE received
  /\ UNCHANGED <<outcome, published, listening>>

Next ==
  \/ \E m \in Messages : Write(m) \/ Refuse(m)
  \/ \E g \in Foreign : Publish(g) /\ UNCHANGED outcome
  \/ Listen \/ StopListening \/ Leave \/ Take

Spec == Init /\ [][Next]_pubsubVars

=============================================================================
