--------------------------- MODULE MessageChannel ---------------------------
(***************************************************************************)
(* What one direction of a connection-oriented codec promises to birpc,    *)
(* with no buffers, locks or frames in it: WriteMessage calls put whole    *)
(* messages into a channel, ReadMessage calls take them out in the order   *)
(* in which they went in.  A call that reports success has put its message *)
(* in; a call that reports an error has not, and never will.               *)
(*                                                                         *)
(* A message stands for the one goroutine that writes it: birpc sends every*)
(* request and every reply from a goroutine of its own.                    *)
(***************************************************************************)
EXTENDS Naturals, Sequences

CONSTANT Messages          (* the messages that may be written              *)

VARIABLES
  outcome,                 (* what each message's WriteMessage has reported *)
  order,                   (* the messages put into the channel, in order   *)
  received                 (* the messages ReadMessage has handed over      *)

channelVars == <<outcome, order, received>>

(* The message is already in the channel. *)
InChannel(m) == \E i \in 1..Len(order) : order[i] = m

Init ==
  /\ outcome = [m \in Messages |-> "idle"]
  /\ order = <<>>
  /\ received = <<>>

Begin(m) ==
  /\ outcome[m] = "idle"
  /\ outcome' = [outcome EXCEPT ![m] = "sending"]
  /\ UNCHANGED <<order, received>>

PutIn(m) ==
  /\ outcome[m] = "sending"
  /\ ~InChannel(m)
  /\ order' = Append(order, m)
  /\ UNCHANGED <<outcome, received>>

Succeed(m) ==
  /\ outcome[m] = "sending"
  /\ InChannel(m)
  /\ outcome' = [outcome EXCEPT ![m] = "ok"]
  /\ UNCHANGED <<order, received>>

Fail(m) ==
  /\ outcome[m] \in {"idle", "sending"}
  /\ ~InChannel(m)
  /\ outcome' = [outcome EXCEPT ![m] = "failed"]
  /\ UNCHANGED <<order, received>>

TakeOut ==
  /\ Len(received) < Len(order)
  /\ received' = Append(received, order[Len(received) + 1])
  /\ UNCHANGED <<outcome, order>>

Next ==
  \/ \E m \in Messages : Begin(m) \/ PutIn(m) \/ Succeed(m) \/ Fail(m)
  \/ TakeOut

Spec == Init /\ [][Next]_channelVars

=============================================================================
