---------------------------- MODULE StreamCodec -----------------------------
(***************************************************************************)
(* generic/generic.go: one direction of a connection between two Codecs.   *)
(* The near end's WriteMessage calls, one goroutine per message, encode    *)
(* into the shared buffered msgp.Writer under wmu; the far end's           *)
(* ReadMessage calls decode from the shared buffered msgp.Reader under rmu;*)
(* Close, on either end, takes no lock at all.                             *)
(*                                                                         *)
(* A message is a run of Size[m] parts, the pieces a buffer may be flushed *)
(* between.  Every part ever encoded stays in `stream`, and three indices  *)
(* cut it into the place where each part is now:                           *)
(*                                                                         *)
(*    1 .. consumed .. fetched .. flushed .. Len(stream)                   *)
(*      decoded  | msgp.Reader | connection | msgp.Writer                  *)
(***************************************************************************)
EXTENDS Naturals, Sequences, Selections

CONSTANTS
  Messages,       (* the messages written, each by a goroutine of its own   *)
  Plain,          (* those with a payload that is no msgp.Marshaler         *)
  Size,           (* how many parts each message is encoded into            *)
  Readers,        (* the goroutines that call ReadMessage                   *)
  WriterBuf,      (* parts the msgp.Writer buffers before it must write     *)
  ConnBuf,        (* parts the connection holds between its two ends        *)
  MayTimeout,     (* may a Write of the connection fail and a later succeed *)
  MayBreak,       (* may the network take the connection down on its own    *)
  None,           (* nobody holds the lock                                  *)
  Garbled         (* a message put together from parts of different ones    *)

ASSUME StreamAssumption ==
  /\ Plain \subseteq Messages
  /\ Size \in [Messages -> Nat \ {0}]
  /\ WriterBuf \in Nat \ {0}
  /\ ConnBuf \in Nat \ {0}
  /\ MayTimeout \in BOOLEAN
  /\ MayBreak \in BOOLEAN
  /\ None \notin Messages /\ None \notin Readers
  /\ Garbled \notin Messages

VARIABLES
  call,           (* call[m]: how far the WriteMessage of m has come        *)
  wmu,            (* the message whose goroutine holds wmu                  *)
  encoded,        (* how many parts the holder of wmu has encoded           *)
  stream,         (* every part encoded so far                              *)
  flushed,        (* how many of them the connection has accepted           *)
  end,            (* end["near"], end["far"]: has that Codec been closed    *)
  link,           (* the network between the two ends                       *)
  read,           (* read[r]: is r inside ReadMessage, has it given up      *)
  rmu,            (* the goroutine that holds rmu                           *)
  fetched,        (* how many parts the msgp.Reader has taken               *)
  consumed,       (* how many parts have been decoded                       *)
  wire,           (* Codec.wire: the parts of the message being decoded     *)
  received        (* the messages ReadMessage has handed to birpc           *)

writeVars == <<call, wmu, encoded, stream>>
connVars  == <<end, link>>
readVars  == <<read, rmu, fetched, consumed, wire, received>>
vars      == <<writeVars, flushed, connVars, readVars>>

Ends  == {"near", "far"}
Parts == [msg : Messages, part : Nat]

Min2(a, b) == IF a <= b THEN a ELSE b

Init ==
  /\ call = [m \in Messages |-> "idle"]
  /\ wmu = None
  /\ encoded = 0
  /\ stream = <<>>
  /\ flushed = 0
  /\ end = [e \in Ends |-> "open"]
  /\ link = "up"
  /\ read = [r \in Readers |-> "idle"]
  /\ rmu = None
  /\ fetched = 0
  /\ consumed = 0
  /\ wire = <<>>
  /\ received = <<>>

-----------------------------------------------------------------------------
(* WriteMessage *)

Buffered == Len(stream) - flushed
InFlight == flushed - fetched

(* ToWire comes before the lock and before anything is encoded: a payload  *)
(* that cannot be marshaled fails the call there and then.                 *)
ToWire(m) ==
  /\ call[m] = "idle"
  /\ call' = [call EXCEPT ![m] = IF m \in Plain THEN "failed" ELSE "locking"]
  /\ UNCHANGED <<wmu, encoded, stream, flushed, connVars, readVars>>

(* Mutant: WriteMessage without wmu. *)
WriteUnlocked(m) ==
  /\ call[m] = "locking"
  /\ wmu' = m
  /\ encoded' = 0
  /\ call' = [call EXCEPT ![m] = "encoding"]
  /\ UNCHANGED <<stream, flushed, connVars, readVars>>

LockWmu(m) ==
  /\ call[m] = "locking"
  /\ wmu = None
  /\ wmu' = m
  /\ encoded' = 0
  /\ call' = [call EXCEPT ![m] = "encoding"]
  /\ UNCHANGED <<stream, flushed, connVars, readVars>>

(* EncodeMsg appends to the msgp.Writer, which writes nothing out before   *)
(* its buffer is full; the last part leaves the call in Flush.             *)
EncodeMsg(m) ==
  /\ call[m] = "encoding"
  /\ Buffered < WriterBuf
  /\ stream' = Append(stream, [msg |-> m, part |-> encoded + 1])
  /\ encoded' = encoded + 1
  /\ call' = [call EXCEPT ![m] = IF encoded + 1 = Size[m] THEN "flushing" ELSE @]
  /\ UNCHANGED <<wmu, flushed, connVars, readVars>>

(* The msgp.Writer has to hand its buffer to the connection: it is full,   *)
(* or the call is in Flush.                                                *)
MustWrite(m) ==
  \/ call[m] = "encoding" /\ Buffered >= WriterBuf
  \/ call[m] = "flushing" /\ Buffered > 0

Writable == end["near"] # "closed" /\ link = "up"

ConnWrite(m) ==
  /\ MustWrite(m)
  /\ Writable
  /\ \E n \in 1..Min2(Buffered, ConnBuf - InFlight) : flushed' = flushed + n
  /\ UNCHANGED <<writeVars, connVars, readVars>>

(* A failed Write ends the call, in EncodeMsg or in Flush; the deferred    *)
(* Unlock runs, and what the connection did not take stays in the buffer.  *)
WriteError(m) ==
  /\ MustWrite(m)
  /\ ~Writable \/ MayTimeout
  /\ call' = [call EXCEPT ![m] = "failed"]
  /\ wmu' = None
  /\ UNCHANGED <<encoded, stream, flushed, connVars, readVars>>

(* Mutant: WriteMessage without the Flush. *)
WriteUnflushed(m) ==
  /\ call[m] = "flushing"
  /\ call' = [call EXCEPT ![m] = "ok"]
  /\ wmu' = None
  /\ UNCHANGED <<encoded, stream, flushed, connVars, readVars>>

WriteReturn(m) ==
  /\ call[m] = "flushing"
  /\ Buffered = 0
  /\ call' = [call EXCEPT ![m] = "ok"]
  /\ wmu' = None
  /\ UNCHANGED <<encoded, stream, flushed, connVars, readVars>>

WriteMessage(m) ==
  \/ ToWire(m) \/ LockWmu(m) \/ EncodeMsg(m)
  \/ ConnWrite(m) \/ WriteError(m) \/ WriteReturn(m)

-----------------------------------------------------------------------------
(* ReadMessage *)

(* Mutant: ReadMessage without rmu. *)
ReadUnlocked(r) ==
  /\ read[r] = "idle"
  /\ rmu' = r
  /\ read' = [read EXCEPT ![r] = "decoding"]
  /\ wire' = <<>>
  /\ UNCHANGED <<writeVars, flushed, connVars, fetched, consumed, received>>

(* Mutant: a new msgp.Reader for every message. *)
ReadFreshReader(r) ==
  /\ read[r] = "idle"
  /\ rmu = None
  /\ rmu' = r
  /\ read' = [read EXCEPT ![r] = "decoding"]
  /\ wire' = <<>>
  /\ consumed' = fetched
  /\ UNCHANGED <<writeVars, flushed, connVars, fetched, received>>

LockRmu(r) ==
  /\ read[r] = "idle"
  /\ rmu = None
  /\ rmu' = r
  /\ read' = [read EXCEPT ![r] = "decoding"]
  /\ wire' = <<>>
  /\ UNCHANGED <<writeVars, flushed, connVars, fetched, consumed, received>>

(* DecodeMsg knows from the array header how much a message takes. *)
Complete == wire # <<>> /\ Len(wire) = Size[wire[1].msg]

(* Mutant: the reader takes one part more than has arrived. *)
ConnOverread(r) ==
  /\ read[r] = "decoding"
  /\ ~Complete
  /\ consumed = fetched
  /\ end["far"] # "closed" /\ link = "up"
  /\ \E n \in 1..(InFlight + 1) : fetched' = fetched + n
  /\ UNCHANGED <<writeVars, flushed, connVars, read, rmu, consumed, wire, received>>

(* The msgp.Reader goes to the connection only for what it has not got,    *)
(* and may get more than the message at hand needs.                        *)
ConnRead(r) ==
  /\ read[r] = "decoding"
  /\ ~Complete
  /\ consumed = fetched
  /\ end["far"] # "closed" /\ link = "up"
  /\ \E n \in 1..InFlight : fetched' = fetched + n
  /\ UNCHANGED <<writeVars, flushed, connVars, read, rmu, consumed, wire, received>>

(* What comes next is the next part of a message. *)
Expected(p) == p.part = Len(wire) + 1

(* args and result are raw: a part that is out of place may just as well   *)
(* decode as one of them as be refused by ReadError.                       *)
DecodeMsg(r) ==
  /\ read[r] = "decoding"
  /\ ~Complete
  /\ consumed < fetched
  /\ wire' = Append(wire, stream[consumed + 1])
  /\ consumed' = consumed + 1
  /\ UNCHANGED <<writeVars, flushed, connVars, read, rmu, fetched, received>>

(* The message whose parts these are, if they are those of one message. *)
Assembled(parts) ==
  IF \A i \in 1..Len(parts) : parts[i] = [msg |-> parts[1].msg, part |-> i]
  THEN parts[1].msg
  ELSE Garbled

(* FromWire, and the deferred Unlock. *)
FromWire(r) ==
  /\ read[r] = "decoding"
  /\ Complete
  /\ received' = Append(received, Assembled(wire))
  /\ rmu' = None
  /\ read' = [read EXCEPT ![r] = "idle"]
  /\ UNCHANGED <<writeVars, flushed, connVars, fetched, consumed, wire>>

(* What DecodeMsg meets is not the next part of a message, or there is     *)
(* nothing more to come.  Serve returns on the first error, so r does not  *)
(* read again.                                                             *)
NoMoreToRead ==
  /\ consumed = fetched
  /\ \/ end["far"] = "closed"
     \/ link = "down"
     \/ end["near"] = "closed" /\ InFlight = 0

ReadError(r) ==
  /\ read[r] = "decoding"
  /\ ~Complete
  /\ \/ consumed < fetched /\ ~Expected(stream[consumed + 1])
     \/ NoMoreToRead
  /\ rmu' = None
  /\ read' = [read EXCEPT ![r] = "stopped"]
  /\ UNCHANGED <<writeVars, flushed, connVars, fetched, consumed, wire, received>>

ReadMessage(r) ==
  LockRmu(r) \/ ConnRead(r) \/ DecodeMsg(r) \/ FromWire(r) \/ ReadError(r)

-----------------------------------------------------------------------------
(* Close, and the connection *)

(* Somebody wants the endpoint gone: Serve has returned, a reply could not *)
(* be sent, or the program is done with it.                                *)
CallClose(e) ==
  /\ end[e] = "open"
  /\ end' = [end EXCEPT ![e] = "closing"]
  /\ UNCHANGED <<writeVars, flushed, link, readVars>>

(* Mutant: Close waits for whoever is writing or reading. *)
CloseLocked(e) ==
  /\ end[e] = "closing"
  /\ IF e = "near" THEN wmu = None ELSE rmu = None
  /\ end' = [end EXCEPT ![e] = "closed"]
  /\ UNCHANGED <<writeVars, flushed, link, readVars>>

Close(e) ==
  /\ end[e] = "closing"
  /\ end' = [end EXCEPT ![e] = "closed"]
  /\ UNCHANGED <<writeVars, flushed, link, readVars>>

(* The connection dies under a writer: a fault of the network, or the far  *)
(* end is gone and its system says so.                                     *)
LinkDown ==
  /\ link = "up"
  /\ MayBreak \/ end["far"] = "closed"
  /\ link' = "down"
  /\ UNCHANGED <<writeVars, flushed, end, readVars>>

Next ==
  \/ \E m \in Messages : WriteMessage(m)
  \/ \E r \in Readers : ReadMessage(r)
  \/ \E e \in Ends : CallClose(e) \/ Close(e)
  \/ LinkDown

Spec == Init /\ [][Next]_vars

-----------------------------------------------------------------------------
(* Fairness.  Goroutines run; nobody promises that the far end reads.      *)

WritersRun == \A m \in Messages : WF_vars(WriteMessage(m))
CloseRuns  == /\ \A e \in Ends : WF_vars(Close(e))
              /\ WF_vars(LinkDown /\ end["far"] = "closed")
ReadersRun == \A r \in Readers : WF_vars(ReadMessage(r))

(* The near end and Close make progress, the far end may have hung. *)
HungPeerSpec == Spec /\ WritersRun /\ CloseRuns

-----------------------------------------------------------------------------
(* Properties *)

(* Every variable stays in its range, and the indices stay in their order. *)
TypeOK ==
  /\ call \in [Messages ->
       {"idle", "locking", "encoding", "flushing", "ok", "failed"}]
  /\ wmu \in Messages \cup {None}
  /\ encoded \in Nat
  /\ stream \in Seq(Parts)
  /\ end \in [Ends -> {"open", "closing", "closed"}]
  /\ link \in {"up", "down"}
  /\ read \in [Readers -> {"idle", "decoding", "stopped"}]
  /\ rmu \in Readers \cup {None}
  /\ wire \in Seq(Parts)
  /\ received \in Seq(Messages \cup {Garbled})
  /\ consumed \in Nat /\ fetched \in Nat /\ flushed \in Nat
  /\ consumed <= fetched /\ fetched <= flushed /\ flushed <= Len(stream)

(* The part at i starts a message right after the end of another, or goes  *)
(* on with the message of the part before it.                              *)
Continues(i) ==
  \/ /\ stream[i].part = 1
     /\ i > 1 => stream[i-1].part = Size[stream[i-1].msg]
  \/ /\ i > 1
     /\ stream[i] = [msg |-> stream[i-1].msg, part |-> stream[i-1].part + 1]

(* What has reached the connection is whole messages back to back, but for *)
(* the one being written or cut off: goroutines writing at once never      *)
(* interleave, a payload that cannot be marshaled leaves nothing behind,   *)
(* and nothing follows a message that was cut off.                         *)
WholeMessages == \A i \in 1..flushed : Continues(i)

(* ReadMessage never hands birpc a message put together from several.      *)
NeverGarbled == \A i \in 1..Len(received) : received[i] # Garbled

(* The message that ends with this part. *)
Finishes == [p \in {[msg |-> m, part |-> Size[m]] : m \in Messages} |-> p.msg]

(* The messages whose last part the connection has accepted, in order. *)
Accepted == Selected(SubSeq(stream, 1, flushed), Finishes)

Reported(m) ==
  IF call[m] \in {"locking", "encoding", "flushing"} THEN "sending" ELSE call[m]

Channel == INSTANCE MessageChannel WITH
             outcome <- [m \in Messages |-> Reported(m)], order <- Accepted

(* The codec is a message channel: ReadMessage hands over, in order and    *)
(* once, exactly what the connection accepted; WriteMessage returns nil    *)
(* only for a message that is in, and an error only for one that is not    *)
(* and never will be.                                                      *)
ImplementsChannel == Channel!Spec

InWrite(m) == call[m] \in {"locking", "encoding", "flushing"}
AnyClosed  == \E e \in Ends : end[e] = "closed"

(* Close takes neither wmu nor rmu, so a peer that has stopped reading     *)
(* cannot keep it from returning; and closing either end gets everybody    *)
(* out of the codec: the goroutine blocked in a Write, the ones queued     *)
(* behind it on wmu and, if the goroutines of the far end run at all, the  *)
(* one blocked in a Read there.                                            *)
CloseLeavesNobodyInside ==
  /\ \A e \in Ends : end[e] = "closing" ~> end[e] = "closed"
  /\ \A m \in Messages : (InWrite(m) /\ AnyClosed) ~> ~InWrite(m)
  /\ ReadersRun =>
       \A r \in Readers : (read[r] = "decoding" /\ AnyClosed) ~> read[r] # "decoding"

(* As long as the goroutines of the far end run, a message reported as     *)
(* written is handed over there, unless the far end is closed or the       *)
(* network has gone down.                                                  *)
WrittenIsReceived ==
  ReadersRun => \A m \in Messages :
    call[m] = "ok" ~> \/ \E i \in 1..Len(received) : received[i] = m
                     \/ end["far"] = "closed" \/ link = "down"

=============================================================================
