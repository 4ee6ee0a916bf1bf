--------------------------- MODULE WebsocketCodec ---------------------------
(***************************************************************************)
(* websocket/websocket.go: one direction between two Codecs on a websocket.*)
(* A message goes out as one websocket message, in as many frames as its   *)
(* size takes; ReadMessage takes one websocket message at a time, decodes  *)
(* one message from it and ignores what else is in it.  The peer need not  *)
(* be a Codec: it may also send text, half a message, or more than one in  *)
(* a frame.                                                                *)
(*                                                                         *)
(* The websocket.Conn is outside the repository.  It is what the code uses *)
(* of it: a writer whose frames are final only when it is closed, write    *)
(* errors that are for good, a reader that skips the rest of the message   *)
(* before and ends with the message it is for.                             *)
(***************************************************************************)
EXTENDS Naturals, Sequences, SequencesExt, Selections

CONSTANTS
  Messages,       (* the messages written, each by a goroutine of its own   *)
  Plain,          (* those with a payload that is no msgp.Marshaler         *)
  Foreign,        (* what a peer that is no Codec sends                     *)
  ForeignSent,    (* what is in each of them, and where it is cut to frames *)
  Size,           (* how many parts a message is encoded into               *)
  Readers,        (* the goroutines that call ReadMessage                   *)
  FrameBuf,       (* parts the Writers buffer before a frame must go out    *)
  None,           (* nobody holds the lock                                  *)
  Garbled         (* a message put together from parts of different ones    *)

Parts  == [msg : Messages \cup Foreign, part : Nat]
Frames == [kind : {"text", "binary", "more"}, parts : Seq(Parts), fin : BOOLEAN,
           from : Messages \cup Foreign]

(* A peer that is no Codec has a websocket.Conn or a browser to frame what *)
(* it sends: its first frame carries the type, its last one is final.      *)
WellFramed(s) ==
  /\ s.kind \in {"text", "binary"}
  /\ s.parts \in Seq([msg : Foreign, part : Nat])
  /\ s.cuts \in Seq(0..Len(s.parts)) /\ s.cuts # <<>>
  /\ \A i, j \in 1..Len(s.cuts) : i <= j => s.cuts[i] <= s.cuts[j]
  /\ s.cuts[Len(s.cuts)] = Len(s.parts)

ForeignFrames(f) ==
  LET s == ForeignSent[f]
  IN  [i \in 1..Len(s.cuts) |->
         [kind  |-> IF i = 1 THEN s.kind ELSE "more",
          parts |-> SubSeq(s.parts, (IF i = 1 THEN 0 ELSE s.cuts[i-1]) + 1, s.cuts[i]),
          fin   |-> i = Len(s.cuts),
          from  |-> f]]

ASSUME WebsocketAssumption ==
  /\ Plain \subseteq Messages
  /\ Messages \cap Foreign = {}
  /\ Size \in [Messages \cup Foreign -> Nat \ {0}]
  /\ FrameBuf \in Nat \ {0}
  /\ None \notin Messages \cup Readers
  /\ Garbled \notin Messages \cup Foreign
  /\ {"ErrInvalidMsg", "EOF"} \cap Messages = {}
  /\ \A f \in Foreign : WellFramed(ForeignSent[f])

VARIABLES
  call,           (* call[m]: how far the WriteMessage of m has come        *)
  wmu,            (* the message whose goroutine holds wmu                  *)
  buffered,       (* the parts encoded and in no frame yet                  *)
  encoded,        (* how many parts of its message wmu's holder has encoded *)
  writeErr,       (* the Conn has failed a write                            *)
  frames,         (* the frames the connection has accepted                 *)
  closed,         (* the ends whose Codec has been closed                   *)
  link,           (* the network between the two ends                       *)
  read,           (* how far the ReadMessage of each reader is              *)
  rmu,            (* the goroutine that holds rmu                           *)
  taken,          (* how many frames the far end has taken                  *)
  have,           (* the parts in c.r that are not decoded                  *)
  results         (* what ReadMessage made of each websocket message        *)

writeVars == <<call, wmu, buffered, encoded, writeErr>>
connVars  == <<frames, closed, link>>
readVars  == <<read, rmu, taken, have, results>>
vars      == <<writeVars, connVars, readVars>>

Init ==
  /\ call = [m \in Messages |-> "idle"]
  /\ wmu = None /\ buffered = <<>> /\ encoded = 0 /\ writeErr = FALSE
  /\ frames = <<>> /\ closed = {} /\ link = "up"
  /\ read = [r \in Readers |-> "idle"]
  /\ rmu = None /\ taken = 0 /\ have = <<>> /\ results = <<>>

Set(f, x, v) == [f EXCEPT ![x] = v]

-----------------------------------------------------------------------------
(* WriteMessage *)

ToWire(m) ==
  /\ call[m] = "idle"
  /\ call' = Set(call, m, IF m \in Plain THEN "failed" ELSE "locking")
  /\ UNCHANGED <<wmu, buffered, encoded, writeErr, connVars, readVars>>

(* Mutant: WriteMessage without wmu. *)
WriteUnlocked(m) ==
  /\ call[m] = "locking"
  /\ wmu' = m
  /\ call' = Set(call, m, "starting")
  /\ UNCHANGED <<buffered, encoded, writeErr, connVars, readVars>>

LockWmu(m) ==
  /\ call[m] = "locking"
  /\ wmu = None
  /\ wmu' = m
  /\ call' = Set(call, m, "starting")
  /\ UNCHANGED <<buffered, encoded, writeErr, connVars, readVars>>

Fail(m) ==
  /\ call' = Set(call, m, "failed")
  /\ wmu' = None

(* NextWriter, which fails once a write has failed, and c.w.Reset. *)
NextWriter(m) ==
  /\ call[m] = "starting"
  /\ IF writeErr THEN Fail(m) /\ UNCHANGED <<buffered, encoded>>
     ELSE /\ buffered' = <<>> /\ encoded' = 0
          /\ call' = Set(call, m, "encoding")
          /\ UNCHANGED wmu
  /\ UNCHANGED <<writeErr, connVars, readVars>>

EncodeMsg(m) ==
  /\ call[m] = "encoding"
  /\ Len(buffered) < FrameBuf
  /\ buffered' = Append(buffered, [msg |-> m, part |-> encoded + 1])
  /\ encoded' = encoded + 1
  /\ call' = Set(call, m, IF encoded + 1 = Size[m] THEN "closing" ELSE "encoding")
  /\ UNCHANGED <<wmu, writeErr, connVars, readVars>>

(* The first frame of a websocket message carries its type. *)
Kind(m) ==
  IF frames # <<>> /\ ~Last(frames).fin THEN "more" ELSE "binary"

WriteFrame(m, final) ==
  frames' = Append(frames, [kind |-> Kind(m), parts |-> buffered, fin |-> final, from |-> m])

Writable == "near" \notin closed /\ link = "up"

(* The buffers are full and the message goes on in another frame. *)
FlushFrame(m) ==
  /\ call[m] = "encoding" /\ Len(buffered) >= FrameBuf
  /\ Writable
  /\ WriteFrame(m, FALSE)
  /\ buffered' = <<>>
  /\ UNCHANGED <<call, wmu, encoded, writeErr, closed, link, readVars>>

(* Flush and w.Close: the final frame. *)
CloseWriter(m) ==
  /\ call[m] = "closing"
  /\ Writable
  /\ WriteFrame(m, TRUE)
  /\ buffered' = <<>>
  /\ call' = Set(call, m, "closed")
  /\ UNCHANGED <<wmu, encoded, writeErr, closed, link, readVars>>

(* Mutant: nil is returned whatever w.Close says. *)
ReturnUnclosed(m) ==
  /\ call[m] \in {"closing", "closed"}
  /\ call' = Set(call, m, "ok")
  /\ wmu' = None
  /\ UNCHANGED <<buffered, encoded, writeErr, connVars, readVars>>

WriteReturn(m) ==
  /\ call[m] = "closed"
  /\ call' = Set(call, m, "ok")
  /\ wmu' = None
  /\ UNCHANGED <<buffered, encoded, writeErr, connVars, readVars>>

(* A write of the connection fails, whatever for; the Conn remembers, so   *)
(* the w.Close on the way out writes nothing either.                       *)
WriteError(m) ==
  /\ \/ call[m] = "encoding" /\ Len(buffered) >= FrameBuf
     \/ call[m] = "closing"
  /\ writeErr' = TRUE
  /\ Fail(m)
  /\ UNCHANGED <<buffered, encoded, connVars, readVars>>

(* A peer that is no Codec sends a websocket message of its own, between  *)
(* others.                                                                 *)
SendForeign(f) ==
  /\ wmu = None
  /\ Writable /\ ~writeErr
  /\ \A i \in 1..Len(frames) : frames[i].from # f
  /\ frames' = frames \o ForeignFrames(f)
  /\ UNCHANGED <<writeVars, closed, link, readVars>>

WriteMessage(m) ==
  \/ ToWire(m) \/ LockWmu(m) \/ NextWriter(m) \/ EncodeMsg(m)
  \/ FlushFrame(m) \/ CloseWriter(m) \/ WriteReturn(m) \/ WriteError(m)

-----------------------------------------------------------------------------
(* ReadMessage *)

LockRmu(r) ==
  /\ read[r] = "idle"
  /\ rmu = None
  /\ rmu' = r
  /\ read' = Set(read, r, "next")
  /\ UNCHANGED <<writeVars, connVars, taken, have, results>>

(* Every return releases rmu. *)
Return(r, then) ==
  /\ rmu' = None
  /\ read' = Set(read, r, then)

FrameReady == taken < Len(frames) /\ "far" \notin closed /\ link = "up"
NextFrame  == frames[taken + 1]

(* Mutant: one frame too many is skipped. *)
SkipTwo(r) ==
  /\ read[r] = "next"
  /\ FrameReady /\ NextFrame.kind = "more"
  /\ taken' = taken + 2
  /\ UNCHANGED <<writeVars, connVars, read, rmu, have, results>>

(* NextReader skips what is left of the message before. *)
SkipFrame(r) ==
  /\ read[r] = "next"
  /\ FrameReady /\ NextFrame.kind = "more"
  /\ taken' = taken + 1
  /\ UNCHANGED <<writeVars, connVars, read, rmu, have, results>>

(* Mutant: no c.r.Reset, what is left of a message stays in the Reader. *)
NextReaderNoReset(r) ==
  /\ read[r] = "next"
  /\ FrameReady /\ NextFrame.kind # "more"
  /\ taken' = taken + 1
  /\ IF NextFrame.kind = "binary"
     THEN /\ have' = have \o NextFrame.parts
          /\ read' = Set(read, r, "decoding")
          /\ UNCHANGED <<rmu, results>>
     ELSE /\ results' = Append(results, "ErrInvalidMsg")
          /\ Return(r, "idle")
          /\ UNCHANGED have
  /\ UNCHANGED <<writeVars, connVars>>

(* NextReader, the check of the type, and c.r.Reset. *)
NextReader(r) ==
  /\ read[r] = "next"
  /\ FrameReady /\ NextFrame.kind # "more"
  /\ taken' = taken + 1
  /\ IF NextFrame.kind = "binary"
     THEN /\ have' = NextFrame.parts
          /\ read' = Set(read, r, "decoding")
          /\ UNCHANGED <<rmu, results>>
     ELSE /\ results' = Append(results, "ErrInvalidMsg")
          /\ Return(r, "idle")
          /\ UNCHANGED have
  /\ UNCHANGED <<writeVars, connVars>>

(* The array header tells how much a message takes. *)
Whole(parts) == parts # <<>> /\ Len(parts) >= Size[parts[1].msg]
Ended        == frames[taken].fin

(* The message whose parts these are, if they are those of one message. *)
Assembled(parts) ==
  LET m == parts[1].msg
  IN  IF \A i \in 1..Size[m] : parts[i] = [msg |-> m, part |-> i] THEN m ELSE Garbled

(* DecodeMsg goes on into the next frame of the websocket message. *)
DecodeMsg(r) ==
  /\ read[r] = "decoding"
  /\ ~Whole(have) /\ ~Ended
  /\ FrameReady
  /\ have' = have \o NextFrame.parts
  /\ taken' = taken + 1
  /\ UNCHANGED <<writeVars, connVars, read, rmu, results>>

FromWire(r) ==
  /\ read[r] = "decoding"
  /\ Whole(have)
  /\ results' = Append(results, Assembled(have))
  /\ have' = SubSeq(have, Size[have[1].msg] + 1, Len(have))
  /\ Return(r, "idle")
  /\ UNCHANGED <<writeVars, connVars, taken>>

(* The websocket message has ended and DecodeMsg wants more. *)
DecodeError(r) ==
  /\ read[r] = "decoding"
  /\ ~Whole(have) /\ Ended
  /\ results' = Append(results, "EOF")
  /\ Return(r, "idle")
  /\ UNCHANGED <<writeVars, connVars, taken, have>>

(* The connection gives no more frames, now or later. *)
ReadError(r) ==
  /\ \/ read[r] = "next"
     \/ read[r] = "decoding" /\ ~Whole(have) /\ ~Ended
  /\ \/ "far" \in closed \/ link = "down"
     \/ "near" \in closed /\ taken = Len(frames)
  /\ Return(r, "stopped")
  /\ UNCHANGED <<writeVars, connVars, taken, have, results>>

ReadMessage(r) ==
  \/ LockRmu(r) \/ SkipFrame(r) \/ NextReader(r) \/ DecodeMsg(r)
  \/ FromWire(r) \/ DecodeError(r) \/ ReadError(r)

-----------------------------------------------------------------------------
(* Close, at either end, whatever is going on. *)
Close(e) ==
  /\ e \notin closed
  /\ closed' = closed \cup {e}
  /\ UNCHANGED <<writeVars, frames, link, readVars>>

LinkDown ==
  /\ link = "up"
  /\ link' = "down"
  /\ UNCHANGED <<writeVars, frames, closed, readVars>>

Next ==
  \/ \E m \in Messages : WriteMessage(m)
  \/ \E f \in Foreign : SendForeign(f)
  \/ \E r \in Readers : ReadMessage(r)
  \/ \E e \in {"near", "far"} : Close(e)
  \/ LinkDown

Spec == Init /\ [][Next]_vars

-----------------------------------------------------------------------------
(* Properties *)

(* Every variable stays in its range. *)
TypeOK ==
  /\ call \in [Messages -> {"idle", "locking", "starting", "encoding", "closing",
                            "closed", "ok", "failed"}]
  /\ wmu \in Messages \cup {None}
  /\ buffered \in Seq(Parts) /\ encoded \in Nat /\ writeErr \in BOOLEAN
  /\ frames \in Seq(Frames) /\ closed \subseteq {"near", "far"} /\ link \in {"up", "down"}
  /\ read \in [Readers -> {"idle", "next", "decoding", "stopped"}]
  /\ rmu \in Readers \cup {None}
  /\ taken \in 0..Len(frames)
  /\ have \in Seq(Parts)
  /\ results \in Seq(Messages \cup Foreign \cup {"ErrInvalidMsg", "EOF", Garbled})

(* A websocket message is one writer's from its first frame to its last,   *)
(* and nothing follows one that was never finished.                        *)
FramesWhole ==
  \A i \in 2..Len(frames) :
    IF frames[i].kind = "more"
    THEN ~frames[i-1].fin /\ frames[i].from = frames[i-1].from
    ELSE frames[i-1].fin

(* The first frames of the websocket messages on the wire. *)
Firsts == Selected(frames, [f \in {g \in Frames : g.kind # "more"} |-> f])

(* All that is in a websocket message, however many frames it takes. *)
Content(x) ==
  IF x \in Messages THEN [i \in 1..Size[x] |-> [msg |-> x, part |-> i]]
  ELSE ForeignSent[x].parts

(* What a Codec makes of it when nothing else is on the connection. *)
Alone(kind, parts) ==
  IF kind = "text" THEN "ErrInvalidMsg"
  ELSE IF Whole(parts) THEN Assembled(parts)
  ELSE "EOF"

(* What ReadMessage makes of a websocket message depends on nothing else   *)
(* that was on the connection: text is refused, half a message is an error,*)
(* trailing bytes are dropped, and the next message is read as if neither  *)
(* had been there.                                                         *)
FramesIsolated ==
  \A i \in 1..Len(results) :
    /\ i <= Len(Firsts)
    /\ results[i] = Alone(Firsts[i].kind, Content(Firsts[i].from))

(* The messages whose final frame is on the wire, in order. *)
Accepted ==
  Selected(frames, [f \in {g \in Frames : g.fin /\ g.from \in Messages} |-> f.from])

Reported(m) ==
  IF call[m] \in {"locking", "starting", "encoding", "closing", "closed"}
  THEN "sending"
  ELSE call[m]

Channel == INSTANCE MessageChannel WITH
             outcome <- [m \in Messages |-> Reported(m)], order <- Accepted,
             received <- Selected(results, [x \in Messages |-> x])

(* The codec is a message channel, between whatever else a peer sends:     *)
(* WriteMessage returns nil only for a message whose final frame is out,   *)
(* and an error only for one that will never be complete; ReadMessage      *)
(* hands the complete ones over in order and once.                         *)
ImplementsChannel == Channel!Spec

=============================================================================
