------------------------- MODULE StreamCodecProofs --------------------------
(***************************************************************************)
(* What StreamCodec promises for every set of messages and readers, every  *)
(* message size and every size of buffer, provided a connection that has   *)
(* refused one Write refuses every later one.                              *)
(***************************************************************************)
EXTENDS StreamCodec, SelectionsProofs, TLAPS

-----------------------------------------------------------------------------
(* Types *)

(* The initial state is well typed. *)
LEMMA InitTypeOK == Init => TypeOK
  BY DEF Init, TypeOK, Ends

(* A step of a WriteMessage keeps every variable in its range. *)
LEMMA WriteTypeOK ==
  ASSUME TypeOK, NEW m \in Messages, WriteMessage(m)
  PROVE  TypeOK'
<1>1. CASE ToWire(m)
  BY <1>1 DEF TypeOK, ToWire, connVars, readVars
<1>2. CASE LockWmu(m)
  BY <1>2 DEF TypeOK, LockWmu, connVars, readVars
<1>3. CASE EncodeMsg(m)
  <2>1. [msg |-> m, part |-> encoded + 1] \in Parts
    BY DEF TypeOK, Parts
  <2>2. stream' \in Seq(Parts) /\ Len(stream') = Len(stream) + 1
    BY <1>3, <2>1 DEF TypeOK, EncodeMsg
  <2>3. call' \in [Messages ->
          {"idle", "locking", "encoding", "flushing", "ok", "failed"}]
    BY <1>3 DEF TypeOK, EncodeMsg
  <2> QED
    BY <1>3, <2>2, <2>3 DEF TypeOK, EncodeMsg, connVars, readVars
<1>4. CASE ConnWrite(m)
  <2>1. PICK n \in 1..Min2(Buffered, ConnBuf - InFlight) : flushed' = flushed + n
    BY <1>4 DEF ConnWrite
  <2>2. flushed' \in Nat /\ flushed <= flushed' /\ flushed' <= Len(stream)
    BY <2>1, StreamAssumption DEF TypeOK, Min2, Buffered, InFlight, StreamAssumption
  <2> QED
    BY <1>4, <2>2 DEF TypeOK, ConnWrite, writeVars, connVars, readVars
<1>5. CASE WriteError(m)
  BY <1>5 DEF TypeOK, WriteError, connVars, readVars
<1>6. CASE WriteReturn(m)
  BY <1>6 DEF TypeOK, WriteReturn, connVars, readVars
<1> QED
  BY <1>1, <1>2, <1>3, <1>4, <1>5, <1>6 DEF WriteMessage

(* What FromWire hands over is a message or the mark of a garbled one. *)
LEMMA AssembledType ==
  ASSUME NEW parts \in Seq(Parts), parts # <<>>
  PROVE  Assembled(parts) \in Messages \cup {Garbled}
<1>1. parts[1] \in Parts
  OBVIOUS
<1>2. parts[1].msg \in Messages
  BY <1>1 DEF Parts
<1> QED
  BY <1>2 DEF Assembled

(* A step of a ReadMessage keeps every variable in its range. *)
LEMMA ReadTypeOK ==
  ASSUME TypeOK, NEW r \in Readers, ReadMessage(r)
  PROVE  TypeOK'
<1>1. CASE LockRmu(r)
  BY <1>1 DEF TypeOK, LockRmu, writeVars, connVars
<1>2. CASE ConnRead(r)
  <2>1. PICK n \in 1..InFlight : fetched' = fetched + n
    BY <1>2 DEF ConnRead
  <2>2. fetched' \in Nat /\ fetched <= fetched' /\ fetched' <= flushed
    BY <2>1 DEF TypeOK, InFlight
  <2> QED
    BY <1>2, <2>2 DEF TypeOK, ConnRead, writeVars, connVars
<1>3. CASE DecodeMsg(r)
  <2>1. stream[consumed + 1] \in Parts
    BY <1>3 DEF TypeOK, DecodeMsg
  <2> QED
    BY <1>3, <2>1 DEF TypeOK, DecodeMsg, writeVars, connVars
<1>4. CASE FromWire(r)
  <2>1. Assembled(wire) \in Messages \cup {Garbled}
    BY <1>4, AssembledType DEF FromWire, Complete, TypeOK
  <2> QED
    BY <1>4, <2>1 DEF TypeOK, FromWire, writeVars, connVars
<1>5. CASE ReadError(r)
  BY <1>5 DEF TypeOK, ReadError, writeVars, connVars
<1> QED
  BY <1>1, <1>2, <1>3, <1>4, <1>5 DEF ReadMessage

(* So does every step of the codec. *)
LEMMA NextTypeOK == TypeOK /\ [Next]_vars => TypeOK'
<1> SUFFICES ASSUME TypeOK, [Next]_vars
             PROVE  TypeOK'
  OBVIOUS
<1>1. ASSUME NEW m \in Messages, WriteMessage(m)
      PROVE  TypeOK'
  BY <1>1, WriteTypeOK
<1>2. ASSUME NEW r \in Readers, ReadMessage(r)
      PROVE  TypeOK'
  BY <1>2, ReadTypeOK
<1>3. ASSUME NEW e \in Ends, CallClose(e) \/ Close(e)
      PROVE  TypeOK'
  BY <1>3 DEF TypeOK, CallClose, Close, writeVars, readVars
<1>4. CASE LinkDown
  BY <1>4 DEF TypeOK, LinkDown, writeVars, readVars
<1>5. CASE UNCHANGED vars
  BY <1>5 DEF TypeOK, vars, writeVars, connVars, readVars
<1> QED
  BY <1>1, <1>2, <1>3, <1>4, <1>5 DEF Next

(* Every variable stays in its range, and the four indices that cut the    *)
(* stream of parts into decoded, read, in flight and buffered never cross. *)
THEOREM TypeCorrect == Spec => []TypeOK
<1> QED
  BY InitTypeOK, NextTypeOK, PTL DEF Spec

-----------------------------------------------------------------------------
(* Writers *)

(* The part at i finishes its message; so does the empty stream. *)
Boundary(i) == i = 0 \/ stream[i].part = Size[stream[i].msg]

(* What a goroutine inside EncodeMsg or Flush has put at the end of the    *)
(* stream.                                                                 *)
Encoding(m) == call[m] \in {"encoding", "flushing"}

HolderInv ==
  /\ \A m \in Messages : Encoding(m) => wmu = m
  /\ \A m \in Messages : wmu = m => Encoding(m)
  /\ \A m \in Messages : call[m] = "encoding" => encoded < Size[m]
  /\ \A i \in 1..Len(stream) : stream[i].part \in 1..Size[stream[i].msg]

(* As long as no Write has been refused, the whole stream, the buffered    *)
(* rest of it included, is whole messages back to back, and only the       *)
(* holder of wmu is in the middle of one.                                  *)
StreamInv ==
  Writable =>
    /\ \A i \in 1..Len(stream) : Continues(i)
    /\ wmu = None => Boundary(Len(stream))
    /\ \A m \in Messages :
         /\ call[m] = "encoding" =>
              /\ encoded = 0 => Boundary(Len(stream))
              /\ encoded > 0 =>
                   /\ Len(stream) > 0
                   /\ stream[Len(stream)] = [msg |-> m, part |-> encoded]
         /\ call[m] = "flushing" => Boundary(Len(stream))

(* WholeMessages is not inductive: that what is flushed next goes on where *)
(* the connection left off takes all of the stream, buffered parts too.    *)
WriterInv == TypeOK /\ HolderInv /\ StreamInv /\ WholeMessages

(* The codec starts with nothing encoded and nobody at the lock. *)
LEMMA InitWriterInv == Init => WriterInv
<1> SUFFICES ASSUME Init
             PROVE  WriterInv
  OBVIOUS
<1>1. TypeOK
  BY InitTypeOK
<1>2. HolderInv
  BY StreamAssumption DEF Init, HolderInv, Encoding, StreamAssumption
<1>3. StreamInv
  BY DEF Init, StreamInv, Boundary
<1>4. WholeMessages
  BY DEF Init, WholeMessages
<1> QED
  BY <1>1, <1>2, <1>3, <1>4 DEF WriterInv

(* EncodeMsg goes on with its message: only the part it appends is new, and*)
(* that part continues the stream.                                         *)
LEMMA EncodeContinues ==
  ASSUME WriterInv, Writable, NEW m \in Messages, EncodeMsg(m)
  PROVE  /\ Len(stream') = Len(stream) + 1
         /\ stream'[Len(stream')] = [msg |-> m, part |-> encoded + 1]
         /\ \A i \in 1..Len(stream') : Continues(i)'
<1>1. stream \in Seq(Parts) /\ encoded \in Nat /\ encoded < Size[m]
  BY DEF WriterInv, TypeOK, HolderInv, EncodeMsg
<1>2. [msg |-> m, part |-> encoded + 1] \in Parts
  BY <1>1 DEF Parts
<1>3. /\ Len(stream') = Len(stream) + 1
      /\ stream'[Len(stream')] = [msg |-> m, part |-> encoded + 1]
      /\ \A i \in 1..Len(stream) : stream'[i] = stream[i]
  BY <1>1, <1>2 DEF EncodeMsg
<1>4. ASSUME NEW i \in 1..Len(stream)
      PROVE  Continues(i)'
  <2>1. Continues(i)
    BY DEF WriterInv, StreamInv
  <2>2. i > 1 => i - 1 \in 1..Len(stream)
    BY <1>1
  <2> QED
    BY <1>3, <2>1, <2>2 DEF Continues
<1>5. ASSUME NEW i \in Nat, i = Len(stream) + 1
      PROVE  Continues(i)'
  <2>1. Len(stream) \in Nat
    BY <1>1
  <2>2. CASE encoded = 0
    <3>1. Boundary(Len(stream))
      BY <2>2 DEF WriterInv, StreamInv, EncodeMsg
    <3>2. Len(stream) > 0 => stream'[Len(stream)] = stream[Len(stream)]
      BY <1>3, <2>1
    <3>3. stream'[i].part = 1
      BY <1>3, <1>5, <2>2
    <3> QED
      BY <1>3, <1>5, <2>1, <3>1, <3>2, <3>3 DEF Boundary, Continues
  <2>3. CASE encoded > 0
    <3>1. /\ Len(stream) > 0
          /\ stream[Len(stream)] = [msg |-> m, part |-> encoded]
      BY <2>3 DEF WriterInv, StreamInv, EncodeMsg
    <3>2. stream'[Len(stream)] = [msg |-> m, part |-> encoded]
      BY <1>3, <2>1, <3>1
    <3>3. stream'[i] = [msg |-> m, part |-> encoded + 1]
      BY <1>3, <1>5
    <3> QED
      BY <1>5, <2>1, <3>1, <3>2, <3>3 DEF Continues
  <2> QED
    BY <1>1, <2>2, <2>3
<1>6. ASSUME NEW i \in 1..Len(stream')
      PROVE  i \in 1..Len(stream) \/ (i \in Nat /\ i = Len(stream) + 1)
  BY <1>1, <1>3
<1> QED
  BY <1>3, <1>4, <1>5, <1>6

(* A step that leaves stream, the lock and the writers alone, and does not *)
(* bring a dead connection back, leaves the writers' invariant alone.      *)
LEMMA WriterInvStutter ==
  ASSUME WriterInv, TypeOK', UNCHANGED <<writeVars, flushed>>,
         Writable' => Writable
  PROVE  WriterInv'
<1>1. HolderInv'
  BY DEF WriterInv, HolderInv, Encoding, writeVars
<1>2. StreamInv'
  <2> SUFFICES ASSUME Writable'
               PROVE  StreamInv'
    BY DEF StreamInv
  <2>1. StreamInv /\ Writable
    BY DEF WriterInv
  <2> QED
    BY <2>1 DEF StreamInv, Continues, Boundary, writeVars
<1>3. WholeMessages'
  BY DEF WriterInv, WholeMessages, Continues, writeVars
<1> QED
  BY <1>1, <1>2, <1>3 DEF WriterInv

(* EncodeMsg keeps the writers' invariant, on a live connection or not. *)
LEMMA EncodeWriterInv ==
  ASSUME WriterInv, TypeOK', NEW m \in Messages, EncodeMsg(m)
  PROVE  WriterInv'
<1>1. stream \in Seq(Parts) /\ encoded \in Nat /\ wmu = m
  BY DEF WriterInv, TypeOK, HolderInv, Encoding, EncodeMsg
<1>2. [msg |-> m, part |-> encoded + 1] \in Parts
  BY <1>1 DEF Parts
<1>3. /\ Len(stream') = Len(stream) + 1
      /\ stream'[Len(stream')] = [msg |-> m, part |-> encoded + 1]
      /\ \A i \in 1..Len(stream) : stream'[i] = stream[i]
  BY <1>1, <1>2 DEF EncodeMsg
<1>4. \A n \in Messages : call'[n] = IF n # m THEN call[n]
                                   ELSE IF encoded + 1 = Size[m] THEN "flushing"
                                   ELSE "encoding"
  BY DEF WriterInv, TypeOK, EncodeMsg
<1>5. encoded < Size[m] /\ encoded' = encoded + 1 /\ Size[m] \in Nat
  BY StreamAssumption DEF WriterInv, HolderInv, EncodeMsg, StreamAssumption
<1>6. ASSUME NEW n \in Messages, call'[n] = "encoding"
      PROVE  n = m /\ encoded' < Size[m]
  <2>1. n = m
    BY <1>1, <1>4, <1>6 DEF WriterInv, HolderInv, Encoding
  <2>2. encoded + 1 # Size[m]
    BY <1>4, <1>6, <2>1
  <2> QED
    BY <1>1, <1>5, <2>1, <2>2
<1>7. HolderInv'
  <2>1. \A i \in 1..Len(stream') : stream'[i].part \in 1..Size[stream'[i].msg]
    BY <1>1, <1>3, <1>5 DEF WriterInv, HolderInv
  <2>2. \A n \in Messages : Encoding(n)' <=> Encoding(n)
    BY <1>4 DEF Encoding, EncodeMsg
  <2> QED
    BY <1>6, <2>1, <2>2 DEF WriterInv, HolderInv, EncodeMsg
<1>8. StreamInv'
  <2> SUFFICES ASSUME Writable'
               PROVE  StreamInv'
    BY DEF StreamInv
  <2>1. Writable
    BY DEF Writable, EncodeMsg, connVars
  <2>2. \A i \in 1..Len(stream') : Continues(i)'
    BY <2>1, EncodeContinues
  <2>3. wmu' # None
    BY <1>1, StreamAssumption DEF EncodeMsg, StreamAssumption
  <2>4. ASSUME NEW n \in Messages, call'[n] = "flushing"
        PROVE  n = m /\ encoded + 1 = Size[m]
    BY <1>1, <1>4, <2>4 DEF WriterInv, HolderInv, Encoding
  <2>5. ASSUME NEW n \in Messages, call'[n] = "flushing"
        PROVE  Boundary(Len(stream))'
    BY <1>3, <2>4, <2>5 DEF Boundary
  <2> QED
    BY <1>1, <1>3, <1>5, <1>6, <2>2, <2>3, <2>5 DEF StreamInv
<1>9. WholeMessages'
  <2>1. flushed' = flushed /\ flushed \in Nat /\ flushed <= Len(stream)
    BY DEF WriterInv, TypeOK, EncodeMsg
  <2>2. ASSUME NEW i \in 1..flushed
        PROVE  Continues(i)'
    <3>1. Continues(i) /\ i \in 1..Len(stream)
      BY <1>1, <2>1 DEF WriterInv, WholeMessages
    <3>2. i > 1 => i - 1 \in 1..Len(stream)
      BY <1>1, <3>1
    <3> QED
      BY <1>3, <3>1, <3>2 DEF Continues
  <2> QED
    BY <2>1, <2>2 DEF WholeMessages
<1> QED
  BY <1>7, <1>8, <1>9 DEF WriterInv

(* So does every other step of a WriteMessage, as long as a refused Write  *)
(* means a dead connection.                                                *)
LEMMA WriteWriterInv ==
  ASSUME ~MayTimeout, WriterInv, TypeOK', NEW m \in Messages, WriteMessage(m)
  PROVE  WriterInv'
<1> USE StreamAssumption DEF StreamAssumption
<1>1. CASE ToWire(m)
  <2>1. HolderInv'
    BY <1>1 DEF WriterInv, TypeOK, HolderInv, Encoding, ToWire
  <2>2. StreamInv'
    BY <1>1 DEF WriterInv, TypeOK, StreamInv, Writable, Continues, Boundary,
                ToWire, connVars
  <2>3. WholeMessages'
    BY <1>1 DEF WriterInv, WholeMessages, Continues, ToWire
  <2> QED
    BY <2>1, <2>2, <2>3 DEF WriterInv
<1>2. CASE LockWmu(m)
  <2>1. HolderInv'
    BY <1>2 DEF WriterInv, TypeOK, HolderInv, Encoding, LockWmu
  <2>2. \A n \in Messages : n # m => call'[n] \notin {"encoding", "flushing"}
    BY <1>2 DEF WriterInv, TypeOK, HolderInv, Encoding, LockWmu
  <2>3. StreamInv'
    <3> SUFFICES ASSUME Writable'
                 PROVE  StreamInv'
      BY DEF StreamInv
    <3>1. /\ \A i \in 1..Len(stream) : Continues(i)
          /\ Boundary(Len(stream))
      BY <1>2 DEF WriterInv, StreamInv, Writable, LockWmu, connVars
    <3>2. wmu' # None /\ encoded' = 0 /\ stream' = stream
      BY <1>2 DEF LockWmu
    <3>3. \A n \in Messages : n = m => call'[n] = "encoding"
      BY <1>2 DEF WriterInv, TypeOK, LockWmu
    <3>4. /\ \A i \in 1..Len(stream') : Continues(i)'
          /\ Boundary(Len(stream))'
      BY <3>1, <3>2 DEF Continues, Boundary
    <3> QED
      BY <2>2, <3>2, <3>3, <3>4 DEF StreamInv
  <2>4. WholeMessages'
    BY <1>2 DEF WriterInv, WholeMessages, Continues, LockWmu
  <2> QED
    BY <2>1, <2>3, <2>4 DEF WriterInv
<1>3. CASE EncodeMsg(m)
  BY <1>3, EncodeWriterInv
<1>4. CASE ConnWrite(m)
  <2>1. HolderInv'
    BY <1>4 DEF WriterInv, HolderInv, Encoding, ConnWrite, writeVars
  <2>2. StreamInv'
    BY <1>4 DEF WriterInv, StreamInv, Writable, Continues, Boundary, ConnWrite,
                writeVars, connVars
  <2>3. WholeMessages'
    <3>1. \A i \in 1..Len(stream) : Continues(i)
      BY <1>4 DEF WriterInv, StreamInv, ConnWrite
    <3>2. flushed' \in Nat /\ flushed' <= Len(stream) /\ stream' = stream
      BY <1>4 DEF TypeOK, ConnWrite, writeVars
    <3>3. \A i \in 1..flushed' : i \in 1..Len(stream)
      BY <3>2 DEF WriterInv, TypeOK
    <3> QED
      BY <3>1, <3>2, <3>3 DEF WholeMessages, Continues
  <2> QED
    BY <2>1, <2>2, <2>3 DEF WriterInv
<1>5. CASE WriteError(m)
  <2>1. wmu = m
    BY <1>5 DEF WriterInv, HolderInv, Encoding, WriteError, MustWrite
  <2>2. HolderInv'
    BY <1>5, <2>1 DEF WriterInv, TypeOK, HolderInv, Encoding, WriteError
  <2>3. ~Writable'
    BY <1>5 DEF WriteError, Writable, connVars
  <2>4. WholeMessages'
    BY <1>5 DEF WriterInv, WholeMessages, Continues, WriteError
  <2> QED
    BY <2>2, <2>3, <2>4 DEF WriterInv, StreamInv
<1>6. CASE WriteReturn(m)
  <2>1. wmu = m
    BY <1>6 DEF WriterInv, HolderInv, Encoding, WriteReturn
  <2>2. HolderInv'
    BY <1>6, <2>1 DEF WriterInv, TypeOK, HolderInv, Encoding, WriteReturn
  <2>3. StreamInv'
    BY <1>6 DEF WriterInv, TypeOK, StreamInv, Writable, Continues, Boundary,
                WriteReturn, connVars
  <2>4. WholeMessages'
    BY <1>6 DEF WriterInv, WholeMessages, Continues, WriteReturn
  <2> QED
    BY <2>2, <2>3, <2>4 DEF WriterInv
<1> QED
  BY <1>1, <1>2, <1>3, <1>4, <1>5, <1>6 DEF WriteMessage

(* The readers, Close and the network touch nothing of the writers'; they  *)
(* only ever take the connection away.                                     *)
LEMMA NextWriterInv ==
  ASSUME ~MayTimeout, WriterInv, [Next]_vars
  PROVE  WriterInv'
<1>0. TypeOK'
  BY NextTypeOK DEF WriterInv
<1>1. ASSUME NEW m \in Messages, WriteMessage(m)
      PROVE  WriterInv'
  BY <1>0, <1>1, WriteWriterInv
<1>2. ASSUME NEW r \in Readers, ReadMessage(r)
      PROVE  WriterInv'
  <2>1. UNCHANGED <<writeVars, flushed, connVars>>
    BY <1>2 DEF ReadMessage, LockRmu, ConnRead, DecodeMsg, FromWire, ReadError
  <2> QED
    BY <1>0, <2>1, WriterInvStutter DEF Writable, connVars
<1>3. ASSUME NEW e \in Ends, CallClose(e) \/ Close(e)
      PROVE  WriterInv'
  <2>1. UNCHANGED <<writeVars, flushed>> /\ (Writable' => Writable)
    BY <1>3 DEF WriterInv, TypeOK, CallClose, Close, Writable, Ends
  <2> QED
    BY <1>0, <2>1, WriterInvStutter
<1>4. CASE LinkDown
  BY <1>0, <1>4, WriterInvStutter DEF LinkDown, Writable
<1>5. CASE UNCHANGED vars
  BY <1>0, <1>5, WriterInvStutter DEF vars, connVars, Writable
<1> QED
  BY <1>1, <1>2, <1>3, <1>4, <1>5 DEF Next

(* What the connection has accepted is whole messages back to back, except *)
(* for the last: wmu, and ToWire coming before anything is encoded, keep   *)
(* concurrent WriteMessage calls from interleaving and failed ones from    *)
(* being followed.                                                         *)
THEOREM WritersNeverInterleave ==
  ASSUME ~MayTimeout
  PROVE  Spec => []WholeMessages
<1>1. WriterInv => WholeMessages
  BY DEF WriterInv
<1>2. WriterInv /\ [Next]_vars => WriterInv'
  BY NextWriterInv
<1> QED
  BY <1>1, <1>2, InitWriterInv, PTL DEF Spec

-----------------------------------------------------------------------------
(* Readers *)

(* The parts in Codec.wire are one message up to where it has been decoded *)
(* to.                                                                     *)
WireInv ==
  /\ \A i \in 1..Len(wire) : wire[i] = [msg |-> wire[1].msg, part |-> i]
  /\ wire # <<>> => Len(wire) <= Size[wire[1].msg]

(* The reader is between two messages whenever nobody holds rmu, and where *)
(* wire says it is while somebody does.  A ReadMessage that failed leaves  *)
(* its message half read, but only when there is nothing more to come.     *)
ReadPosition ==
  NoMoreToRead \/
    /\ rmu = None => Boundary(consumed)
    /\ rmu # None /\ wire = <<>> => Boundary(consumed)
    /\ rmu # None /\ wire # <<>> =>
         consumed > 0 /\ stream[consumed] = wire[Len(wire)]

RmuInv == \A r \in Readers : read[r] = "decoding" <=> rmu = r

ReaderInv == RmuInv /\ WireInv /\ ReadPosition /\ NeverGarbled

(* Nothing to read stays nothing to read: whatever took the rest of the    *)
(* stream away has taken it for good.                                      *)
LEMMA NoMoreToReadStable ==
  ASSUME TypeOK, TypeOK', NoMoreToRead, [Next]_vars
  PROVE  NoMoreToRead'
<1>1. ASSUME NEW m \in Messages, WriteMessage(m)
      PROVE  NoMoreToRead'
  <2>1. CASE ConnWrite(m)
    BY <2>1 DEF NoMoreToRead, ConnWrite, Writable, connVars, readVars, TypeOK, InFlight
  <2>2. CASE UNCHANGED <<flushed, connVars, readVars>>
    BY <2>2 DEF NoMoreToRead, InFlight, connVars, readVars
  <2> QED
    BY <1>1, <2>1, <2>2 DEF WriteMessage, ToWire, LockWmu, EncodeMsg, WriteError,
                            WriteReturn
<1>2. ASSUME NEW r \in Readers, ReadMessage(r)
      PROVE  NoMoreToRead'
  <2>1. CASE ConnRead(r)
    <3>1. InFlight > 0 /\ InFlight \in Nat
      BY <2>1 DEF ConnRead, TypeOK, InFlight
    <3> QED
      BY <2>1, <3>1 DEF ConnRead, NoMoreToRead
  <2>2. CASE DecodeMsg(r)
    BY <2>2 DEF DecodeMsg, NoMoreToRead, TypeOK
  <2>3. CASE UNCHANGED <<flushed, connVars, fetched, consumed>>
    BY <2>3 DEF NoMoreToRead, InFlight, connVars
  <2> QED
    BY <1>2, <2>1, <2>2, <2>3 DEF ReadMessage, LockRmu, FromWire, ReadError
<1>3. ASSUME NEW e \in Ends, CallClose(e) \/ Close(e)
      PROVE  NoMoreToRead'
  BY <1>3 DEF TypeOK, CallClose, Close, NoMoreToRead, InFlight, writeVars, readVars, Ends
<1>4. CASE LinkDown
  BY <1>4 DEF LinkDown, NoMoreToRead, readVars
<1>5. CASE UNCHANGED vars
  BY <1>5 DEF vars, NoMoreToRead, InFlight, connVars, readVars
<1> QED
  BY <1>1, <1>2, <1>3, <1>4, <1>5 DEF Next

(* Writers only add to the stream behind what has been decoded.            *)
LEMMA StreamGrows ==
  ASSUME TypeOK, [Next]_vars, NEW i \in 1..Len(stream)
  PROVE  stream'[i] = stream[i]
<1>1. ASSUME NEW m \in Messages, WriteMessage(m)
      PROVE  stream'[i] = stream[i]
  <2>1. CASE EncodeMsg(m)
    <3>1. [msg |-> m, part |-> encoded + 1] \in Parts
      BY DEF TypeOK, Parts
    <3> QED
      BY <2>1, <3>1 DEF EncodeMsg, TypeOK
  <2> QED
    BY <1>1, <2>1 DEF WriteMessage, ToWire, LockWmu, ConnWrite, WriteError,
                      WriteReturn, writeVars
<1> QED
  BY <1>1 DEF Next, ReadMessage, LockRmu, ConnRead, DecodeMsg, FromWire, ReadError,
              CallClose, Close, LinkDown, vars, writeVars

(* A step that leaves the readers alone leaves their invariant alone. *)
LEMMA ReaderInvStutter ==
  ASSUME TypeOK, TypeOK', ReaderInv, [Next]_vars, UNCHANGED readVars
  PROVE  ReaderInv'
<1>1. RmuInv' /\ WireInv' /\ NeverGarbled'
  BY DEF ReaderInv, RmuInv, WireInv, NeverGarbled, readVars
<1>2. ReadPosition'
  <2>1. CASE NoMoreToRead
    BY <2>1, NoMoreToReadStable DEF ReadPosition
  <2>2. CASE ~NoMoreToRead
    <3>1. consumed # 0 => consumed \in 1..Len(stream)
      BY DEF TypeOK
    <3>2. consumed # 0 => stream'[consumed] = stream[consumed]
      BY <3>1, StreamGrows
    <3> QED
      BY <2>2, <3>2 DEF ReaderInv, ReadPosition, Boundary, readVars, TypeOK
  <2> QED
    BY <2>1, <2>2
<1> QED
  BY <1>1, <1>2 DEF ReaderInv

(* The part that DecodeMsg takes next belongs where it puts it. *)
LEMMA DecodeExpected ==
  ASSUME WriterInv, ReaderInv, NEW r \in Readers,
         read[r] = "decoding", ~Complete, consumed < fetched
  PROVE  LET p == stream[consumed + 1]
         IN  IF wire = <<>> THEN p.part = 1
             ELSE p = [msg |-> wire[1].msg, part |-> Len(wire) + 1]
<1>1. /\ consumed \in Nat /\ consumed + 1 <= flushed /\ flushed <= Len(stream)
      /\ flushed \in Nat /\ ~NoMoreToRead /\ rmu = r
  BY DEF WriterInv, TypeOK, NoMoreToRead, ReaderInv, RmuInv
<1>2. Continues(consumed + 1)
  BY <1>1 DEF WriterInv, WholeMessages
<1>3. rmu # None
  BY <1>1, StreamAssumption DEF StreamAssumption
<1>4. CASE wire = <<>>
  <2>1. Boundary(consumed)
    BY <1>1, <1>3, <1>4 DEF ReaderInv, ReadPosition
  <2>2. CASE consumed = 0
    BY <1>2, <1>4, <2>2 DEF Continues
  <2>3. CASE consumed # 0
    <3>1. stream[consumed].part = Size[stream[consumed].msg]
      BY <2>1, <2>3 DEF Boundary
    <3>2. /\ stream[consumed + 1].part \in 1..Size[stream[consumed + 1].msg]
          /\ stream[consumed + 1].msg \in Messages
      <4>1. consumed + 1 \in 1..Len(stream)
        BY <1>1 DEF WriterInv, TypeOK
      <4>2. stream[consumed + 1] \in Parts
        BY <4>1 DEF WriterInv, TypeOK
      <4> QED
        BY <4>1, <4>2 DEF WriterInv, HolderInv, Parts
    <3>3. Size[stream[consumed + 1].msg] \in Nat
      BY <3>2, StreamAssumption DEF StreamAssumption
    <3>4. stream[consumed + 1] # [msg |-> stream[consumed].msg,
                                  part |-> stream[consumed].part + 1]
      BY <3>1, <3>2, <3>3
    <3>5. (consumed + 1) - 1 = consumed
      BY <1>1
    <3> QED
      BY <1>2, <1>4, <3>4, <3>5 DEF Continues
  <2> QED
    BY <2>2, <2>3
<1>5. CASE wire # <<>>
  <2>1. consumed > 0 /\ stream[consumed] = wire[Len(wire)]
    BY <1>1, <1>3, <1>5 DEF ReaderInv, ReadPosition
  <2>2. wire[Len(wire)] = [msg |-> wire[1].msg, part |-> Len(wire)]
    BY <1>5 DEF ReaderInv, WireInv, WriterInv, TypeOK
  <2>3. Len(wire) # Size[wire[1].msg]
    BY <1>5 DEF Complete
  <2>4. (consumed + 1) - 1 = consumed /\ consumed + 1 > 1
    BY <1>1, <2>1
  <2> QED
    BY <1>2, <1>5, <2>1, <2>2, <2>3, <2>4 DEF Continues
<1> QED
  BY <1>4, <1>5

(* A ReadMessage keeps the reader at the boundaries of messages. *)
LEMMA ReadReaderInv ==
  ASSUME WriterInv, TypeOK', ReaderInv, [Next]_vars,
         NEW r \in Readers, ReadMessage(r)
  PROVE  ReaderInv'
<1> USE StreamAssumption DEF StreamAssumption
<1>0. TypeOK /\ (NoMoreToRead => NoMoreToRead')
  BY NoMoreToReadStable DEF WriterInv
<1>1. CASE LockRmu(r)
  <2>1. RmuInv' /\ WireInv' /\ NeverGarbled'
    BY <1>0, <1>1 DEF ReaderInv, TypeOK, RmuInv, WireInv, NeverGarbled, LockRmu
  <2>2. ReadPosition'
    BY <1>0, <1>1 DEF ReaderInv, ReadPosition, Boundary, LockRmu, writeVars
  <2> QED
    BY <2>1, <2>2 DEF ReaderInv
<1>2. CASE ConnRead(r)
  <2>1. RmuInv' /\ WireInv' /\ NeverGarbled'
    BY <1>2 DEF ReaderInv, RmuInv, WireInv, NeverGarbled, ConnRead
  <2>2. ReadPosition'
    BY <1>0, <1>2 DEF ReaderInv, ReadPosition, Boundary, ConnRead, writeVars
  <2> QED
    BY <2>1, <2>2 DEF ReaderInv
<1>3. CASE DecodeMsg(r)
  <2> DEFINE p == stream[consumed + 1]
  <2>1. IF wire = <<>> THEN p.part = 1
        ELSE p = [msg |-> wire[1].msg, part |-> Len(wire) + 1]
    BY <1>3, DecodeExpected DEF DecodeMsg
  <2>2. consumed + 1 \in 1..Len(stream) /\ consumed' = consumed + 1 /\ p \in Parts
    BY <1>0, <1>3 DEF TypeOK, DecodeMsg
  <2>3. /\ wire \in Seq(Parts) /\ wire' = Append(wire, p)
        /\ Len(wire') = Len(wire) + 1 /\ wire'[Len(wire')] = p
        /\ \A i \in 1..Len(wire) : wire'[i] = wire[i]
    BY <1>0, <1>3, <2>2 DEF TypeOK, DecodeMsg
  <2>4. p = [msg |-> wire'[1].msg, part |-> Len(wire) + 1]
    <3>1. CASE wire = <<>>
      <4>1. wire'[1] = p /\ Len(wire) = 0
        BY <2>3, <3>1
      <4> QED
        BY <2>1, <2>2, <3>1, <4>1 DEF Parts
    <3>2. CASE wire # <<>>
      <4>1. wire'[1] = wire[1]
        BY <2>3, <3>2
      <4> QED
        BY <2>1, <3>2, <4>1
    <3> QED
      BY <3>1, <3>2
  <2>5. WireInv'
    <3>1. ASSUME NEW i \in 1..Len(wire)
          PROVE  wire'[i] = [msg |-> wire'[1].msg, part |-> i]
      <4>1. wire'[1] = wire[1] /\ wire'[i] = wire[i]
        BY <2>3
      <4> QED
        BY <4>1 DEF ReaderInv, WireInv
    <3>2. Len(wire) + 1 <= Size[wire'[1].msg]
      BY <2>2, <2>4 DEF WriterInv, HolderInv
    <3> QED
      BY <2>3, <2>4, <3>1, <3>2 DEF WireInv
  <2>6. ReadPosition'
    <3>1. rmu' # None
      BY <1>3 DEF DecodeMsg, ReaderInv, RmuInv
    <3>2. wire' # <<>> /\ consumed' > 0 /\ stream'[consumed'] = wire'[Len(wire')]
      BY <1>0, <1>3, <2>2, <2>3 DEF DecodeMsg, writeVars, TypeOK
    <3> QED
      BY <3>1, <3>2 DEF ReadPosition
  <2>7. RmuInv' /\ NeverGarbled'
    BY <1>3 DEF ReaderInv, RmuInv, NeverGarbled, DecodeMsg
  <2> QED
    BY <2>5, <2>6, <2>7 DEF ReaderInv
<1>4. CASE FromWire(r)
  <2>1. rmu = r /\ wire # <<>> /\ Len(wire) = Size[wire[1].msg] /\ wire \in Seq(Parts)
    BY <1>0, <1>4 DEF ReaderInv, RmuInv, FromWire, Complete, TypeOK
  <2>2. RmuInv'
    BY <1>0, <1>4, <2>1 DEF ReaderInv, RmuInv, TypeOK, FromWire
  <2>3. WireInv'
    BY <1>4 DEF ReaderInv, WireInv, FromWire
  <2>4. ReadPosition'
    <3>1. CASE NoMoreToRead
      BY <1>0, <3>1 DEF ReadPosition
    <3>2. CASE ~NoMoreToRead
      <4>1. stream[consumed] = wire[Len(wire)]
        BY <2>1, <3>2 DEF ReaderInv, ReadPosition
      <4>2. wire[Len(wire)] = [msg |-> wire[1].msg, part |-> Len(wire)]
        BY <2>1 DEF ReaderInv, WireInv
      <4>3. Boundary(consumed)
        BY <2>1, <4>1, <4>2 DEF Boundary
      <4> QED
        BY <1>4, <4>3 DEF ReadPosition, Boundary, FromWire, writeVars
    <3> QED
      BY <3>1, <3>2
  <2>5. NeverGarbled'
    <3>1. wire[1] \in Parts
      BY <2>1
    <3>2. Assembled(wire) = wire[1].msg /\ wire[1].msg \in Messages
      BY <3>1 DEF ReaderInv, WireInv, Assembled, Parts
    <3>3. received' = Append(received, wire[1].msg)
      BY <1>4, <3>2 DEF FromWire
    <3> QED
      BY <1>0, <3>2, <3>3 DEF ReaderInv, NeverGarbled, TypeOK
  <2> QED
    BY <2>2, <2>3, <2>4, <2>5 DEF ReaderInv
<1>5. CASE ReadError(r)
  <2>1. rmu = r
    BY <1>5 DEF ReaderInv, RmuInv, ReadError
  <2>2. RmuInv' /\ WireInv' /\ NeverGarbled'
    BY <1>0, <1>5, <2>1 DEF ReaderInv, RmuInv, WireInv, NeverGarbled, TypeOK, ReadError
  <2>3. NoMoreToRead
    <3> SUFFICES ASSUME consumed < fetched, ~Expected(stream[consumed + 1])
                 PROVE  FALSE
      BY <1>5 DEF ReadError
    <3> DEFINE p == stream[consumed + 1]
    <3>1. IF wire = <<>> THEN p.part = 1
          ELSE p = [msg |-> wire[1].msg, part |-> Len(wire) + 1]
      BY <1>5, DecodeExpected DEF ReadError
    <3>2. p.part = Len(wire) + 1
      BY <3>1
    <3> QED
      BY <3>2 DEF Expected
  <2> QED
    BY <1>0, <2>2, <2>3 DEF ReaderInv, ReadPosition
<1> QED
  BY <1>1, <1>2, <1>3, <1>4, <1>5 DEF ReadMessage

(* Every step of the codec keeps both invariants. *)
LEMMA NextReaderInv ==
  ASSUME ~MayTimeout, WriterInv, ReaderInv, [Next]_vars
  PROVE  ReaderInv'
<1>0. TypeOK /\ TypeOK'
  BY NextTypeOK DEF WriterInv
<1>1. ASSUME NEW r \in Readers, ReadMessage(r)
      PROVE  ReaderInv'
  BY <1>0, <1>1, ReadReaderInv
<1>2. CASE UNCHANGED readVars
  BY <1>0, <1>2, ReaderInvStutter
<1> QED
  BY <1>1, <1>2 DEF Next, WriteMessage, ToWire, LockWmu, EncodeMsg, ConnWrite,
                    WriteError, WriteReturn, CallClose, Close, LinkDown, vars

(* Nobody is reading to begin with. *)
LEMMA InitReaderInv == Init => ReaderInv
<1> SUFFICES ASSUME Init
             PROVE  ReaderInv
  OBVIOUS
<1>1. RmuInv /\ WireInv /\ NeverGarbled
  BY StreamAssumption DEF Init, RmuInv, WireInv, NeverGarbled, StreamAssumption
<1>2. ReadPosition
  BY DEF Init, ReadPosition, Boundary
<1> QED
  BY <1>1, <1>2 DEF ReaderInv

(* ReadMessage never hands birpc a message put together from parts of      *)
(* different ones: neither two readers nor a reader that gave up half way  *)
(* through a message put the next one out of step.                         *)
THEOREM ReadersStayInStep ==
  ASSUME ~MayTimeout
  PROVE  Spec => []NeverGarbled
<1>1. Init => WriterInv /\ ReaderInv
  BY InitWriterInv, InitReaderInv
<1>2. WriterInv /\ ReaderInv /\ [Next]_vars => (WriterInv /\ ReaderInv)'
  BY NextWriterInv, NextReaderInv
<1>3. ReaderInv => NeverGarbled
  BY DEF ReaderInv
<1> QED
  BY <1>1, <1>2, <1>3, PTL DEF Spec

-----------------------------------------------------------------------------
(* The codec as a channel *)

LastPart(m) == [msg |-> m, part |-> Size[m]]

(* The messages that are finished within the first k parts. *)
Finished(k) == Selected(SubSeq(stream, 1, k), Finishes)

(* A message decoded to its end and not handed over yet. *)
Pending == rmu # None /\ Complete

(* A message is finished once at most, and not before its WriteMessage is  *)
(* in Flush.                                                               *)
WritingInv ==
  \A m \in Messages :
    /\ call[m] \in {"idle", "locking"} => \A i \in 1..Len(stream) : stream[i].msg # m
    /\ call[m] = "encoding" =>
         \A i \in 1..Len(stream) : stream[i].msg = m => stream[i].part <= encoded
    /\ call[m] = "flushing" =>
         /\ Len(stream) > 0 /\ stream[Len(stream)] = LastPart(m)
         /\ \A i \in 1..(Len(stream) - 1) : stream[i] # LastPart(m)

(* As long as no Write has been refused, the msgp.Writer holds parts of one*)
(* message only.                                                           *)
BufferInv ==
  Writable =>
    /\ wmu = None => flushed = Len(stream)
    /\ \A m \in Messages : Encoding(m) =>
         \A i \in (flushed + 1)..Len(stream) : stream[i].msg = m

(* What has been decoded has been handed over, but for the message at hand.*)
ReceivedInv ==
  Finished(consumed) = IF Pending THEN Append(received, wire[1].msg) ELSE received

(* The parts that finish a message are the last ones. *)
LEMMA FinishesLast ==
  ASSUME NEW p \in Parts
  PROVE  /\ p \in DOMAIN Finishes <=> p.part = Size[p.msg]
         /\ p \in DOMAIN Finishes => Finishes[p] = p.msg /\ p = LastPart(p.msg)
         /\ p.msg \in Messages
BY DEF Finishes, Parts, LastPart

(* The first k parts are the same in every stream that has them. *)
LEMMA SameStart ==
  ASSUME NEW s \in Seq(Parts), NEW t \in Seq(Parts), NEW k \in Nat,
         k <= Len(s), k <= Len(t), \A i \in 1..k : s[i] = t[i]
  PROVE  SubSeq(s, 1, k) = SubSeq(t, 1, k)
<1>1. \A i \in 1..k : s[i] \in Parts /\ t[i] \in Parts
  BY ElementOfSeq, LenProperties
<1>2. /\ SubSeq(s, 1, k) \in Seq(Parts) /\ Len(SubSeq(s, 1, k)) = k
      /\ \A i \in 1..k : SubSeq(s, 1, k)[i] = s[i]
  BY <1>1, SubSeqProperties
<1>3. /\ SubSeq(t, 1, k) \in Seq(Parts) /\ Len(SubSeq(t, 1, k)) = k
      /\ \A i \in 1..k : SubSeq(t, 1, k)[i] = t[i]
  BY <1>1, SubSeqProperties
<1> QED BY <1>2, <1>3, SeqEqual

(* Within nothing, nothing is finished. *)
LEMMA NothingFinished == Finished(0) = <<>>
<1>1. SubSeq(stream, 1, 0) = <<>>
  BY SubSeqEmpty
<1> QED BY <1>1, SelectedEmpty DEF Finished

(* What is finished within more of the stream. *)
LEMMA FinishedMore ==
  ASSUME TypeOK, NEW k \in Nat, NEW l \in Nat, k <= l, l <= Len(stream)
  PROVE  /\ Finished(l) = Finished(k) \o Selected(SubSeq(stream, k + 1, l), Finishes)
         /\ Finished(k) \in Seq(Messages) /\ Finished(l) \in Seq(Messages)
         /\ Selected(SubSeq(stream, k + 1, l), Finishes) \in Seq(Messages)
<1>1. stream \in Seq(Parts) /\ Len(stream) \in Nat
  BY LenProperties DEF TypeOK
<1>2. SubSeq(stream, 1, k) \o SubSeq(stream, k + 1, l) = SubSeq(stream, 1, l)
  BY <1>1, ConcatAdjacentSubSeq
<1>3. \A i \in 1..Len(stream) : stream[i] \in Parts
  BY <1>1, ElementOfSeq
<1>4. /\ SubSeq(stream, 1, k) \in Seq(Parts) /\ SubSeq(stream, k + 1, l) \in Seq(Parts)
      /\ SubSeq(stream, 1, l) \in Seq(Parts)
  BY <1>1, <1>3, SubSeqProperties
<1>5. \A p \in Parts \cap DOMAIN Finishes : Finishes[p] \in Messages
  BY FinishesLast
<1>6. \A s \in Seq(Parts) : Selected(s, Finishes) \in Seq(Messages)
  BY <1>5, SelectedType
<1>7. \A a, b \in Seq(Parts) :
        Selected(a \o b, Finishes) = Selected(a, Finishes) \o Selected(b, Finishes)
  BY SelectedConcat
<1> QED BY <1>2, <1>4, <1>6, <1>7 DEF Finished

(* Parts that finish no message. *)
LEMMA FinishedSkip ==
  ASSUME TypeOK, NEW k \in Nat, NEW l \in Nat, k <= l, l <= Len(stream),
         \A i \in (k + 1)..l : stream[i] \notin DOMAIN Finishes
  PROVE  Finished(l) = Finished(k)
<1>1. stream \in Seq(Parts) /\ Len(stream) \in Nat
  BY LenProperties DEF TypeOK
<1>2. \A i \in (k + 1)..l : stream[i] \in Parts
  BY <1>1, ElementOfSeq
<1> DEFINE b == SubSeq(stream, k + 1, l)
<1>3. /\ b \in Seq(Parts) /\ Len(b) = l - k
      /\ \A i \in 1..(l - k) : b[i] = stream[k + i]
  <2>1. /\ b \in Seq(Parts) /\ Len(b) = IF k + 1 <= l THEN l - (k + 1) + 1 ELSE 0
        /\ \A i \in 1..(l - (k + 1) + 1) : b[i] = stream[(k + 1) + i - 1]
    BY <1>2, SubSeqProperties
  <2> HIDE DEF b
  <2>2. l - (k + 1) + 1 = l - k /\ \A i \in 1..(l - k) : (k + 1) + i - 1 = k + i
    OBVIOUS
  <2> QED BY <2>1, <2>2
<1> HIDE DEF b
<1>4. \A i \in 1..Len(b) : b[i] \notin DOMAIN Finishes
  <2> SUFFICES ASSUME NEW i \in 1..Len(b) PROVE b[i] \notin DOMAIN Finishes
    OBVIOUS
  <2>1. k + i \in (k + 1)..l /\ i \in 1..(l - k)
    BY <1>3
  <2> QED BY <1>3, <2>1
<1>5. Selected(b, Finishes) = <<>>
  BY <1>3, <1>4, NothingSelected
<1>6. Finished(l) = Finished(k) \o Selected(b, Finishes) /\ Finished(k) \in Seq(Messages)
  BY FinishedMore DEF b
<1> QED BY <1>5, <1>6, ConcatEmptySeq

(* A part that does. *)
LEMMA FinishedNext ==
  ASSUME TypeOK, NEW k \in Nat, k < Len(stream)
  PROVE  Finished(k + 1) = IF stream[k + 1] \in DOMAIN Finishes
                           THEN Append(Finished(k), stream[k + 1].msg)
                           ELSE Finished(k)
<1> DEFINE a == SubSeq(stream, 1, k)
           p == stream[k + 1]
<1>1. stream \in Seq(Parts) /\ Len(stream) \in Nat
  BY LenProperties DEF TypeOK
<1>2. \A i \in 1..(k + 1) : stream[i] \in Parts
  BY <1>1, ElementOfSeq
<1>3. a \in Seq(Parts) /\ p \in Parts
  BY <1>2, SubSeqProperties
<1>4. SubSeq(stream, 1, k + 1) = Append(a, p)
  <2>1. SubSeq(stream, 1, k + 1) = SubSeq(stream, 1, (k + 1) - 1) \o <<stream[k + 1]>>
    <3>1. 1 \in 1..Len(stream) /\ k + 1 \in 1..Len(stream)
      BY <1>1
    <3> QED BY <1>1, <3>1, SubSeqRecursiveSecond
  <2>2. (k + 1) - 1 = k
    OBVIOUS
  <2>3. Append(a, p) = a \o <<p>>
    BY <1>3, AppendIsConcat
  <2> QED BY <2>1, <2>2, <2>3
<1> HIDE DEF a, p
<1>5. Selected(Append(a, p), Finishes) =
        IF p \in DOMAIN Finishes THEN Append(Selected(a, Finishes), Finishes[p])
        ELSE Selected(a, Finishes)
  BY <1>3, SelectedAppend
<1>6. p \in DOMAIN Finishes => Finishes[p] = p.msg
  BY <1>3, FinishesLast
<1> QED BY <1>4, <1>5, <1>6 DEF Finished, a, p

(* A message is in the channel when the connection has its last part. *)
LEMMA InChannelMeans ==
  ASSUME TypeOK, NEW m \in Messages
  PROVE  Channel!InChannel(m) <=> \E i \in 1..flushed : stream[i] = LastPart(m)
<1> DEFINE a == SubSeq(stream, 1, flushed)
<1>1. stream \in Seq(Parts) /\ flushed \in Nat /\ flushed <= Len(stream)
  BY DEF TypeOK
<1>2. \A i \in 1..flushed : stream[i] \in Parts
  BY <1>1, ElementOfSeq, LenProperties
<1>3. a \in Seq(Parts) /\ Len(a) = flushed /\ \A i \in 1..flushed : a[i] = stream[i]
  <2>1. /\ a \in Seq(Parts) /\ Len(a) = IF 1 <= flushed THEN flushed - 1 + 1 ELSE 0
        /\ \A i \in 1..(flushed - 1 + 1) : a[i] = stream[1 + i - 1]
    BY <1>1, <1>2, SubSeqProperties
  <2> HIDE DEF a
  <2>2. flushed - 1 + 1 = flushed /\ \A i \in 1..flushed : 1 + i - 1 = i
    BY <1>1
  <2> QED BY <1>1, <2>1, <2>2
<1>4. Accepted = Selected(a, Finishes)
  BY DEF Accepted
<1> HIDE DEF a
<1>5. (\E i \in 1..Len(Accepted) : Accepted[i] = m)
        <=> (\E i \in 1..Len(a) : a[i] \in DOMAIN Finishes /\ Finishes[a[i]] = m)
  <2>1. ASSUME NEW i \in 1..Len(Accepted), Accepted[i] = m
        PROVE  \E j \in 1..Len(a) : a[j] \in DOMAIN Finishes /\ Finishes[a[j]] = m
    BY <1>3, <1>4, <2>1, SelectedFrom
  <2>2. ASSUME NEW j \in 1..Len(a), a[j] \in DOMAIN Finishes, Finishes[a[j]] = m
        PROVE  \E i \in 1..Len(Accepted) : Accepted[i] = m
    BY <1>3, <1>4, <2>2, SelectedHas
  <2> QED BY <2>1, <2>2
<1>6. \A i \in 1..flushed :
        (a[i] \in DOMAIN Finishes /\ Finishes[a[i]] = m) <=> stream[i] = LastPart(m)
  <2> SUFFICES ASSUME NEW i \in 1..flushed
               PROVE  (a[i] \in DOMAIN Finishes /\ Finishes[a[i]] = m)
                        <=> stream[i] = LastPart(m)
    OBVIOUS
  <2>1. a[i] = stream[i] /\ stream[i] \in Parts
    BY <1>2, <1>3
  <2>2. LastPart(m).msg = m /\ LastPart(m).part = Size[m]
    BY DEF LastPart
  <2> QED BY <2>1, <2>2, FinishesLast
<1> QED BY <1>3, <1>5, <1>6 DEF Channel!InChannel

(* Only EncodeMsg and the lock change what is being written. *)
LEMMA NextWritingInv ==
  ASSUME TypeOK, HolderInv, WritingInv, [Next]_vars
  PROVE  WritingInv'
<1>1. CASE UNCHANGED writeVars
  BY <1>1 DEF WritingInv, writeVars
<1>2. ASSUME NEW m \in Messages, ToWire(m) PROVE WritingInv'
  BY <1>2 DEF ToWire, WritingInv, TypeOK
<1>3. ASSUME NEW m \in Messages, LockWmu(m) PROVE WritingInv'
  <2>1. /\ \A n \in Messages : ~Encoding(n)
        /\ stream' = stream
        /\ \A n \in Messages : call'[n] = IF n = m THEN "encoding" ELSE call[n]
        /\ \A i \in 1..Len(stream) : stream[i].msg # m
    BY <1>3, StreamAssumption DEF LockWmu, HolderInv, WritingInv, TypeOK, StreamAssumption
  <2> SUFFICES ASSUME NEW n \in Messages
               PROVE  /\ call'[n] \in {"idle", "locking"} =>
                           \A i \in 1..Len(stream') : stream'[i].msg # n
                      /\ call'[n] = "encoding" => \A i \in 1..Len(stream') :
                           stream'[i].msg = n => stream'[i].part <= encoded'
                      /\ call'[n] # "flushing"
    BY DEF WritingInv
  <2> QED BY <2>1 DEF Encoding, WritingInv
<1>4. ASSUME NEW m \in Messages, WriteError(m) \/ WriteReturn(m) PROVE WritingInv'
  <2>1. stream' = stream /\ encoded' = encoded
    BY <1>4 DEF WriteError, WriteReturn
  <2>2. \A n \in Messages : call'[n] = call[n] \/ call'[n] \in {"ok", "failed"}
    BY <1>4 DEF WriteError, WriteReturn, TypeOK
  <2> QED BY <2>1, <2>2 DEF WritingInv
<1>5. ASSUME NEW m \in Messages, EncodeMsg(m) PROVE WritingInv'
  <2>1. stream \in Seq(Parts) /\ encoded \in Nat /\ wmu = m
    BY <1>5 DEF EncodeMsg, TypeOK, HolderInv, Encoding
  <2>2. [msg |-> m, part |-> encoded + 1] \in Parts
    BY <2>1 DEF Parts
  <2>3. /\ Len(stream) \in Nat /\ Len(stream') = Len(stream) + 1
        /\ stream'[Len(stream')] = [msg |-> m, part |-> encoded + 1]
        /\ \A i \in 1..Len(stream) : stream'[i] = stream[i]
    BY <1>5, <2>1, <2>2, AppendProperties, LenProperties DEF EncodeMsg
  <2>4. \A n \in Messages : call'[n] = IF n # m THEN call[n]
                                     ELSE IF encoded + 1 = Size[m] THEN "flushing"
                                     ELSE "encoding"
    BY <1>5 DEF EncodeMsg, TypeOK
  <2>5. encoded < Size[m] /\ Size[m] \in Nat /\ encoded' = encoded + 1
    BY <1>5, StreamAssumption DEF EncodeMsg, HolderInv, StreamAssumption
  <2>6. \A i \in 1..Len(stream) : stream[i].msg = m =>
          stream[i].part <= encoded /\ stream[i] \in Parts
    BY <1>5, <2>1, ElementOfSeq DEF EncodeMsg, WritingInv
  <2>7. ASSUME NEW n \in Messages, n # m
        PROVE  /\ call'[n] \in {"idle", "locking"} =>
                    \A i \in 1..Len(stream') : stream'[i].msg # n
               /\ ~Encoding(n)'
    <3>1. ~Encoding(n)
      BY <2>1, <2>7 DEF HolderInv
    <3>2. \A i \in 1..Len(stream') : i \in 1..Len(stream) \/ i = Len(stream')
      BY <2>3
    <3>3. call'[n] = call[n]
      BY <2>4, <2>7
    <3>4. stream'[Len(stream')].msg = m
      BY <2>3
    <3> QED BY <2>3, <2>7, <3>1, <3>2, <3>3, <3>4 DEF Encoding, WritingInv
  <2>8. CASE encoded + 1 = Size[m]
    <3>1. call'[m] = "flushing" /\ stream'[Len(stream')] = LastPart(m)
      BY <2>3, <2>4, <2>8 DEF LastPart
    <3>2. ASSUME NEW i \in 1..(Len(stream') - 1) PROVE stream'[i] # LastPart(m)
      <4>1. i \in 1..Len(stream) /\ stream'[i] = stream[i]
        BY <2>3
      <4>2. LastPart(m).msg = m /\ LastPart(m).part = Size[m]
        BY DEF LastPart
      <4>3. stream[i].msg = m => stream[i].part <= encoded
        BY <2>6, <4>1
      <4> QED BY <2>1, <2>5, <2>8, <4>1, <4>2, <4>3
    <3>3. Len(stream') > 0
      BY <2>3
    <3> QED BY <2>7, <3>1, <3>2, <3>3 DEF WritingInv, Encoding
  <2>9. CASE encoded + 1 # Size[m]
    <3>1. call'[m] = "encoding"
      BY <2>4, <2>9
    <3>2. ASSUME NEW i \in 1..Len(stream'), stream'[i].msg = m
          PROVE  stream'[i].part <= encoded'
      <4>1. CASE i = Len(stream')
        BY <2>1, <2>3, <2>5, <4>1
      <4>2. CASE i # Len(stream')
        <5>1. i \in 1..Len(stream) /\ stream'[i] = stream[i]
          BY <2>3, <4>2
        <5>2. stream[i].part <= encoded /\ stream[i].part \in Nat
          BY <2>6, <3>2, <5>1 DEF Parts
        <5> QED BY <2>1, <2>5, <5>1, <5>2
      <4> QED BY <4>1, <4>2
    <3> QED BY <2>7, <3>1, <3>2 DEF WritingInv, Encoding
  <2> QED BY <2>8, <2>9
<1> QED
  BY <1>1, <1>2, <1>3, <1>4, <1>5
  DEF Next, WriteMessage, ConnWrite, ReadMessage, LockRmu, ConnRead, DecodeMsg, FromWire,
      ReadError, CallClose, Close, LinkDown, vars

(* A buffer that is not empty when the lock is given back is one that the  *)
(* connection will take no more of.                                        *)
LEMMA NextBufferInv ==
  ASSUME ~MayTimeout, TypeOK, HolderInv, BufferInv, [Next]_vars
  PROVE  BufferInv'
<1>0. Writable' => Writable
  BY DEF Next, WriteMessage, ToWire, LockWmu, EncodeMsg, ConnWrite, WriteError, WriteReturn,
         ReadMessage, LockRmu, ConnRead, DecodeMsg, FromWire, ReadError, CallClose, Close,
         LinkDown, vars, connVars, Writable, TypeOK, Ends
<1> SUFFICES ASSUME Writable, Writable' PROVE BufferInv'
  BY <1>0 DEF BufferInv
<1>1. CASE UNCHANGED <<writeVars, flushed>>
  BY <1>1 DEF BufferInv, writeVars, Encoding
<1>2. ASSUME NEW m \in Messages, ToWire(m) PROVE BufferInv'
  BY <1>2 DEF ToWire, BufferInv, Encoding, TypeOK
<1>3. ASSUME NEW m \in Messages, LockWmu(m) PROVE BufferInv'
  <2>1. flushed' = flushed /\ stream' = stream /\ flushed = Len(stream) /\ wmu' = m
    BY <1>3 DEF LockWmu, BufferInv
  <2> QED BY <2>1, StreamAssumption DEF BufferInv, StreamAssumption, TypeOK
<1>4. ASSUME NEW m \in Messages, EncodeMsg(m) PROVE BufferInv'
  <2>1. stream \in Seq(Parts) /\ encoded \in Nat /\ wmu = m /\ wmu' = m /\ wmu # None
    BY <1>4, StreamAssumption
    DEF EncodeMsg, TypeOK, HolderInv, Encoding, StreamAssumption
  <2>2. [msg |-> m, part |-> encoded + 1] \in Parts
    BY <2>1 DEF Parts
  <2>3. /\ Len(stream) \in Nat /\ Len(stream') = Len(stream) + 1
        /\ stream'[Len(stream')] = [msg |-> m, part |-> encoded + 1]
        /\ \A i \in 1..Len(stream) : stream'[i] = stream[i]
    BY <1>4, <2>1, <2>2, AppendProperties, LenProperties DEF EncodeMsg
  <2>4. \A n \in Messages : n # m => ~Encoding(n)'
    BY <1>4, <2>1 DEF EncodeMsg, HolderInv, Encoding, TypeOK
  <2>5. flushed' = flushed /\ flushed \in Nat
    BY <1>4 DEF EncodeMsg, TypeOK
  <2>6. \A i \in (flushed + 1)..Len(stream) : stream[i].msg = m
    BY <1>4 DEF BufferInv, EncodeMsg, Encoding
  <2>7. ASSUME NEW i \in (flushed' + 1)..Len(stream') PROVE stream'[i].msg = m
    <3>1. CASE i = Len(stream')
      BY <2>3, <3>1
    <3>2. CASE i # Len(stream')
      <4>1. i \in (flushed + 1)..Len(stream) /\ i \in 1..Len(stream)
        BY <2>3, <2>5, <3>2
      <4> QED BY <2>3, <2>6, <4>1
    <3> QED BY <3>1, <3>2
  <2> QED BY <2>1, <2>4, <2>7 DEF BufferInv
<1>5. ASSUME NEW m \in Messages, ConnWrite(m) PROVE BufferInv'
  <2>1. PICK n \in 1..Min2(Buffered, ConnBuf - InFlight) : flushed' = flushed + n
    BY <1>5 DEF ConnWrite
  <2>2. wmu = m /\ wmu' = m /\ stream' = stream /\ call' = call /\ wmu # None
    BY <1>5, StreamAssumption
    DEF ConnWrite, MustWrite, HolderInv, Encoding, writeVars, StreamAssumption
  <2>3. flushed \in Nat /\ n \in Nat
    BY DEF TypeOK
  <2>4. \A i \in (flushed' + 1)..Len(stream) : i \in (flushed + 1)..Len(stream)
    BY <2>1, <2>3
  <2> QED BY <2>2, <2>4 DEF BufferInv, Encoding
<1>6. ASSUME NEW m \in Messages, WriteReturn(m) PROVE BufferInv'
  <2>1. /\ Buffered = 0 /\ flushed' = flushed /\ stream' = stream
        /\ flushed \in Nat /\ Len(stream) \in Nat
    BY <1>6, LenProperties DEF WriteReturn, TypeOK
  <2>2. flushed' = Len(stream')
    BY <2>1 DEF Buffered
  <2> QED BY <2>1, <2>2 DEF BufferInv
<1>7. ASSUME NEW m \in Messages, WriteError(m) PROVE BufferInv'
  BY <1>7 DEF WriteError
<1> QED
  BY <1>1, <1>2, <1>3, <1>4, <1>5, <1>6, <1>7
  DEF Next, WriteMessage, ReadMessage, LockRmu, ConnRead, DecodeMsg, FromWire, ReadError,
      CallClose, Close, LinkDown, vars

(* Parts that have been encoded stay where they are. *)
LEMMA FinishedStays ==
  ASSUME TypeOK, TypeOK', [Next]_vars, NEW k \in Nat, k <= Len(stream)
  PROVE  Finished(k)' = Finished(k)
<1>1. stream \in Seq(Parts) /\ stream' \in Seq(Parts) /\ Len(stream) \in Nat
  BY LenProperties DEF TypeOK
<1>2. \A i \in 1..k : i \in 1..Len(stream)
  BY <1>1
<1>3. \A i \in 1..k : stream'[i] = stream[i]
  BY <1>2, StreamGrows
<1>4. Len(stream') \in Nat /\ k <= Len(stream')
  <2>1. CASE UNCHANGED stream
    BY <1>1, <2>1
  <2>2. ASSUME NEW m \in Messages, EncodeMsg(m)
        PROVE  Len(stream') \in Nat /\ k <= Len(stream')
    BY <1>1, <2>2 DEF EncodeMsg
  <2> QED
    BY <2>1, <2>2
    DEF Next, WriteMessage, ToWire, LockWmu, ConnWrite, WriteError, WriteReturn, ReadMessage,
        LockRmu, ConnRead, DecodeMsg, FromWire, ReadError, CallClose, Close, LinkDown, vars,
        writeVars
<1>5. SubSeq(stream', 1, k) = SubSeq(stream, 1, k)
  BY <1>1, <1>3, <1>4, SameStart
<1>6. Finishes' = Finishes
  BY DEF Finishes
<1> QED BY <1>5, <1>6 DEF Finished

(* Only the reader at hand changes what has been handed over. *)
LEMMA NextReceivedInv ==
  ASSUME ~MayTimeout, WriterInv, ReaderInv, ReceivedInv, [Next]_vars
  PROVE  ReceivedInv'
<1>0. TypeOK /\ TypeOK' /\ Len(stream) \in Nat
  BY NextTypeOK, LenProperties DEF WriterInv, TypeOK
<1>1. consumed \in Nat /\ consumed <= Len(stream)
  BY <1>0 DEF TypeOK
<1>2. \A k \in Nat : k <= Len(stream) => Finished(k)' = Finished(k)
  BY <1>0, FinishedStays
<1>3. CASE UNCHANGED <<consumed, received, rmu, wire>>
  BY <1>1, <1>2, <1>3 DEF ReceivedInv, Pending, Complete, Finished
<1>4. ASSUME NEW r \in Readers, LockRmu(r) PROVE ReceivedInv'
  <2>1. ~Pending /\ ~Pending' /\ received' = received /\ consumed' = consumed
        /\ stream' = stream
    BY <1>4 DEF LockRmu, Pending, Complete, writeVars
  <2> QED BY <2>1 DEF ReceivedInv, Finished
<1>5. ASSUME NEW r \in Readers, DecodeMsg(r) PROVE ReceivedInv'
  <2> DEFINE p == stream[consumed + 1]
  <2>1. /\ stream' = stream /\ consumed' = consumed + 1 /\ received' = received /\ rmu' = rmu
        /\ wire' = Append(wire, p) /\ consumed < Len(stream)
    BY <1>0, <1>5 DEF DecodeMsg, writeVars, TypeOK
  <2>2. rmu = r /\ rmu # None /\ ~Complete
    BY <1>5, StreamAssumption DEF DecodeMsg, ReaderInv, RmuInv, StreamAssumption
  <2>3. p \in Parts /\ wire \in Seq(Parts) /\ stream \in Seq(Parts)
    <3>1. consumed + 1 \in 1..Len(stream)
      BY <1>0, <1>1, <2>1
    <3> QED BY <1>0, <3>1, ElementOfSeq DEF TypeOK
  <2>4. IF wire = <<>> THEN p.part = 1
        ELSE p = [msg |-> wire[1].msg, part |-> Len(wire) + 1]
    BY <1>5, DecodeExpected DEF DecodeMsg
  <2> HIDE DEF p
  <2>5. /\ wire' # <<>> /\ Len(wire') = Len(wire) + 1 /\ Len(wire) \in Nat
        /\ wire'[Len(wire) + 1] = p /\ \A i \in 1..Len(wire) : wire'[i] = wire[i]
    BY <2>1, <2>3, AppendProperties, LenProperties
  <2>6. wire'[1].msg = p.msg /\ Len(wire') = p.part
    <3>1. CASE wire = <<>>
      BY <2>4, <2>5, <3>1, EmptySeq
    <3>2. CASE wire # <<>>
      <4>1. 1 \in 1..Len(wire)
        BY <2>3, <3>2, EmptySeq
      <4>2. p.msg = wire[1].msg /\ p.part = Len(wire) + 1
        BY <2>4, <3>2
      <4> QED BY <2>5, <4>1, <4>2
    <3> QED BY <3>1, <3>2
  <2>7. Complete' <=> p.part = Size[p.msg]
    BY <2>5, <2>6 DEF Complete
  <2>8. Pending' <=> p \in DOMAIN Finishes
    BY <2>1, <2>2, <2>3, <2>7, FinishesLast DEF Pending
  <2>9. Finished(consumed + 1) = IF p \in DOMAIN Finishes
                                 THEN Append(Finished(consumed), p.msg)
                                 ELSE Finished(consumed)
    BY <1>0, <1>1, <2>1, FinishedNext DEF p
  <2>10. Finished(consumed) = received
    BY <2>2 DEF ReceivedInv, Pending
  <2>11. Finished(consumed)' = Finished(consumed + 1)
    BY <2>1 DEF Finished
  <2> QED BY <2>1, <2>6, <2>8, <2>9, <2>10, <2>11 DEF ReceivedInv
<1>6. ASSUME NEW r \in Readers, FromWire(r) PROVE ReceivedInv'
  <2>1. /\ Complete /\ rmu = r /\ rmu # None /\ rmu' = None /\ consumed' = consumed
        /\ stream' = stream /\ received' = Append(received, Assembled(wire))
    BY <1>6, StreamAssumption
    DEF FromWire, ReaderInv, RmuInv, StreamAssumption, writeVars
  <2>2. Assembled(wire) = wire[1].msg
    BY DEF ReaderInv, WireInv, Assembled
  <2>3. Finished(consumed) = Append(received, wire[1].msg)
    BY <2>1 DEF ReceivedInv, Pending
  <2> QED BY <2>1, <2>2, <2>3 DEF ReceivedInv, Pending, Finished
<1>7. ASSUME NEW r \in Readers, ReadError(r) PROVE ReceivedInv'
  <2>1. ~Complete /\ rmu' = None /\ UNCHANGED <<consumed, received, stream>>
    BY <1>7 DEF ReadError, writeVars
  <2> QED BY <2>1 DEF ReceivedInv, Pending, Finished
<1> QED
  BY <1>3, <1>4, <1>5, <1>6, <1>7
  DEF Next, WriteMessage, ToWire, LockWmu, EncodeMsg, ConnWrite, WriteError, WriteReturn,
      ReadMessage, ConnRead, CallClose, Close, LinkDown, vars, readVars

ChannelInv == WriterInv /\ ReaderInv /\ WritingInv /\ BufferInv /\ ReceivedInv

(* What the channel sees of the connection. *)
LEMMA AcceptedFinished == Accepted = Finished(flushed) /\ Accepted' = Finished(flushed)'
BY DEF Accepted, Finished

(* Unless the connection accepts something, the order stays. *)
LEMMA AcceptedStays ==
  ASSUME TypeOK, TypeOK', [Next]_vars, UNCHANGED flushed
  PROVE  Accepted' = Accepted
<1>1. flushed \in Nat /\ flushed <= Len(stream)
  BY DEF TypeOK
<1>2. Finished(flushed)' = Finished(flushed)
  <2>1. \A k \in Nat : k <= Len(stream) => Finished(k)' = Finished(k)
    BY FinishedStays
  <2> QED BY <1>1, <2>1 DEF Finished
<1> QED BY <1>2, AcceptedFinished

(* How a call is reported changes with the call only. *)
LEMMA OutcomeOf ==
  ASSUME TypeOK, NEW m \in Messages, NEW o,
         \A n \in Messages : Reported(n)' = IF n = m THEN o ELSE Reported(n)
  PROVE  [n \in Messages |-> Reported(n)]' = [[n \in Messages |-> Reported(n)] EXCEPT ![m] = o]
OBVIOUS

(* To the channel, a write of the connection finishes one message or none. *)
LEMMA ConnWriteStep ==
  ASSUME TypeOK, TypeOK', HolderInv, WritingInv, BufferInv,
         NEW m \in Messages, ConnWrite(m)
  PROVE  \/ Accepted' = Accepted
         \/ ~Channel!InChannel(m) /\ Accepted' = Append(Accepted, m)
<1>1. PICK n \in 1..Min2(Buffered, ConnBuf - InFlight) : flushed' = flushed + n
  BY DEF ConnWrite
<1>2. /\ stream \in Seq(Parts) /\ Len(stream) \in Nat /\ flushed \in Nat
      /\ flushed' \in Nat /\ flushed < flushed' /\ flushed' <= Len(stream')
      /\ stream' = stream
  BY <1>1, LenProperties DEF TypeOK, ConnWrite, writeVars
<1>3. \A i \in (flushed + 1)..Len(stream) : stream[i].msg = m /\ stream[i] \in Parts
  BY <1>2, ElementOfSeq DEF BufferInv, ConnWrite, MustWrite, Encoding
<1>4. Accepted' = Finished(flushed') /\ Accepted = Finished(flushed)
  BY <1>2, AcceptedFinished DEF Finished, Finishes
<1>5. CASE call[m] = "encoding"
  <2>1. ASSUME NEW i \in (flushed + 1)..flushed' PROVE stream[i] \notin DOMAIN Finishes
    <3>1. i \in (flushed + 1)..Len(stream) /\ i \in 1..Len(stream)
      BY <1>2
    <3>2. stream[i].part <= encoded /\ encoded < Size[m]
      BY <1>3, <1>5, <3>1 DEF WritingInv, HolderInv
    <3>3. stream[i].part \in Nat /\ encoded \in Nat /\ Size[m] \in Nat
      BY <1>3, <3>1, StreamAssumption DEF Parts, TypeOK, StreamAssumption
    <3> QED BY <1>3, <3>1, <3>2, <3>3, FinishesLast
  <2> QED BY <1>2, <1>4, <2>1, FinishedSkip
<1>6. CASE call[m] = "flushing"
  <2>1. /\ stream[Len(stream)] = LastPart(m)
        /\ \A i \in 1..(Len(stream) - 1) : stream[i] # LastPart(m)
    BY <1>6 DEF WritingInv
  <2>2. ASSUME NEW i \in (flushed + 1)..(Len(stream) - 1) PROVE stream[i] \notin DOMAIN Finishes
    <3>1. i \in (flushed + 1)..Len(stream) /\ i \in 1..(Len(stream) - 1)
      BY <1>2
    <3> QED BY <1>3, <2>1, <3>1, FinishesLast
  <2>3. CASE flushed' < Len(stream)
    <3>1. \A i \in (flushed + 1)..flushed' : i \in (flushed + 1)..(Len(stream) - 1)
      BY <1>2, <2>3
    <3>2. \A i \in (flushed + 1)..flushed' : stream[i] \notin DOMAIN Finishes
      BY <2>2, <3>1
    <3> QED BY <1>2, <1>4, <3>2, FinishedSkip
  <2>4. CASE flushed' = Len(stream)
    <3> DEFINE k == Len(stream) - 1
    <3>1. k \in Nat /\ flushed <= k /\ k < Len(stream) /\ k <= Len(stream) /\ k + 1 = Len(stream)
      BY <1>2, <2>4
    <3>2. \A i \in (flushed + 1)..k : stream[i] \notin DOMAIN Finishes
      BY <2>2
    <3> HIDE DEF k
    <3>3. Finished(k) = Finished(flushed)
      BY <1>2, <3>1, <3>2, FinishedSkip
    <3>4. stream[Len(stream)] \in DOMAIN Finishes /\ stream[Len(stream)].msg = m
      <4>1. Len(stream) \in (flushed + 1)..Len(stream)
        BY <1>2, <2>4
      <4>2. LastPart(m).msg = m /\ LastPart(m).part = Size[m]
        BY DEF LastPart
      <4> QED BY <1>3, <2>1, <4>1, <4>2, FinishesLast
    <3>5. Finished(k + 1) = IF stream[k + 1] \in DOMAIN Finishes
                            THEN Append(Finished(k), stream[k + 1].msg)
                            ELSE Finished(k)
      BY <3>1, FinishedNext
    <3>6. Finished(Len(stream)) = Append(Finished(k), m)
      BY <3>1, <3>4, <3>5
    <3>7. ~Channel!InChannel(m)
      <4>1. \A i \in 1..flushed : i \in 1..(Len(stream) - 1)
        BY <1>2, <2>4
      <4> QED BY <2>1, <4>1, InChannelMeans
    <3> QED BY <1>4, <2>4, <3>3, <3>6, <3>7
  <2> QED BY <1>2, <2>3, <2>4
<1> QED BY <1>5, <1>6 DEF ConnWrite, MustWrite

(* A message that is handed over is the next one in the channel. *)
LEMMA HandedOverIsNext ==
  ASSUME TypeOK, ReaderInv, ReceivedInv, NEW r \in Readers, FromWire(r)
  PROVE  /\ Len(received) < Len(Accepted)
         /\ received' = Append(received, Accepted[Len(received) + 1])
<1>1. /\ Complete /\ rmu # None /\ received' = Append(received, Assembled(wire))
  BY StreamAssumption DEF FromWire, ReaderInv, RmuInv, StreamAssumption
<1>2. Assembled(wire) = wire[1].msg
  BY DEF ReaderInv, WireInv, Assembled
<1>3. Finished(consumed) = Append(received, wire[1].msg)
  BY <1>1 DEF ReceivedInv, Pending
<1>4. /\ consumed \in Nat /\ flushed \in Nat /\ consumed <= flushed /\ flushed <= Len(stream)
      /\ received \in Seq(Messages \cup {Garbled})
  BY DEF TypeOK
<1> DEFINE rest == Selected(SubSeq(stream, consumed + 1, flushed), Finishes)
<1>5. /\ Accepted = Finished(consumed) \o rest
      /\ Finished(consumed) \in Seq(Messages) /\ rest \in Seq(Messages)
  BY <1>4, FinishedMore, AcceptedFinished
<1> HIDE DEF rest
<1>6. wire[1].msg \in Messages \cup {Garbled}
  <2>1. 1 \in 1..Len(wire) /\ wire \in Seq(Parts)
    BY <1>1, EmptySeq DEF Complete, TypeOK
  <2>2. wire[1] \in Parts
    BY <2>1, ElementOfSeq
  <2> QED BY <2>2 DEF Parts
<1>7. /\ Len(Finished(consumed)) = Len(received) + 1 /\ Len(received) \in Nat
      /\ Finished(consumed)[Len(received) + 1] = wire[1].msg
  BY <1>3, <1>4, <1>6, AppendProperties, LenProperties
<1>8. /\ Len(Accepted) = Len(Finished(consumed)) + Len(rest) /\ Len(rest) \in Nat
      /\ \A i \in 1..(Len(Finished(consumed)) + Len(rest)) :
           Accepted[i] = IF i <= Len(Finished(consumed)) THEN Finished(consumed)[i]
                         ELSE rest[i - Len(Finished(consumed))]
  <2>1. Len(rest) \in Nat
    BY <1>5, LenProperties
  <2> QED BY <1>5, <2>1, ConcatProperties
<1>9. Accepted[Len(received) + 1] = wire[1].msg
  BY <1>7, <1>8
<1> QED BY <1>1, <1>2, <1>7, <1>8, <1>9

(* To the channel, a step of the codec is a step or nothing. *)
LEMMA ChannelStep ==
  ASSUME ~MayTimeout, ChannelInv, ChannelInv', [Next]_vars
  PROVE  [Channel!Next]_(Channel!channelVars)
<1> DEFINE out == [m \in Messages |-> Reported(m)]
<1>0. TypeOK /\ TypeOK' /\ HolderInv /\ WritingInv /\ BufferInv /\ ReaderInv /\ ReceivedInv
  BY DEF ChannelInv, WriterInv
<1>1. UNCHANGED flushed => Accepted' = Accepted
  BY <1>0, AcceptedStays
<1>2. UNCHANGED call => out' = out
  BY DEF Reported
<1>3. \A m \in Messages : out[m] = Reported(m)
  OBVIOUS
<1>4. ASSUME NEW m \in Messages, NEW o,
             \A n \in Messages : Reported(n)' = IF n = m THEN o ELSE Reported(n)
      PROVE  out' = [out EXCEPT ![m] = o]
  BY <1>0, <1>4, OutcomeOf
<1>5. \A m \in Messages : Channel!InChannel(m) <=> \E i \in 1..flushed : stream[i] = LastPart(m)
  BY <1>0, InChannelMeans
<1>6. flushed \in Nat /\ flushed <= Len(stream) /\ Len(stream) \in Nat
  BY <1>0, LenProperties DEF TypeOK
<1> HIDE DEF out
<1>7. ASSUME NEW m \in Messages, ToWire(m) PROVE Channel!Next
  <2>1. UNCHANGED <<flushed, received>> /\ Accepted' = Accepted
    BY <1>1, <1>7 DEF ToWire, readVars
  <2>2. call[m] = "idle" /\ Reported(m) = "idle"
    BY <1>7 DEF ToWire, Reported
  <2>3. CASE m \in Plain
    <3>1. out' = [out EXCEPT ![m] = "failed"]
      <4>1. \A n \in Messages : Reported(n)' = IF n = m THEN "failed" ELSE Reported(n)
        BY <1>0, <1>7, <2>3 DEF ToWire, Reported, TypeOK
      <4> QED BY <1>4, <4>1
    <3>2. ~Channel!InChannel(m)
      <4>1. \A i \in 1..flushed : i \in 1..Len(stream)
        BY <1>6
      <4>2. \A i \in 1..Len(stream) : stream[i].msg # m
        BY <1>0, <2>2 DEF WritingInv
      <4>3. LastPart(m).msg = m
        BY DEF LastPart
      <4> QED BY <1>5, <4>1, <4>2, <4>3
    <3>3. Channel!Fail(m)
      BY <1>3, <2>1, <2>2, <3>1, <3>2 DEF Channel!Fail, out
    <3> QED BY <3>3 DEF Channel!Next
  <2>4. CASE m \notin Plain
    <3>1. out' = [out EXCEPT ![m] = "sending"]
      <4>1. \A n \in Messages : Reported(n)' = IF n = m THEN "sending" ELSE Reported(n)
        BY <1>0, <1>7, <2>4 DEF ToWire, Reported, TypeOK
      <4> QED BY <1>4, <4>1
    <3>2. Channel!Begin(m)
      BY <1>3, <2>1, <2>2, <3>1 DEF Channel!Begin, out
    <3> QED BY <3>2 DEF Channel!Next
  <2> QED BY <2>3, <2>4
<1>8. ASSUME NEW m \in Messages, LockWmu(m) \/ EncodeMsg(m)
      PROVE  UNCHANGED Channel!channelVars
  <2>1. UNCHANGED <<flushed, received>> /\ Accepted' = Accepted
    BY <1>1, <1>8 DEF LockWmu, EncodeMsg, readVars
  <2>2. \A n \in Messages : Reported(n)' = Reported(n)
    BY <1>0, <1>8 DEF LockWmu, EncodeMsg, Reported, TypeOK
  <2>3. out' = out
    BY <2>2 DEF out
  <2> QED BY <2>1, <2>3 DEF Channel!channelVars, out
<1>9. ASSUME NEW m \in Messages, ConnWrite(m)
      PROVE  Channel!Next \/ UNCHANGED Channel!channelVars
  <2>1. out' = out /\ received' = received
    BY <1>2, <1>9 DEF ConnWrite, writeVars, readVars
  <2>2. \/ Accepted' = Accepted
        \/ ~Channel!InChannel(m) /\ Accepted' = Append(Accepted, m)
    BY <1>0, <1>9, ConnWriteStep
  <2>3. CASE Accepted' = Accepted
    BY <2>1, <2>3 DEF Channel!channelVars, out
  <2>4. CASE ~Channel!InChannel(m) /\ Accepted' = Append(Accepted, m)
    <3>1. Reported(m) = "sending"
      BY <1>9 DEF ConnWrite, MustWrite, Reported
    <3>2. Channel!PutIn(m)
      BY <1>3, <2>1, <2>4, <3>1 DEF Channel!PutIn, out
    <3> QED BY <3>2 DEF Channel!Next
  <2> QED BY <2>2, <2>3, <2>4
<1>10. ASSUME NEW m \in Messages, WriteError(m) PROVE Channel!Next
  <2>1. UNCHANGED <<flushed, received>> /\ Accepted' = Accepted
    BY <1>1, <1>10 DEF WriteError, readVars
  <2>2. Reported(m) = "sending"
    BY <1>10 DEF WriteError, MustWrite, Reported
  <2>3. out' = [out EXCEPT ![m] = "failed"]
    <3>1. \A n \in Messages : Reported(n)' = IF n = m THEN "failed" ELSE Reported(n)
      BY <1>0, <1>10 DEF WriteError, Reported, TypeOK
    <3> QED BY <1>4, <3>1
  <2>4. ~Channel!InChannel(m)
    <3>1. CASE call[m] = "encoding"
      <4>1. ASSUME NEW i \in 1..flushed PROVE stream[i] # LastPart(m)
        <5>1. i \in 1..Len(stream)
          BY <1>6
        <5>2. stream[i].msg = m => stream[i].part <= encoded /\ encoded < Size[m]
          BY <1>0, <3>1, <5>1 DEF WritingInv, HolderInv
        <5>3. encoded \in Nat /\ Size[m] \in Nat
          BY <1>0, StreamAssumption DEF TypeOK, StreamAssumption
        <5>4. LastPart(m).msg = m /\ LastPart(m).part = Size[m]
          BY DEF LastPart
        <5> QED BY <5>2, <5>3, <5>4
      <4> QED BY <1>5, <4>1
    <3>2. CASE call[m] = "flushing"
      <4>1. Buffered > 0
        BY <1>10, <3>2 DEF WriteError, MustWrite
      <4>2. \A i \in 1..flushed : i \in 1..(Len(stream) - 1)
        BY <1>6, <4>1 DEF Buffered
      <4> QED BY <1>0, <1>5, <3>2, <4>2 DEF WritingInv
    <3> QED BY <1>10, <3>1, <3>2 DEF WriteError, MustWrite
  <2>5. Channel!Fail(m)
    BY <1>3, <2>1, <2>2, <2>3, <2>4 DEF Channel!Fail, out
  <2> QED BY <2>5 DEF Channel!Next
<1>11. ASSUME NEW m \in Messages, WriteReturn(m) PROVE Channel!Next
  <2>1. UNCHANGED <<flushed, received>> /\ Accepted' = Accepted
    BY <1>1, <1>11 DEF WriteReturn, readVars
  <2>2. Reported(m) = "sending" /\ call[m] = "flushing" /\ Buffered = 0
    BY <1>11 DEF WriteReturn, Reported
  <2>3. out' = [out EXCEPT ![m] = "ok"]
    <3>1. \A n \in Messages : Reported(n)' = IF n = m THEN "ok" ELSE Reported(n)
      BY <1>0, <1>11 DEF WriteReturn, Reported, TypeOK
    <3> QED BY <1>4, <3>1
  <2>4. Channel!InChannel(m)
    <3>1. flushed = Len(stream)
      BY <1>6, <2>2 DEF Buffered
    <3>2. Len(stream) > 0 /\ stream[Len(stream)] = LastPart(m)
      BY <1>0, <2>2 DEF WritingInv
    <3>3. flushed \in 1..flushed
      BY <1>6, <3>1, <3>2
    <3> QED BY <1>5, <3>1, <3>2, <3>3
  <2>5. Channel!Succeed(m)
    BY <1>3, <2>1, <2>2, <2>3, <2>4 DEF Channel!Succeed, out
  <2> QED BY <2>5 DEF Channel!Next
<1>12. ASSUME NEW r \in Readers, FromWire(r) PROVE Channel!Next
  <2>1. UNCHANGED <<flushed, call>> /\ Accepted' = Accepted /\ out' = out
    BY <1>1, <1>2, <1>12 DEF FromWire, writeVars
  <2>2. /\ Len(received) < Len(Accepted)
        /\ received' = Append(received, Accepted[Len(received) + 1])
    BY <1>0, <1>12, HandedOverIsNext
  <2>3. Channel!TakeOut
    BY <2>1, <2>2 DEF Channel!TakeOut, out
  <2> QED BY <2>3 DEF Channel!Next
<1>13. CASE UNCHANGED <<writeVars, flushed, received>>
  <2>1. out' = out /\ Accepted' = Accepted /\ received' = received
    BY <1>1, <1>2, <1>13 DEF writeVars
  <2> QED BY <2>1 DEF Channel!channelVars, out
<1> QED
  BY <1>7, <1>8, <1>9, <1>10, <1>11, <1>12, <1>13
  DEF Next, WriteMessage, ReadMessage, LockRmu, ConnRead, DecodeMsg, ReadError, CallClose,
      Close, LinkDown, vars, readVars

(* For any messages of any size, any buffers, writers and readers, and a   *)
(* connection that has refused one Write refusing every later one: the     *)
(* codec is a message channel.  ReadMessage hands over, in order and once, *)
(* what the connection has accepted, and WriteMessage tells the truth.     *)
THEOREM CodecIsAChannel ==
  ASSUME ~MayTimeout
  PROVE  Spec => ImplementsChannel
<1>1. Init => Channel!Init
  <2> SUFFICES ASSUME Init PROVE Channel!Init
    OBVIOUS
  <2>1. Accepted = <<>>
    BY NothingFinished DEF Init, Accepted, Finished
  <2> QED BY <2>1 DEF Init, Channel!Init, Reported
<1>2. Init => ChannelInv
  <2> SUFFICES ASSUME Init PROVE ChannelInv
    OBVIOUS
  <2>1. WritingInv /\ BufferInv
    BY DEF Init, WritingInv, BufferInv, Encoding
  <2>2. ReceivedInv
    BY NothingFinished DEF Init, ReceivedInv, Pending
  <2> QED BY <2>1, <2>2, InitWriterInv, InitReaderInv DEF ChannelInv
<1>3. ChannelInv /\ [Next]_vars => ChannelInv'
  BY NextWriterInv, NextReaderInv, NextWritingInv, NextBufferInv, NextReceivedInv
  DEF ChannelInv, WriterInv
<1>4. ChannelInv /\ ChannelInv' /\ [Next]_vars => [Channel!Next]_(Channel!channelVars)
  BY ChannelStep
<1> QED
  BY <1>1, <1>2, <1>3, <1>4, PTL DEF Spec, ImplementsChannel, Channel!Spec

=============================================================================
