------------------------ MODULE WebsocketCodecProofs ------------------------
(***************************************************************************)
(* The safety of the websocket codec for any number of writers, readers    *)
(* and foreign messages, of any size and in any number of frames.          *)
(***************************************************************************)
EXTENDS WebsocketCodec, SelectionsProofs, TLAPS

USE WebsocketAssumption

-----------------------------------------------------------------------------
(* What is in a websocket message, of either kind, and how much it is.     *)
LEMMA ContentIs ==
  ASSUME NEW x \in Messages \cup Foreign
  PROVE  /\ Content(x) \in Seq(Parts)
         /\ Len(Content(x)) \in Nat
         /\ x \in Messages => Len(Content(x)) = Size[x]
         /\ x \in Foreign => /\ Content(x) = ForeignSent[x].parts
                            /\ \A i \in 1..Len(Content(x)) : Content(x)[i].msg \in Foreign
<1>1. CASE x \in Messages
  <2>1. Size[x] \in Nat /\ x \notin Foreign
    BY <1>1
  <2>2. Content(x) = [i \in 1..Size[x] |-> [msg |-> x, part |-> i]]
    BY <1>1 DEF Content
  <2>3. \A i \in 1..Size[x] : [msg |-> x, part |-> i] \in Parts
    BY <1>1, <2>1 DEF Parts
  <2> QED BY <2>1, <2>2, <2>3
<1>2. CASE x \in Foreign
  <2>1. Content(x) = ForeignSent[x].parts /\ x \notin Messages
    BY <1>2 DEF Content
  <2> DEFINE T == [msg : Foreign, part : Nat]
  <2>2. Content(x) \in Seq(T)
    BY <1>2, <2>1 DEF WellFramed
  <2>3. \A q \in T : q \in Parts /\ q.msg \in Foreign
    BY DEF Parts
  <2> HIDE DEF T
  <2>4. Content(x) \in Seq(Parts)
    BY <2>2, <2>3
  <2>5. \A i \in 1..Len(Content(x)) : Content(x)[i].msg \in Foreign
    BY <2>2, <2>3
  <2> QED BY <2>1, <2>4, <2>5, LenProperties
<1> QED BY <1>1, <1>2

(* A foreign message is frames like any other's: the first carries its     *)
(* type, the last is final, and together they are what is in it.           *)
LEMMA ForeignFramesAre ==
  ASSUME NEW f \in Foreign
  PROVE  LET sent == ForeignFrames(f)
             cuts == ForeignSent[f].cuts
             from(i) == IF i = 1 THEN 0 ELSE cuts[i-1]
         IN  /\ sent \in Seq(Frames) /\ sent # <<>> /\ Len(sent) \in Nat \ {0}
             /\ Len(sent) = Len(cuts) /\ cuts[Len(sent)] = Len(Content(f))
             /\ \A i \in 1..Len(sent) :
                  /\ sent[i].from = f
                  /\ sent[i].kind = "more" <=> i > 1
                  /\ sent[i].fin <=> i = Len(sent)
                  /\ cuts[i] \in 0..Len(Content(f))
                  /\ from(i) \in 0..cuts[i]
                  /\ sent[i].parts = SubSeq(Content(f), from(i) + 1, cuts[i])
<1> DEFINE s == ForeignSent[f]
           cuts == s.cuts
           n == Len(cuts)
           from(i) == IF i = 1 THEN 0 ELSE cuts[i-1]
           frame(i) == [kind  |-> IF i = 1 THEN s.kind ELSE "more",
                        parts |-> SubSeq(s.parts, from(i) + 1, cuts[i]),
                        fin   |-> i = n,
                        from  |-> f]
           sent == [i \in 1..n |-> frame(i)]
<1>1. /\ s.kind \in {"text", "binary"} /\ s.parts \in Seq(Parts)
      /\ s.parts = Content(f) /\ Len(Content(f)) \in Nat
      /\ cuts \in Seq(0..Len(s.parts)) /\ cuts # <<>>
      /\ cuts[n] = Len(s.parts)
  BY ContentIs DEF WellFramed
<1>2. \A i, j \in 1..n : i <= j => cuts[i] <= cuts[j]
  BY DEF WellFramed
<1>3. n \in Nat \ {0} /\ \A i \in 1..n : cuts[i] \in 0..Len(s.parts)
  <2>1. n \in Nat /\ n # 0
    BY <1>1, EmptySeq, LenProperties
  <2>2. \A i \in 1..n : cuts[i] \in 0..Len(s.parts)
    BY <1>1, ElementOfSeq
  <2> QED BY <2>1, <2>2
<1>4. ForeignFrames(f) = sent
  BY DEF ForeignFrames
<1> HIDE DEF s, cuts, n
<1>5. ASSUME NEW i \in 1..n PROVE from(i) \in 0..cuts[i] /\ cuts[i] \in Nat
  <2>1. CASE i = 1
    BY <1>1, <1>3, <2>1
  <2>2. CASE i # 1
    <3>1. i - 1 \in 1..n /\ i - 1 <= i
      BY <1>3, <2>2
    <3>2. cuts[i-1] <= cuts[i]
      BY <1>2, <3>1
    <3> QED BY <1>1, <1>3, <2>2, <3>1, <3>2
  <2> QED BY <2>1, <2>2
<1>6. \A i \in 1..n : frame(i) \in Frames
  <2> SUFFICES ASSUME NEW i \in 1..n PROVE frame(i) \in Frames
    OBVIOUS
  <2>1. from(i) + 1 \in Int /\ cuts[i] \in Int
    BY <1>5
  <2>2. \A j \in from(i) + 1..cuts[i] : j \in 1..Len(s.parts)
    BY <1>1, <1>3, <1>5
  <2>3. SubSeq(s.parts, from(i) + 1, cuts[i]) \in Seq(Parts)
    BY <1>1, <1>3, <1>5, <2>1, <2>2, SubSeqProperties
  <2> QED BY <1>1, <2>3 DEF Frames
<1>7. Len(sent) = n /\ sent \in Seq(Frames)
  BY <1>3, <1>6
<1>8. sent # <<>>
  BY <1>3, <1>7, EmptySeq
<1>9. ASSUME NEW i \in 1..n
      PROVE  /\ sent[i].from = f
             /\ sent[i].kind = "more" <=> i > 1
             /\ sent[i].fin <=> i = n
             /\ sent[i].parts = SubSeq(Content(f), from(i) + 1, cuts[i])
  <2>1. sent[i] = frame(i)
    OBVIOUS
  <2>2. sent[i].kind = (IF i = 1 THEN s.kind ELSE "more") /\ (i = 1 \/ i > 1)
    BY <1>3, <2>1
  <2>3. sent[i].from = f /\ (sent[i].fin <=> i = n)
    BY <2>1
  <2>4. sent[i].parts = SubSeq(s.parts, from(i) + 1, cuts[i])
    BY <2>1
  <2>5. sent[i].kind = "more" <=> i > 1
    BY <1>1, <2>2
  <2> QED BY <1>1, <2>3, <2>4, <2>5
<1> HIDE DEF sent
<1>10. /\ sent \in Seq(Frames) /\ sent # <<>> /\ Len(sent) \in Nat \ {0}
       /\ Len(sent) = Len(cuts) /\ cuts[Len(sent)] = Len(Content(f))
  BY <1>1, <1>3, <1>7, <1>8 DEF n
<1>11. \A i \in 1..Len(sent) :
         /\ sent[i].from = f
         /\ sent[i].kind = "more" <=> i > 1
         /\ sent[i].fin <=> i = Len(sent)
         /\ cuts[i] \in 0..Len(Content(f))
         /\ from(i) \in 0..cuts[i]
         /\ sent[i].parts = SubSeq(Content(f), from(i) + 1, cuts[i])
  BY <1>1, <1>3, <1>5, <1>7, <1>9
<1> QED BY <1>4, <1>10, <1>11 DEF s, cuts

(* Frames that are sent stay where they are, and so do the parts. *)
LEMMA WriteTypeOK ==
  ASSUME TypeOK, NEW m \in Messages, WriteMessage(m)
  PROVE  TypeOK'
<1> USE DEF TypeOK, connVars, readVars, Set, Fail
<1>0. <<>> \in Seq(Parts)
  BY EmptySeq
<1>1. CASE ToWire(m)
  BY <1>1 DEF ToWire
<1>2. CASE LockWmu(m)
  BY <1>2 DEF LockWmu
<1>3. CASE NextWriter(m)
  <2>1. writeErr' = writeErr /\ frames' = frames
    BY <1>3 DEF NextWriter
  <2>2. CASE writeErr
    BY <1>3, <2>2 DEF NextWriter
  <2>3. CASE ~writeErr
    <3>1. buffered' = <<>> /\ encoded' = 0 /\ wmu' = wmu
      BY <1>3, <2>3 DEF NextWriter
    <3>2. call' = [call EXCEPT ![m] = "encoding"]
      BY <1>3, <2>3 DEF NextWriter
    <3>3. UNCHANGED <<writeErr, connVars, readVars>>
      BY <1>3 DEF NextWriter
    <3> QED BY <1>0, <3>1, <3>2, <3>3
  <2> QED BY <2>2, <2>3
<1>4. CASE EncodeMsg(m)
  <2>1. [msg |-> m, part |-> encoded + 1] \in Parts
    BY DEF Parts
  <2> QED BY <1>4, <2>1, AppendProperties DEF EncodeMsg
<1>5. ASSUME NEW final \in BOOLEAN, WriteFrame(m, final), UNCHANGED taken
      PROVE  frames' \in Seq(Frames) /\ taken' \in 0..Len(frames')
  <2>1. Kind(m) \in {"text", "binary", "more"}
    BY DEF Kind
  <2>2. [kind |-> Kind(m), parts |-> buffered, fin |-> final, from |-> m] \in Frames
    BY <2>1 DEF Frames
  <2> QED BY <1>5, <2>2, AppendProperties, LenProperties DEF WriteFrame
<1>6. CASE FlushFrame(m)
  BY <1>5, <1>6, <1>0 DEF FlushFrame
<1>7. CASE CloseWriter(m)
  BY <1>5, <1>7, <1>0 DEF CloseWriter
<1>8. CASE WriteReturn(m)
  BY <1>8 DEF WriteReturn
<1>9. CASE WriteError(m)
  BY <1>9 DEF WriteError
<1> QED
  BY <1>1, <1>2, <1>3, <1>4, <1>6, <1>7, <1>8, <1>9 DEF WriteMessage

(* The reader never gets past the frames that have been sent. *)
LEMMA ReadTypeOK ==
  ASSUME TypeOK, NEW r \in Readers, ReadMessage(r)
  PROVE  TypeOK'
<1> USE DEF TypeOK, connVars, writeVars, Set, Return
<1>a. ASSUME FrameReady
      PROVE  /\ NextFrame \in Frames /\ NextFrame.parts \in Seq(Parts)
             /\ taken + 1 \in 0..Len(frames)
  <2>1. taken + 1 \in 1..Len(frames)
    BY <1>a, LenProperties DEF FrameReady
  <2>2. frames[taken + 1] \in Frames
    BY <2>1, ElementOfSeq
  <2> QED BY <2>1, <2>2 DEF NextFrame, Frames
<1>b. \A x \in Messages \cup Foreign \cup {"ErrInvalidMsg", "EOF", Garbled} :
        Append(results, x) \in Seq(Messages \cup Foreign \cup {"ErrInvalidMsg", "EOF", Garbled})
  BY AppendProperties
<1>1. CASE LockRmu(r)
  BY <1>1 DEF LockRmu
<1>2. CASE SkipFrame(r)
  BY <1>2, <1>a DEF SkipFrame
<1>3. CASE NextReader(r)
  <2>1. CASE NextFrame.kind = "binary"
    BY <1>3, <1>a, <2>1 DEF NextReader
  <2>2. CASE NextFrame.kind # "binary"
    <3>0. results' = Append(results, "ErrInvalidMsg")
      BY <1>3, <2>2 DEF NextReader
    <3>1. results' \in Seq(Messages \cup Foreign \cup {"ErrInvalidMsg", "EOF", Garbled})
      BY <1>b, <3>0
    <3>2. taken + 1 \in 0..Len(frames)
      BY <1>3, <1>a DEF NextReader
    <3> QED BY <1>3, <2>2, <3>1, <3>2 DEF NextReader
  <2> QED BY <2>1, <2>2
<1>4. CASE DecodeMsg(r)
  BY <1>4, <1>a, ConcatProperties DEF DecodeMsg
<1>5. CASE FromWire(r)
  <2>1. have # <<>> /\ 1 \in 1..Len(have)
    BY <1>5, EmptySeq DEF FromWire, Whole
  <2>2. have[1] \in Parts /\ have[1].msg \in Messages \cup Foreign
    <3>1. have[1] \in Parts
      BY <2>1, ElementOfSeq
    <3> QED BY <3>1 DEF Parts
  <2>3. Size[have[1].msg] \in Nat \ {0} /\ Len(have) \in Nat
    BY <2>2, LenProperties
  <2>4. Assembled(have) \in Messages \cup Foreign \cup {Garbled}
    BY <2>2 DEF Assembled
  <2>5. SubSeq(have, Size[have[1].msg] + 1, Len(have)) \in Seq(Parts)
    BY <2>3, SubSeqProperties
  <2> QED BY <1>5, <1>b, <2>4, <2>5 DEF FromWire
<1>6. CASE DecodeError(r)
  BY <1>6, <1>b DEF DecodeError
<1>7. CASE ReadError(r)
  BY <1>7 DEF ReadError
<1> QED
  BY <1>1, <1>2, <1>3, <1>4, <1>5, <1>6, <1>7 DEF ReadMessage

(* Every variable keeps to its range. *)
THEOREM TypeCorrect == Spec => []TypeOK
<1>1. Init => TypeOK
  <2>1. <<>> \in Seq(Parts) /\ <<>> \in Seq(Frames) /\ Len(<<>>) = 0
    BY EmptySeq
  <2>2. <<>> \in Seq(Messages \cup Foreign \cup {"ErrInvalidMsg", "EOF", Garbled})
    BY EmptySeq
  <2>3. Init => writeErr \in BOOLEAN /\ closed \subseteq {"near", "far"}
    BY DEF Init
  <2>4. Init => /\ call \in [Messages -> {"idle", "locking", "starting", "encoding",
                                         "closing", "closed", "ok", "failed"}]
                /\ read \in [Readers -> {"idle", "next", "decoding", "stopped"}]
    BY DEF Init
  <2> QED BY <2>1, <2>2, <2>3, <2>4 DEF Init, TypeOK
<1>2. TypeOK /\ [Next]_vars => TypeOK'
  <2> SUFFICES ASSUME TypeOK, [Next]_vars PROVE TypeOK'
    OBVIOUS
  <2>1. ASSUME NEW m \in Messages, WriteMessage(m) PROVE TypeOK'
    BY <2>1, WriteTypeOK
  <2>2. ASSUME NEW f \in Foreign, SendForeign(f) PROVE TypeOK'
    <3>1. ForeignFrames(f) \in Seq(Frames)
      BY ForeignFramesAre
    <3>2. /\ frames \o ForeignFrames(f) \in Seq(Frames)
          /\ Len(frames \o ForeignFrames(f)) = Len(frames) + Len(ForeignFrames(f))
          /\ Len(frames) \in Nat /\ Len(ForeignFrames(f)) \in Nat
      BY <3>1, ConcatProperties, LenProperties DEF TypeOK
    <3> QED BY <2>2, <3>2 DEF SendForeign, TypeOK, writeVars, readVars
  <2>3. ASSUME NEW r \in Readers, ReadMessage(r) PROVE TypeOK'
    BY <2>3, ReadTypeOK
  <2>4. ASSUME NEW e \in {"near", "far"}, Close(e) PROVE TypeOK'
    BY <2>4 DEF Close, TypeOK, writeVars, readVars
  <2>5. CASE LinkDown
    BY <2>5 DEF LinkDown, TypeOK, writeVars, readVars
  <2>6. CASE UNCHANGED vars
    BY <2>6 DEF vars, writeVars, connVars, readVars, TypeOK
  <2> QED BY <2>1, <2>2, <2>3, <2>4, <2>5, <2>6 DEF Next
<1> QED BY <1>1, <1>2, PTL DEF Spec

-----------------------------------------------------------------------------
Unfinished == frames # <<>> /\ ~frames[Len(frames)].fin

(* Whoever holds wmu, and nobody else, is past it; a websocket message that*)
(* is not finished is that of the holder, who is still at it, or will never*)
(* be, because the Conn writes no more.                                    *)
WriterInv ==
  /\ \A m \in Messages :
       call[m] \in {"starting", "encoding", "closing", "closed"} <=> wmu = m
  /\ writeErr => \A m \in Messages : call[m] \notin {"encoding", "closing", "closed"}
  /\ Unfinished =>
       \/ writeErr
       \/ /\ wmu \in Messages /\ call[wmu] \in {"encoding", "closing"}
          /\ frames[Len(frames)].from = wmu

FrameInv == FramesWhole /\ WriterInv

(* A frame that goes on with an unfinished message of the same writer, or  *)
(* starts one when there is none, keeps the messages whole.                *)
LEMMA FrameContinues ==
  ASSUME TypeOK, FrameInv, NEW m \in Messages, NEW final \in BOOLEAN,
         call[m] \in {"encoding", "closing"}, WriteFrame(m, final)
  PROVE  /\ FramesWhole'
         /\ frames' # <<>>
         /\ frames'[Len(frames')].fin = final
         /\ frames'[Len(frames')].from = m
<1> DEFINE new == [kind |-> Kind(m), parts |-> buffered, fin |-> final, from |-> m]
<1>1. frames' = Append(frames, new) /\ new \in Frames
  <2>1. Kind(m) \in {"text", "binary", "more"}
    BY DEF Kind
  <2>2. new \in Frames
    BY <2>1 DEF Frames, TypeOK
  <2> QED BY <2>2 DEF WriteFrame
<1>2. /\ Len(frames') = Len(frames) + 1 /\ frames' # <<>> /\ Len(frames) \in Nat
      /\ \A i \in 1..Len(frames) : frames'[i] = frames[i]
      /\ frames'[Len(frames) + 1] = new
  BY <1>1, AppendProperties, LenProperties DEF TypeOK
<1>3. IF Unfinished THEN new.kind = "more" /\ frames[Len(frames)].from = m
                    ELSE new.kind = "binary"
  BY DEF Kind, Last, Unfinished, FrameInv, WriterInv
<1>4. FramesWhole'
  <2> SUFFICES ASSUME NEW i \in 2..Len(frames')
               PROVE  IF frames'[i].kind = "more"
                      THEN ~frames'[i-1].fin /\ frames'[i].from = frames'[i-1].from
                      ELSE frames'[i-1].fin
    BY DEF FramesWhole
  <2>1. CASE i \in 2..Len(frames)
    <3>1. frames'[i] = frames[i] /\ frames'[i-1] = frames[i-1]
      BY <1>2, <2>1
    <3> QED BY <2>1, <3>1 DEF FrameInv, FramesWhole
  <2>2. CASE i = Len(frames) + 1
    <3>1. frames'[i] = new /\ frames'[i-1] = frames[Len(frames)]
      BY <1>2, <2>2
    <3>2. frames # <<>>
      BY <2>2, EmptySeq
    <3>3. CASE Unfinished
      BY <1>3, <3>1, <3>3 DEF Unfinished
    <3>4. CASE ~Unfinished
      BY <1>3, <3>1, <3>2, <3>4 DEF Unfinished
    <3> QED BY <3>3, <3>4
  <2> QED BY <1>2, <2>1, <2>2
<1> QED BY <1>2, <1>4

(* A frame of a WriteMessage starts a websocket message when none is       *)
(* unfinished, or continues its own: whoever holds wmu is the only one.    *)
LEMMA WriteFrameInv ==
  ASSUME TypeOK, FrameInv, NEW m \in Messages, WriteMessage(m)
  PROVE  FrameInv'
<1>w. WriterInv /\ FramesWhole
  BY DEF FrameInv
<1>k. ASSUME UNCHANGED frames PROVE FramesWhole' /\ (Unfinished' <=> Unfinished)
  BY <1>w, <1>k DEF FramesWhole, Unfinished
<1>n. None \notin Messages
  OBVIOUS
<1>t. call \in [Messages -> {"idle", "locking", "starting", "encoding", "closing",
                            "closed", "ok", "failed"}]
  BY DEF TypeOK
<1> USE DEF Set
<1>1. CASE ToWire(m)
  <2>1. UNCHANGED <<wmu, writeErr, frames>> /\ call[m] = "idle"
        /\ call' = [call EXCEPT ![m] = call'[m]] /\ call'[m] \in {"failed", "locking"}
    BY <1>1, <1>t DEF ToWire, connVars
  <2> QED BY <1>w, <1>k, <1>t, <2>1 DEF FrameInv, WriterInv
<1>2. CASE LockWmu(m)
  <2>1. UNCHANGED <<writeErr, frames>> /\ call[m] = "locking" /\ wmu = None /\ wmu' = m
        /\ call' = [call EXCEPT ![m] = "starting"]
    BY <1>2 DEF LockWmu, connVars
  <2> QED BY <1>w, <1>k, <1>n, <1>t, <2>1 DEF FrameInv, WriterInv
<1>3. CASE NextWriter(m)
  <2>1. UNCHANGED <<writeErr, frames>> /\ call[m] = "starting"
    BY <1>3 DEF NextWriter, connVars
  <2>2. CASE writeErr
    <3>1. wmu' = None /\ call' = [call EXCEPT ![m] = "failed"]
      BY <1>3, <2>2 DEF NextWriter, Fail
    <3> QED BY <1>w, <1>k, <1>n, <1>t, <2>1, <2>2, <3>1 DEF FrameInv, WriterInv
  <2>3. CASE ~writeErr
    <3>1. wmu' = wmu /\ call' = [call EXCEPT ![m] = "encoding"]
      BY <1>3, <2>3 DEF NextWriter
    <3> QED BY <1>w, <1>k, <1>t, <2>1, <2>3, <3>1 DEF FrameInv, WriterInv
  <2> QED BY <2>2, <2>3
<1>4. CASE EncodeMsg(m)
  <2>1. UNCHANGED <<wmu, writeErr, frames>> /\ call[m] = "encoding"
        /\ call' = [call EXCEPT ![m] = call'[m]] /\ call'[m] \in {"closing", "encoding"}
    BY <1>4, <1>t DEF EncodeMsg, connVars
  <2> QED BY <1>w, <1>k, <1>t, <2>1 DEF FrameInv, WriterInv
<1>5. CASE FlushFrame(m)
  <2>1. UNCHANGED <<call, wmu, writeErr>> /\ call[m] = "encoding" /\ WriteFrame(m, FALSE)
    BY <1>5 DEF FlushFrame
  <2>2. FramesWhole' /\ frames'[Len(frames')].from = m
    BY <2>1, FrameContinues
  <2> QED BY <1>w, <1>t, <2>1, <2>2 DEF FrameInv, WriterInv
<1>6. CASE CloseWriter(m)
  <2>1. UNCHANGED <<wmu, writeErr>> /\ call[m] = "closing" /\ WriteFrame(m, TRUE)
        /\ call' = [call EXCEPT ![m] = "closed"]
    BY <1>6 DEF CloseWriter
  <2>2. FramesWhole' /\ frames'[Len(frames')].fin = TRUE
    BY <2>1, FrameContinues
  <2> QED BY <1>w, <1>t, <2>1, <2>2 DEF FrameInv, WriterInv, Unfinished
<1>7. CASE WriteReturn(m)
  <2>1. UNCHANGED <<writeErr, frames>> /\ call[m] = "closed" /\ wmu' = None
        /\ call' = [call EXCEPT ![m] = "ok"]
    BY <1>7 DEF WriteReturn, connVars
  <2> QED BY <1>w, <1>k, <1>n, <1>t, <2>1 DEF FrameInv, WriterInv
<1>8. CASE WriteError(m)
  <2>1. writeErr' = TRUE /\ UNCHANGED frames /\ call[m] \in {"encoding", "closing"}
        /\ wmu' = None /\ call' = [call EXCEPT ![m] = "failed"]
    BY <1>8 DEF WriteError, Fail, connVars
  <2> QED BY <1>w, <1>k, <1>n, <1>t, <2>1 DEF FrameInv, WriterInv
<1> QED
  BY <1>1, <1>2, <1>3, <1>4, <1>5, <1>6, <1>7, <1>8 DEF WriteMessage

(* A foreign message comes when no writer is at work, and whole.           *)
LEMMA ForeignFrameInv ==
  ASSUME TypeOK, FrameInv, NEW f \in Foreign, SendForeign(f)
  PROVE  FrameInv'
<1> DEFINE sent == ForeignFrames(f)
           n == Len(frames)
<1>1. /\ sent \in Seq(Frames) /\ sent # <<>> /\ Len(sent) \in Nat \ {0}
      /\ \A i \in 1..Len(sent) : /\ sent[i].from = f
                                 /\ sent[i].kind = "more" <=> i > 1
                                 /\ sent[i].fin <=> i = Len(sent)
  BY ForeignFramesAre
<1> HIDE DEF sent
<1>2. /\ n \in Nat /\ frames' = frames \o sent /\ Len(frames') = n + Len(sent)
      /\ \A i \in 1..n : frames'[i] = frames[i]
      /\ \A i \in 1..Len(sent) : frames'[n + i] = sent[i]
  <2>1. frames' = frames \o sent
    BY DEF SendForeign, sent
  <2>2. /\ n \in Nat /\ Len(frames \o sent) = n + Len(sent)
        /\ \A i \in 1..(n + Len(sent)) :
             (frames \o sent)[i] = IF i <= n THEN frames[i] ELSE sent[i - n]
    BY <1>1, ConcatProperties, LenProperties DEF TypeOK
  <2>3. \A i \in 1..Len(sent) : i + n \in 1..(n + Len(sent)) /\ ~(n + i <= n) /\ n + i - n = i
    BY <1>1, <2>2
  <2> QED BY <1>1, <2>1, <2>2, <2>3
<1>3. ~Unfinished
  BY DEF SendForeign, FrameInv, WriterInv
<1>4. FramesWhole'
  <2> SUFFICES ASSUME NEW i \in 2..Len(frames')
               PROVE  IF frames'[i].kind = "more"
                      THEN ~frames'[i-1].fin /\ frames'[i].from = frames'[i-1].from
                      ELSE frames'[i-1].fin
    BY DEF FramesWhole
  <2>1. CASE i <= n
    <3>1. i \in 2..n /\ frames'[i] = frames[i] /\ frames'[i-1] = frames[i-1]
      BY <1>2, <2>1
    <3> QED BY <3>1 DEF FrameInv, FramesWhole
  <2>2. CASE i = n + 1
    <3>1. frames'[i] = sent[1] /\ frames'[i-1] = frames[n] /\ n # 0
      BY <1>1, <1>2, <2>2
    <3>2. frames # <<>>
      BY <3>1, EmptySeq
    <3> QED BY <1>1, <1>3, <3>1, <3>2 DEF Unfinished
  <2>3. CASE i > n + 1
    <3>1. PICK j \in 2..Len(sent) : i = n + j
      <4>1. i - n \in 2..Len(sent) /\ i = n + (i - n)
        BY <1>1, <1>2, <2>3
      <4> QED BY <4>1
    <3>2. frames'[i] = sent[j] /\ frames'[i-1] = sent[j-1]
      BY <1>1, <1>2, <3>1
    <3> QED BY <1>1, <3>1, <3>2
  <2> QED BY <1>2, <2>1, <2>2, <2>3
<1>5. ~Unfinished'
  <2>1. frames'[Len(frames')] = sent[Len(sent)]
    BY <1>1, <1>2
  <2> QED BY <1>1, <2>1 DEF Unfinished
<1> QED BY <1>4, <1>5 DEF SendForeign, writeVars, FrameInv, WriterInv

(* For any number of writers, readers and foreign messages: a websocket    *)
(* message is one writer's from its first frame to its last, and nothing   *)
(* follows one that was not finished.                                      *)
THEOREM MessagesStayWhole == Spec => []FramesWhole
<1>1. Init => FrameInv
  <2>1. Init => FramesWhole
    BY EmptySeq DEF Init, FramesWhole
  <2>2. Init => WriterInv
    BY DEF Init, WriterInv, Unfinished
  <2> QED BY <2>1, <2>2 DEF FrameInv
<1>2. TypeOK /\ FrameInv /\ [Next]_vars => FrameInv'
  <2> SUFFICES ASSUME TypeOK, FrameInv, [Next]_vars PROVE FrameInv'
    OBVIOUS
  <2>1. ASSUME NEW m \in Messages, WriteMessage(m) PROVE FrameInv'
    BY <2>1, WriteFrameInv
  <2>2. ASSUME NEW f \in Foreign, SendForeign(f) PROVE FrameInv'
    BY <2>2, ForeignFrameInv
  <2>3. ASSUME UNCHANGED <<writeVars, frames>> PROVE FrameInv'
    BY <2>3 DEF writeVars, FrameInv, FramesWhole, WriterInv, Unfinished
  <2>4. ASSUME NEW r \in Readers, ReadMessage(r) PROVE UNCHANGED <<writeVars, frames>>
    BY <2>4 DEF ReadMessage, LockRmu, SkipFrame, NextReader, DecodeMsg, FromWire,
                DecodeError, ReadError, connVars
  <2>5. ASSUME NEW e \in {"near", "far"}, Close(e) PROVE UNCHANGED <<writeVars, frames>>
    BY <2>5 DEF Close
  <2>6. LinkDown => UNCHANGED <<writeVars, frames>>
    BY DEF LinkDown
  <2>7. UNCHANGED vars => UNCHANGED <<writeVars, frames>>
    BY DEF vars, connVars
  <2> QED BY <2>1, <2>2, <2>3, <2>4, <2>5, <2>6, <2>7 DEF Next
<1>3. FrameInv => FramesWhole
  BY DEF FrameInv
<1> QED BY <1>1, <1>2, <1>3, TypeCorrect, PTL DEF Spec

-----------------------------------------------------------------------------
(* How much of its websocket message is out when a frame has gone, and     *)
(* what is in the frame: the piece from where the frame before it ended.   *)
FrameAt(f, from, to) ==
  /\ from <= to /\ to <= Len(Content(f.from))
  /\ f.parts = SubSeq(Content(f.from), from + 1, to)
  /\ f.fin => to = Len(Content(f.from))
  /\ f.from \in Messages => f.kind # "text" /\ (f.fin \/ to < Size[f.from])

Start(fs, off, i) == IF fs[i].kind = "more" THEN off[i-1] ELSE 0

Placed(fs, off) ==
  \A i \in 1..Len(fs) : /\ fs[i].kind = "more" => i > 1
                        /\ FrameAt(fs[i], Start(fs, off, i), off[i])

LEMMA PlacedAppend ==
  ASSUME NEW fs \in Seq(Frames), NEW off \in [1..Len(fs) -> Nat], Placed(fs, off),
         NEW f \in Frames, NEW to \in Nat, f.kind = "more" => Len(fs) > 0,
         NEW start, start = (IF f.kind = "more" THEN off[Len(fs)] ELSE 0),
         FrameAt(f, start, to),
         NEW new \in [1..(Len(fs) + 1) -> Nat], new[Len(fs) + 1] = to,
         \A i \in 1..Len(fs) : new[i] = off[i]
  PROVE  new \in [1..Len(Append(fs, f)) -> Nat] /\ Placed(Append(fs, f), new)
<1> DEFINE gs == Append(fs, f)
           n == Len(fs)
<1>1. /\ n \in Nat /\ Len(gs) = n + 1 /\ gs[n + 1] = f
      /\ \A i \in 1..n : gs[i] = fs[i] /\ new[i] = off[i] /\ off[i] \in Nat
  <2>1. /\ n \in Nat /\ Len(gs) = n + 1 /\ gs[n + 1] = f
        /\ \A i \in 1..n : gs[i] = fs[i]
    BY AppendProperties, LenProperties
  <2>2. \A i \in 1..n : new[i] = off[i] /\ off[i] \in Nat
    OBVIOUS
  <2> QED BY <2>1, <2>2
<1>2. new[n + 1] = to
  BY <1>1
<1> HIDE DEF gs, n
<1>3. ASSUME NEW i \in 1..Len(gs)
      PROVE  /\ gs[i].kind = "more" => i > 1
             /\ FrameAt(gs[i], Start(gs, new, i), new[i])
  <2>1. CASE i \in 1..n
    <3>1. gs[i] = fs[i] /\ new[i] = off[i] /\ (fs[i].kind = "more" => i > 1)
      BY <1>1, <2>1 DEF Placed, n
    <3>2. fs[i].kind = "more" => i - 1 \in 1..n
      BY <1>1, <2>1, <3>1
    <3>3. Start(gs, new, i) = Start(fs, off, i)
      BY <1>1, <3>1, <3>2 DEF Start
    <3> QED BY <2>1, <3>1, <3>3 DEF Placed, n
  <2>2. CASE i = n + 1
    <3>1. gs[i] = f /\ new[i] = to
      BY <1>1, <1>2, <2>2
    <3>2. f.kind = "more" => n \in 1..n /\ i > 1
      BY <1>1, <2>2 DEF n
    <3>3. f.kind = "more" => new[i - 1] = off[n]
      <4>1. i - 1 = n
        BY <1>1, <2>2
      <4>2. \A j \in 1..n : new[j] = off[j]
        BY <1>1
      <4> QED BY <3>2, <4>1, <4>2
    <3>4. Start(gs, new, i) = IF f.kind = "more" THEN off[n] ELSE 0
      BY <3>1, <3>3 DEF Start
    <3> QED BY <3>1, <3>2, <3>4 DEF n
  <2> QED BY <1>1, <2>1, <2>2
<1>4. new \in [1..Len(gs) -> Nat]
  BY <1>1 DEF n
<1> QED BY <1>3, <1>4 DEF Placed, gs

LEMMA PlacedForeign ==
  ASSUME NEW fs \in Seq(Frames), NEW off \in [1..Len(fs) -> Nat], Placed(fs, off),
         NEW f \in Foreign,
         NEW new, new = [i \in 1..(Len(fs) + Len(ForeignFrames(f))) |->
                           IF i <= Len(fs) THEN off[i] ELSE ForeignSent[f].cuts[i - Len(fs)]]
  PROVE  /\ new \in [1..Len(fs \o ForeignFrames(f)) -> Nat]
         /\ Placed(fs \o ForeignFrames(f), new)
<1> DEFINE sent == ForeignFrames(f)
           cuts == ForeignSent[f].cuts
           gs == fs \o sent
           n == Len(fs)
           from(j) == IF j = 1 THEN 0 ELSE cuts[j-1]
<1>1. /\ sent \in Seq(Frames) /\ Len(sent) \in Nat \ {0}
      /\ cuts[Len(sent)] = Len(Content(f)) /\ Len(Content(f)) \in Nat
      /\ \A j \in 1..Len(sent) :
           /\ sent[j].from = f
           /\ sent[j].kind = "more" <=> j > 1
           /\ sent[j].fin <=> j = Len(sent)
           /\ cuts[j] \in 0..Len(Content(f))
           /\ from(j) \in 0..cuts[j]
           /\ sent[j].parts = SubSeq(Content(f), from(j) + 1, cuts[j])
  BY ForeignFramesAre, ContentIs
<1>a. n \in Nat
  BY LenProperties
<1>b. new = [i \in 1..(n + Len(sent)) |-> IF i <= n THEN off[i] ELSE cuts[i - n]]
  OBVIOUS
<1>c. f \notin Messages
  OBVIOUS
<1> HIDE DEF sent, cuts
<1>2. /\ Len(gs) = n + Len(sent)
      /\ \A i \in 1..(n + Len(sent)) : gs[i] = IF i <= n THEN fs[i] ELSE sent[i - n]
  BY <1>1, ConcatProperties
<1>3. \A i \in 1..n : gs[i] = fs[i] /\ new[i] = off[i] /\ off[i] \in Nat
  BY <1>1, <1>a, <1>b, <1>2
<1>4. \A j \in 1..Len(sent) : gs[n + j] = sent[j] /\ new[n + j] = cuts[j]
  <2> SUFFICES ASSUME NEW j \in 1..Len(sent)
               PROVE  gs[n + j] = sent[j] /\ new[n + j] = cuts[j]
    OBVIOUS
  <2>1. n + j \in 1..(n + Len(sent)) /\ ~(n + j <= n) /\ n + j - n = j
    BY <1>1, <1>a
  <2> QED BY <1>b, <1>2, <2>1
<1> HIDE DEF gs, n
<1>5. ASSUME NEW i \in 1..Len(gs)
      PROVE  /\ gs[i].kind = "more" => i > 1
             /\ FrameAt(gs[i], Start(gs, new, i), new[i])
  <2>1. CASE i \in 1..n
    <3>1. gs[i] = fs[i] /\ new[i] = off[i] /\ (fs[i].kind = "more" => i > 1)
      BY <1>3, <2>1 DEF Placed, n
    <3>2. fs[i].kind = "more" => i - 1 \in 1..n
      BY <1>a, <2>1, <3>1
    <3>3. Start(gs, new, i) = Start(fs, off, i)
      BY <1>3, <3>1, <3>2 DEF Start
    <3> QED BY <2>1, <3>1, <3>3 DEF Placed, n
  <2>2. CASE i \notin 1..n
    <3>1. PICK j \in 1..Len(sent) : i = n + j
      <4>1. i - n \in 1..Len(sent) /\ i = n + (i - n)
        BY <1>1, <1>a, <1>2, <2>2
      <4> QED BY <4>1
    <3>2. gs[i] = sent[j] /\ new[i] = cuts[j]
      BY <1>4, <3>1
    <3>3. j > 1 => j - 1 \in 1..Len(sent) /\ i - 1 = n + (j - 1) /\ i > 1
      BY <1>1, <1>a, <3>1
    <3>4. j > 1 => new[i - 1] = cuts[j - 1]
      BY <1>4, <3>3
    <3>5. Start(gs, new, i) = from(j)
      BY <1>1, <3>2, <3>4 DEF Start
    <3>6. FrameAt(sent[j], from(j), cuts[j])
      <4>1. from(j) <= cuts[j] /\ cuts[j] <= Len(Content(f))
        BY <1>1
      <4> HIDE DEF from
      <4>2. /\ sent[j].from = f /\ sent[j].from \notin Messages
            /\ sent[j].parts = SubSeq(Content(f), from(j) + 1, cuts[j])
        BY <1>1, <1>c
      <4>3. sent[j].fin => cuts[j] = Len(Content(f))
        BY <1>1
      <4> QED BY <4>1, <4>2, <4>3 DEF FrameAt
    <3> QED BY <1>1, <3>2, <3>3, <3>5, <3>6
  <2> QED BY <2>1, <2>2
<1>6. new \in [1..Len(gs) -> Nat]
  <2>1. \A i \in 1..(n + Len(sent)) : ~(i <= n) => i - n \in 1..Len(sent)
    BY <1>1, <1>a
  <2>2. \A i \in 1..(n + Len(sent)) : (IF i <= n THEN off[i] ELSE cuts[i - n]) \in Nat
    BY <1>1, <1>a, <2>1 DEF n
  <2> QED BY <1>b, <1>2, <2>2
<1> QED BY <1>5, <1>6 DEF Placed, gs, sent

(* One part more, and one piece more. *)
LEMMA PieceGrows ==
  ASSUME NEW S, NEW c \in Seq(S), NEW a \in Nat, NEW b \in Nat, a <= b, b < Len(c)
  PROVE  Append(SubSeq(c, a + 1, b), c[b + 1]) = SubSeq(c, a + 1, b + 1)
<1> DEFINE s == SubSeq(c, a + 1, b)
           t == SubSeq(c, a + 1, b + 1)
<1>0. Len(c) \in Nat
  BY LenProperties
<1>1. \A i \in (a + 1)..(b + 1) : c[i] \in S
  <2>1. \A i \in (a + 1)..(b + 1) : i \in 1..Len(c)
    BY <1>0
  <2> QED BY <2>1, ElementOfSeq
<1>2. s \in Seq(S) /\ Len(s) = b - a /\ \A i \in 1..(b - a) : s[i] = c[a + i]
  <2>1. \A i \in (a + 1)..b : c[i] \in S
    BY <1>1
  <2>2. s \in Seq(S) /\ Len(s) = IF a + 1 <= b THEN b - (a + 1) + 1 ELSE 0
    BY <2>1, SubSeqProperties
  <2>3. \A i \in 1..(b - (a + 1) + 1) : s[i] = c[a + 1 + i - 1]
    BY <2>1, SubSeqProperties
  <2>4. b - (a + 1) + 1 = b - a /\ \A i \in 1..(b - a) : a + 1 + i - 1 = a + i
    OBVIOUS
  <2> QED BY <2>2, <2>3, <2>4
<1>3. t \in Seq(S) /\ Len(t) = b - a + 1 /\ \A i \in 1..(b - a + 1) : t[i] = c[a + i]
  <2>1. t \in Seq(S) /\ Len(t) = IF a + 1 <= b + 1 THEN b + 1 - (a + 1) + 1 ELSE 0
    BY <1>1, SubSeqProperties
  <2>2. \A i \in 1..(b + 1 - (a + 1) + 1) : t[i] = c[a + 1 + i - 1]
    BY <1>1, SubSeqProperties
  <2>3. b + 1 - (a + 1) + 1 = b - a + 1 /\ \A i \in 1..(b - a + 1) : a + 1 + i - 1 = a + i
    OBVIOUS
  <2> QED BY <2>1, <2>2, <2>3
<1> HIDE DEF s, t
<1>4. c[b + 1] \in S
  BY <1>1
<1>5. /\ Append(s, c[b + 1]) \in Seq(S) /\ Len(Append(s, c[b + 1])) = b - a + 1
      /\ Append(s, c[b + 1])[b - a + 1] = c[b + 1]
      /\ \A i \in 1..(b - a) : Append(s, c[b + 1])[i] = s[i]
  BY <1>2, <1>4, AppendProperties
<1>6. ASSUME NEW i \in 1..(b - a + 1) PROVE Append(s, c[b + 1])[i] = t[i]
  <2>1. CASE i \in 1..(b - a)
    BY <1>2, <1>3, <1>5, <2>1
  <2>2. CASE i = b - a + 1
    <3>1. a + i = b + 1
      BY <2>2
    <3> QED BY <1>3, <1>5, <2>2, <3>1
  <2>3. i \in 1..(b - a) \/ i = b - a + 1
    <3>1. b - a \in Nat
      OBVIOUS
    <3> QED BY <3>1
  <2> QED BY <2>1, <2>2, <2>3
<1>7. Append(s, c[b + 1]) = t
  BY <1>3, <1>5, <1>6, SeqEqual
<1> QED BY <1>7 DEF s, t

LEMMA PiecesJoin ==
  ASSUME NEW S, NEW c \in Seq(S), NEW a \in Nat, NEW b \in Nat, a <= b, b <= Len(c)
  PROVE  SubSeq(c, 1, a) \o SubSeq(c, a + 1, b) = SubSeq(c, 1, b)
<1> DEFINE U == {n \in Nat : a <= n /\ n <= Len(c) =>
                    SubSeq(c, 1, a) \o SubSeq(c, a + 1, n) = SubSeq(c, 1, n)}
<1>0. Len(c) \in Nat
  BY LenProperties
<1>1. \A n \in 0..Len(c) : SubSeq(c, 1, n) \in Seq(S)
  <2> SUFFICES ASSUME NEW n \in 0..Len(c) PROVE SubSeq(c, 1, n) \in Seq(S)
    OBVIOUS
  <2>1. \A i \in 1..n : c[i] \in S
    BY <1>0, ElementOfSeq
  <2> QED BY <2>1, SubSeqProperties
<1>2. \A n \in Nat : a <= n /\ n <= Len(c) => SubSeq(c, a + 1, n) \in Seq(S)
  <2> SUFFICES ASSUME NEW n \in Nat, a <= n, n <= Len(c) PROVE SubSeq(c, a + 1, n) \in Seq(S)
    OBVIOUS
  <2>1. \A i \in (a + 1)..n : i \in 1..Len(c)
    BY <1>0
  <2>2. \A i \in (a + 1)..n : c[i] \in S
    BY <2>1, ElementOfSeq
  <2> QED BY <2>2, SubSeqProperties
<1>3. SubSeq(c, a + 1, a) = <<>>
  <2>1. \A i \in (a + 1)..a : c[i] \in S
    OBVIOUS
  <2>2. SubSeq(c, a + 1, a) \in Seq(S) /\ Len(SubSeq(c, a + 1, a)) = 0
    BY <2>1, SubSeqProperties
  <2> QED BY <2>2, EmptySeq
<1>4. SubSeq(c, 1, a) \o SubSeq(c, a + 1, a) = SubSeq(c, 1, a)
  <2>1. SubSeq(c, 1, a) \in Seq(S)
    BY <1>0, <1>1
  <2> QED BY <1>3, <2>1, ConcatEmptySeq
<1>5. ASSUME NEW n \in U, a <= n, n < Len(c) PROVE n + 1 \in U
  <2>1. SubSeq(c, 1, a) \o SubSeq(c, a + 1, n) = SubSeq(c, 1, n)
    BY <1>0, <1>5
  <2>2. SubSeq(c, a + 1, n + 1) = Append(SubSeq(c, a + 1, n), c[n + 1])
    BY <1>5, PieceGrows
  <2>3. SubSeq(c, 0 + 1, n + 1) = Append(SubSeq(c, 0 + 1, n), c[n + 1])
    BY <1>5, PieceGrows
  <2>4. SubSeq(c, 1, n + 1) = Append(SubSeq(c, 1, n), c[n + 1])
    BY <2>3
  <2>5. SubSeq(c, 1, a) \in Seq(S) /\ SubSeq(c, a + 1, n) \in Seq(S)
    BY <1>0, <1>1, <1>2, <1>5
  <2>6. SubSeq(c, 1, a) \o Append(SubSeq(c, a + 1, n), c[n + 1]) =
          Append(SubSeq(c, 1, a) \o SubSeq(c, a + 1, n), c[n + 1])
    BY <2>5, AppendOfConcat
  <2> QED BY <1>5, <2>1, <2>2, <2>4, <2>6
<1>6. 0 \in U
  BY <1>4
<1>7. ASSUME NEW n \in U PROVE n + 1 \in U
  <2>1. CASE a <= n /\ n < Len(c)
    BY <1>5, <2>1
  <2>2. CASE ~(n < Len(c))
    BY <1>0, <2>2
  <2>3. CASE ~(a <= n)
    <3>1. a <= n + 1 => n + 1 = a
      BY <2>3
    <3> QED BY <1>4, <3>1
  <2> QED BY <2>1, <2>2, <2>3
<1>8. U \in SUBSET Nat
  OBVIOUS
<1>9. b \in U
  <2> HIDE DEF U
  <2>1. U = Nat
    BY <1>6, <1>7, <1>8, SetInduction
  <2> QED BY <2>1
<1> QED BY <1>9

(* A piece from the start has what it is a piece of in its place. *)
LEMMA Pieces ==
  ASSUME NEW S, NEW c \in Seq(S), NEW a \in 0..Len(c)
  PROVE  /\ SubSeq(c, a + 1, a) = <<>>
         /\ SubSeq(c, 1, a) \in Seq(S) /\ Len(SubSeq(c, 1, a)) = a
         /\ \A i \in 1..a : SubSeq(c, 1, a)[i] = c[i]
         /\ a = Len(c) => SubSeq(c, 1, a) = c
<1>0. Len(c) \in Nat /\ a \in Nat
  BY LenProperties
<1>1. SubSeq(c, a + 1, a) = <<>>
  <2>1. \A i \in (a + 1)..a : c[i] \in S
    BY <1>0
  <2>2. SubSeq(c, a + 1, a) \in Seq(S) /\ Len(SubSeq(c, a + 1, a)) = 0
    BY <1>0, <2>1, SubSeqProperties
  <2> QED BY <2>2, EmptySeq
<1>2. \A i \in 1..a : c[i] \in S
  <2>1. \A i \in 1..a : i \in 1..Len(c)
    BY <1>0
  <2> QED BY <2>1, ElementOfSeq
<1>3. SubSeq(c, 1, a) \in Seq(S) /\ Len(SubSeq(c, 1, a)) = a
  <2>1. SubSeq(c, 1, a) \in Seq(S) /\ Len(SubSeq(c, 1, a)) = IF 1 <= a THEN a - 1 + 1 ELSE 0
    BY <1>0, <1>2, SubSeqProperties
  <2> QED BY <1>0, <2>1
<1>4. \A i \in 1..a : SubSeq(c, 1, a)[i] = c[i]
  <2>1. \A i \in 1..(a - 1 + 1) : SubSeq(c, 1, a)[i] = c[1 + i - 1]
    BY <1>0, <1>2, SubSeqProperties
  <2>2. \A i \in 1..a : i \in 1..(a - 1 + 1) /\ 1 + i - 1 = i
    BY <1>0
  <2> QED BY <2>1, <2>2
<1>5. a = Len(c) => SubSeq(c, 1, a) = c
  BY <1>3, <1>4, SeqEqual
<1> QED BY <1>1, <1>3, <1>4, <1>5

-----------------------------------------------------------------------------
(* What the holder of wmu has encoded and not sent is the piece from where *)
(* the frames have got to; what a reader has not decoded is what the frames*)
(* taken of its websocket message have brought.                            *)
SentUpTo(off) == IF Unfinished THEN off[Len(frames)] ELSE 0

Encoded(off) ==
  \A m \in Messages :
    call[m] \in {"encoding", "closing"} =>
      /\ encoded <= Size[m] /\ (call[m] = "closing" <=> encoded = Size[m])
      /\ SentUpTo(off) <= encoded
      /\ buffered = SubSeq(Content(m), SentUpTo(off) + 1, encoded)

Decoding == rmu # None /\ read[rmu] = "decoding"

Decoded(off) ==
  Decoding => taken > 0 /\ have = SubSeq(Content(frames[taken].from), 1, off[taken])

PartsInv ==
  \E off \in [1..Len(frames) -> Nat] : Placed(frames, off) /\ Encoded(off) /\ Decoded(off)

(* A frame of m takes what is encoded and not sent, and no more. *)
LEMMA FrameIsPiece ==
  ASSUME TypeOK, FrameInv, NEW off \in [1..Len(frames) -> Nat],
         Placed(frames, off), Encoded(off), Decoded(off),
         NEW m \in Messages, NEW final \in BOOLEAN, WriteFrame(m, final),
         call[m] = IF final THEN "closing" ELSE "encoding",
         UNCHANGED <<readVars, encoded>>
  PROVE  \E new \in [1..Len(frames') -> Nat] :
           /\ Placed(frames', new)
           /\ new[Len(frames')] = encoded
           /\ Decoded(new)'
<1> DEFINE n == Len(frames)
           f == [kind |-> Kind(m), parts |-> buffered, fin |-> final, from |-> m]
<1>1. f \in Frames /\ frames' = Append(frames, f)
  <2>1. Kind(m) \in {"text", "binary", "more"}
    BY DEF Kind
  <2>2. f \in Frames
    BY <2>1 DEF Frames, TypeOK
  <2> QED BY <2>2 DEF WriteFrame
<1>2. n \in Nat /\ encoded \in Nat /\ taken \in 0..n /\ frames \in Seq(Frames)
  BY LenProperties DEF TypeOK
<1>3. f.kind = (IF Unfinished THEN "more" ELSE "binary") /\ f.from = m /\ f.fin = final
      /\ f.parts = buffered
  BY DEF Kind, Last, Unfinished
<1>4. f.kind = "more" => n > 0
  BY <1>2, <1>3, EmptySeq DEF Unfinished
<1>5. FrameAt(f, IF f.kind = "more" THEN off[n] ELSE 0, encoded)
  <2>1. /\ encoded <= Size[m] /\ (final <=> encoded = Size[m])
        /\ SentUpTo(off) <= encoded
        /\ buffered = SubSeq(Content(m), SentUpTo(off) + 1, encoded)
    BY DEF Encoded
  <2>2. (IF f.kind = "more" THEN off[n] ELSE 0) = SentUpTo(off)
    BY <1>3 DEF SentUpTo
  <2>3. Len(Content(m)) = Size[m] /\ Size[m] \in Nat
    BY ContentIs
  <2>4. final \/ encoded < Size[m]
    BY <1>2, <2>1, <2>3
  <2>5. f.kind # "text"
    BY <1>3
  <2> HIDE DEF f
  <2> QED BY <1>3, <2>1, <2>2, <2>3, <2>4, <2>5 DEF FrameAt
<1>6. PICK new : new = [i \in 1..(n + 1) |-> IF i = n + 1 THEN encoded ELSE off[i]]
  OBVIOUS
<1>7. /\ new \in [1..(n + 1) -> Nat] /\ new[n + 1] = encoded
      /\ \A i \in 1..n : new[i] = off[i]
  BY <1>2, <1>6
<1>8. Len(frames') = n + 1 /\ \A i \in 1..n : frames'[i] = frames[i]
  BY <1>1, <1>2, AppendProperties
<1>9. new \in [1..Len(frames') -> Nat] /\ Placed(frames', new)
  <2> DEFINE start == IF f.kind = "more" THEN off[n] ELSE 0
  <2> HIDE DEF f
  <2>1. FrameAt(f, start, encoded)
    BY <1>5
  <2>2. start = IF f.kind = "more" THEN off[n] ELSE 0
    OBVIOUS
  <2> HIDE DEF start
  <2>3. new \in [1..Len(Append(frames, f)) -> Nat] /\ Placed(Append(frames, f), new)
    BY <1>1, <1>2, <1>4, <1>7, <2>1, <2>2, PlacedAppend
  <2> QED BY <1>1, <2>3
<1>10. Decoded(new)'
  <2>1. Decoding' => Decoding
    BY DEF Decoding, readVars
  <2>2. Decoding => taken \in 1..n /\ have = SubSeq(Content(frames[taken].from), 1, off[taken])
    BY <1>2 DEF Decoded
  <2>3. taken \in 1..n => frames'[taken] = frames[taken] /\ new[taken] = off[taken]
    BY <1>7, <1>8
  <2> QED BY <2>1, <2>2, <2>3 DEF Decoded, readVars
<1> QED BY <1>7, <1>8, <1>9, <1>10

LEMMA WriteParts ==
  ASSUME TypeOK, FrameInv, PartsInv, NEW m \in Messages, WriteMessage(m)
  PROVE  PartsInv'
<1> USE DEF Set
<1>1. PICK off \in [1..Len(frames) -> Nat] : Placed(frames, off) /\ Encoded(off) /\ Decoded(off)
  BY DEF PartsInv
<1>2. /\ \A x \in Messages : call[x] \in {"encoding", "closing"} => x = wmu
      /\ \A x \in Messages : call[x] \in {"starting", "encoding", "closing", "closed"} <=> wmu = x
      /\ Unfinished => writeErr \/ (wmu \in Messages /\ call[wmu] \in {"encoding", "closing"})
  <2>1. \A x \in Messages : call[x] \in {"starting", "encoding", "closing", "closed"} <=> wmu = x
    BY DEF FrameInv, WriterInv
  <2>2. Unfinished => writeErr \/ (wmu \in Messages /\ call[wmu] \in {"encoding", "closing"})
    BY DEF FrameInv, WriterInv
  <2> QED BY <2>1, <2>2
<1>3. call \in [Messages -> {"idle", "locking", "starting", "encoding", "closing",
                            "closed", "ok", "failed"}]
      /\ encoded \in Nat /\ buffered \in Seq(Parts) /\ frames \in Seq(Frames)
  BY DEF TypeOK
<1>4. ASSUME UNCHANGED <<frames, readVars>>, Encoded(off)' PROVE PartsInv'
  <2>1. Decoded(off)'
    BY <1>1, <1>4 DEF Decoded, Decoding, readVars
  <2>2. Placed(frames', off)
    BY <1>1, <1>4
  <2> QED BY <1>4, <2>1, <2>2 DEF PartsInv
<1>5. ASSUME UNCHANGED <<frames, buffered, encoded, readVars>>,
             \A x \in Messages : call'[x] = call[x] \/ call'[x] \notin {"encoding", "closing"}
      PROVE  PartsInv'
  <2>1. Encoded(off)'
    BY <1>1, <1>5 DEF Encoded, SentUpTo, Unfinished
  <2> QED BY <1>4, <1>5, <2>1
<1>6. CASE ToWire(m)
  BY <1>3, <1>5, <1>6 DEF ToWire, connVars
<1>7. CASE LockWmu(m)
  BY <1>3, <1>5, <1>7 DEF LockWmu, connVars
<1>8. CASE NextWriter(m)
  <2>1. call[m] = "starting" /\ UNCHANGED <<frames, readVars>>
    BY <1>8 DEF NextWriter, connVars
  <2>2. CASE writeErr
    BY <1>3, <1>5, <1>8, <2>1, <2>2 DEF NextWriter, Fail
  <2>3. CASE ~writeErr
    <3>1. buffered' = <<>> /\ encoded' = 0 /\ call' = [call EXCEPT ![m] = "encoding"]
      BY <1>8, <2>3 DEF NextWriter
    <3>2. ~Unfinished /\ ~Unfinished'
      BY <1>2, <2>1, <2>3 DEF Unfinished
    <3>3. ASSUME NEW x \in Messages, call'[x] \in {"encoding", "closing"} PROVE x = m
      BY <1>2, <1>3, <2>1, <3>1, <3>3
    <3>4. Size[m] \in Nat \ {0} /\ Content(m) \in Seq(Parts) /\ Len(Content(m)) = Size[m]
      BY ContentIs
    <3>5. SubSeq(Content(m), 0 + 1, 0) = <<>>
      BY <3>4, Pieces
    <3>6. call'[m] = "encoding"
      BY <1>3, <3>1
    <3>7. SentUpTo(off)' = 0
      BY <3>2 DEF SentUpTo
    <3>8. Encoded(off)'
      BY <3>1, <3>3, <3>4, <3>5, <3>6, <3>7 DEF Encoded
    <3> QED BY <1>4, <2>1, <3>8
  <2> QED BY <2>2, <2>3
<1>9. CASE EncodeMsg(m)
  <2>1. /\ call[m] = "encoding" /\ UNCHANGED <<frames, readVars>>
        /\ buffered' = Append(buffered, [msg |-> m, part |-> encoded + 1])
        /\ encoded' = encoded + 1
        /\ call' = [call EXCEPT ![m] = IF encoded + 1 = Size[m] THEN "closing" ELSE "encoding"]
    BY <1>9 DEF EncodeMsg, connVars
  <2>2. /\ encoded <= Size[m] /\ encoded # Size[m] /\ SentUpTo(off) <= encoded
        /\ buffered = SubSeq(Content(m), SentUpTo(off) + 1, encoded)
    BY <1>1, <2>1 DEF Encoded
  <2>3. /\ Content(m) \in Seq(Parts) /\ Len(Content(m)) = Size[m] /\ Size[m] \in Nat
        /\ \A i \in 1..Size[m] : Content(m)[i] = [msg |-> m, part |-> i]
    BY ContentIs DEF Content
  <2>4. SentUpTo(off) \in Nat
    <3>1. Unfinished => Len(frames) \in 1..Len(frames)
      BY <1>3, EmptySeq, LenProperties DEF Unfinished
    <3> QED BY <3>1 DEF SentUpTo
  <2>5. SentUpTo(off)' = SentUpTo(off)
    BY <2>1 DEF SentUpTo, Unfinished
  <2>6. encoded < Size[m] /\ Content(m)[encoded + 1] = [msg |-> m, part |-> encoded + 1]
    <3>1. encoded < Size[m] /\ encoded + 1 \in 1..Size[m]
      BY <1>3, <2>2, <2>3
    <3> QED BY <2>3, <3>1
  <2>7. buffered' = SubSeq(Content(m), SentUpTo(off) + 1, encoded + 1)
    <3> DEFINE a == SentUpTo(off)
    <3>1. Append(SubSeq(Content(m), a + 1, encoded), Content(m)[encoded + 1]) =
            SubSeq(Content(m), a + 1, encoded + 1)
      <4> HIDE DEF a
      <4>1. a \in Nat /\ a <= encoded /\ encoded \in Nat /\ encoded < Len(Content(m))
        BY <1>3, <2>2, <2>3, <2>4, <2>6 DEF a
      <4> QED BY <2>3, <4>1, PieceGrows
    <3> QED BY <2>1, <2>2, <2>6, <3>1
  <2>8. \A x \in Messages : call'[x] \in {"encoding", "closing"} => x = m
    BY <1>2, <1>3, <2>1
  <2>9. call'[m] = IF encoded + 1 = Size[m] THEN "closing" ELSE "encoding"
    BY <1>3, <2>1
  <2>10. encoded + 1 <= Size[m] /\ SentUpTo(off) <= encoded + 1
    BY <1>3, <2>2, <2>3, <2>4, <2>6
  <2>11. Encoded(off)'
    <3> SUFFICES /\ encoded' <= Size[m] /\ (call'[m] = "closing" <=> encoded' = Size[m])
                 /\ SentUpTo(off)' <= encoded'
                 /\ buffered' = SubSeq(Content(m), SentUpTo(off)' + 1, encoded')
      BY <2>8 DEF Encoded
    <3> QED BY <2>1, <2>5, <2>7, <2>9, <2>10
  <2> QED BY <1>4, <2>1, <2>11
<1>10. CASE FlushFrame(m)
  <2>1. /\ call[m] = "encoding" /\ WriteFrame(m, FALSE) /\ buffered' = <<>>
        /\ UNCHANGED <<call, encoded, readVars>>
    BY <1>10 DEF FlushFrame
  <2>2. PICK new \in [1..Len(frames') -> Nat] :
          Placed(frames', new) /\ new[Len(frames')] = encoded /\ Decoded(new)'
    BY <1>1, <2>1, FrameIsPiece
  <2>3. frames' # <<>> /\ frames'[Len(frames')].fin = FALSE
        /\ Len(frames') = Len(frames) + 1 /\ Len(frames) \in Nat
    <3>1. frames'[Len(frames')].fin = FALSE /\ frames' # <<>>
      BY <2>1, FrameContinues
    <3> QED BY <1>3, <2>1, <3>1, AppendProperties, LenProperties DEF WriteFrame
  <2>4. SentUpTo(new)' = encoded
    BY <2>2, <2>3 DEF SentUpTo, Unfinished
  <2>5. Encoded(new)'
    <3>1. \A x \in Messages : call[x] \in {"encoding", "closing"} => x = m
      BY <1>2, <2>1
    <3>2. encoded <= Size[m] /\ encoded # Size[m]
      BY <1>1, <2>1 DEF Encoded
    <3>3. SubSeq(Content(m), encoded + 1, encoded) = <<>>
      <4>1. Content(m) \in Seq(Parts) /\ Len(Content(m)) = Size[m] /\ Size[m] \in Nat
        BY ContentIs
      <4>2. encoded \in 0..Len(Content(m))
        BY <1>3, <3>2, <4>1
      <4> QED BY <4>1, <4>2, Pieces
    <3>4. call'[m] = "encoding" /\ encoded <= encoded
      BY <1>3, <2>1
    <3> SUFFICES /\ encoded' <= Size[m] /\ (call'[m] = "closing" <=> encoded' = Size[m])
                 /\ SentUpTo(new)' <= encoded'
                 /\ buffered' = SubSeq(Content(m), SentUpTo(new)' + 1, encoded')
      BY <2>1, <3>1 DEF Encoded
    <3> QED BY <2>1, <2>4, <3>2, <3>3, <3>4
  <2> QED BY <2>2, <2>5 DEF PartsInv
<1>11. CASE CloseWriter(m)
  <2>1. /\ call[m] = "closing" /\ WriteFrame(m, TRUE) /\ UNCHANGED <<encoded, readVars>>
        /\ call' = [call EXCEPT ![m] = "closed"]
    BY <1>11 DEF CloseWriter
  <2>2. PICK new \in [1..Len(frames') -> Nat] : Placed(frames', new) /\ Decoded(new)'
    BY <1>1, <2>1, FrameIsPiece
  <2>3. Encoded(new)'
    BY <1>2, <1>3, <2>1 DEF Encoded
  <2> QED BY <2>2, <2>3 DEF PartsInv
<1>12. CASE WriteReturn(m)
  BY <1>3, <1>5, <1>12 DEF WriteReturn, connVars
<1>13. CASE WriteError(m)
  BY <1>3, <1>5, <1>13 DEF WriteError, Fail, connVars
<1> QED
  BY <1>6, <1>7, <1>8, <1>9, <1>10, <1>11, <1>12, <1>13 DEF WriteMessage

LEMMA ForeignParts ==
  ASSUME TypeOK, FrameInv, PartsInv, NEW f \in Foreign, SendForeign(f)
  PROVE  PartsInv'
<1> DEFINE n == Len(frames)
           sent == ForeignFrames(f)
<1>1. PICK off \in [1..n -> Nat] : Placed(frames, off) /\ Encoded(off) /\ Decoded(off)
  BY DEF PartsInv
<1>2. PICK new : new = [i \in 1..(n + Len(sent)) |->
                          IF i <= n THEN off[i] ELSE ForeignSent[f].cuts[i - n]]
  OBVIOUS
<1>3. /\ frames' = frames \o sent /\ wmu = None /\ UNCHANGED <<writeVars, readVars>>
      /\ frames \in Seq(Frames) /\ n \in Nat /\ taken \in 0..n
  BY LenProperties DEF SendForeign, TypeOK
<1>4. new \in [1..Len(frames') -> Nat] /\ Placed(frames', new)
  BY <1>1, <1>2, <1>3, PlacedForeign
<1>5. \A i \in 1..n : frames'[i] = frames[i] /\ new[i] = off[i]
  <2>1. sent \in Seq(Frames) /\ Len(sent) \in Nat
    BY ForeignFramesAre
  <2>2. \A i \in 1..(n + Len(sent)) : frames'[i] = IF i <= n THEN frames[i] ELSE sent[i - n]
    <3> HIDE DEF sent
    <3> QED BY <1>3, <2>1, ConcatProperties
  <2>3. \A i \in 1..n : i \in 1..(n + Len(sent)) /\ i <= n
    BY <1>3, <2>1
  <2> QED BY <1>2, <2>2, <2>3
<1>6. Decoded(new)'
  <2>1. Decoding' => Decoding
    BY <1>3 DEF Decoding, readVars
  <2>2. Decoding => taken \in 1..n /\ have = SubSeq(Content(frames[taken].from), 1, off[taken])
    BY <1>1, <1>3 DEF Decoded
  <2>3. taken \in 1..n => frames'[taken] = frames[taken] /\ new[taken] = off[taken]
    BY <1>5
  <2> QED BY <1>3, <2>1, <2>2, <2>3 DEF Decoded, readVars
<1>7. Encoded(new)'
  <2>1. \A m \in Messages : call[m] \notin {"encoding", "closing"}
    BY <1>3 DEF FrameInv, WriterInv
  <2> QED BY <1>3, <2>1 DEF Encoded, writeVars
<1> QED BY <1>4, <1>6, <1>7 DEF PartsInv

(* Whoever reads holds rmu. *)
RmuInv == \A r \in Readers : read[r] \in {"next", "decoding"} <=> rmu = r

LEMMA ReadRmu ==
  ASSUME TypeOK, RmuInv, NEW r \in Readers, ReadMessage(r)
  PROVE  RmuInv'
<1> USE DEF TypeOK, RmuInv, Set, Return
<1>1. CASE LockRmu(r)
  BY <1>1 DEF LockRmu
<1>2. CASE SkipFrame(r)
  BY <1>2 DEF SkipFrame
<1>3. CASE NextReader(r)
  <2>1. CASE NextFrame.kind = "binary"
    BY <1>3, <2>1 DEF NextReader
  <2>2. CASE NextFrame.kind # "binary"
    BY <1>3, <2>2 DEF NextReader
  <2> QED BY <2>1, <2>2
<1>4. CASE DecodeMsg(r)
  BY <1>4 DEF DecodeMsg
<1>5. CASE FromWire(r)
  BY <1>5 DEF FromWire
<1>6. CASE DecodeError(r)
  BY <1>6 DEF DecodeError
<1>7. CASE ReadError(r)
  BY <1>7 DEF ReadError
<1> QED
  BY <1>1, <1>2, <1>3, <1>4, <1>5, <1>6, <1>7 DEF ReadMessage

(* What a step of a reader does to the reading of the message. *)
LEMMA ReadSteps ==
  ASSUME TypeOK, RmuInv, NEW r \in Readers, ReadMessage(r)
  PROVE  \/ /\ LockRmu(r) /\ ~Decoding /\ ~Decoding'
            /\ UNCHANGED <<taken, have, results>>
         \/ /\ SkipFrame(r) /\ ~Decoding /\ ~Decoding'
         \/ /\ NextReader(r) /\ ~Decoding
            /\ NextFrame.kind = "binary" /\ Decoding' /\ have' = NextFrame.parts
            /\ UNCHANGED results
         \/ /\ NextReader(r) /\ ~Decoding
            /\ NextFrame.kind = "text" /\ ~Decoding'
            /\ results' = Append(results, "ErrInvalidMsg")
         \/ DecodeMsg(r) /\ Decoding /\ Decoding'
         \/ (FromWire(r) \/ DecodeError(r)) /\ Decoding /\ ~Decoding'
         \/ /\ ReadError(r) /\ ~Decoding'
            /\ UNCHANGED <<taken, have, results>>
<1> USE DEF Set, Return, Decoding
<1>0. read \in [Readers -> {"idle", "next", "decoding", "stopped"}]
      /\ None \notin Readers
      /\ \A x \in Readers : read[x] \in {"next", "decoding"} <=> rmu = x
  BY DEF TypeOK, RmuInv
<1>1. CASE LockRmu(r)
  BY <1>0, <1>1 DEF LockRmu
<1>2. CASE SkipFrame(r)
  BY <1>0, <1>2 DEF SkipFrame
<1>3. CASE NextReader(r)
  <2>1. NextFrame.kind \in {"binary", "text"}
    <3>1. taken + 1 \in 1..Len(frames)
      BY <1>3, LenProperties DEF TypeOK, NextReader, FrameReady
    <3>2. frames[taken + 1] \in Frames
      BY <3>1, ElementOfSeq DEF TypeOK
    <3> QED BY <1>3, <3>2 DEF Frames, NextReader, NextFrame
  <2>2. read[r] = "next" /\ rmu = r
    BY <1>0, <1>3 DEF NextReader
  <2>3. CASE NextFrame.kind = "binary"
    BY <1>0, <1>3, <2>2, <2>3 DEF NextReader
  <2>4. CASE NextFrame.kind = "text"
    BY <1>0, <1>3, <2>2, <2>4 DEF NextReader
  <2> QED BY <2>1, <2>3, <2>4
<1>4. CASE DecodeMsg(r)
  BY <1>0, <1>4 DEF DecodeMsg
<1>5. CASE FromWire(r)
  BY <1>0, <1>5 DEF FromWire
<1>6. CASE DecodeError(r)
  BY <1>0, <1>6 DEF DecodeError
<1>7. CASE ReadError(r)
  BY <1>0, <1>7 DEF ReadError
<1> QED
  BY <1>1, <1>2, <1>3, <1>4, <1>5, <1>6, <1>7 DEF ReadMessage

(* The next frame, when there is one, is where the frames taken end. *)
LEMMA NextPiece ==
  ASSUME TypeOK, FrameInv, FrameReady,
         NEW off \in [1..Len(frames) -> Nat], Placed(frames, off)
  PROVE  /\ taken + 1 \in 1..Len(frames) /\ NextFrame \in Frames
         /\ FrameAt(NextFrame, IF NextFrame.kind = "more" THEN off[taken] ELSE 0, off[taken + 1])
         /\ NextFrame.kind = "more" =>
              taken > 0 /\ ~frames[taken].fin /\ NextFrame.from = frames[taken].from
         /\ taken > 0 /\ ~frames[taken].fin => NextFrame.kind = "more"
<1>1. taken \in Nat /\ taken + 1 \in 1..Len(frames) /\ Len(frames) \in Nat
  BY LenProperties DEF TypeOK, FrameReady
<1>2. NextFrame \in Frames
  BY <1>1, ElementOfSeq DEF TypeOK, NextFrame
<1>3. /\ NextFrame.kind = "more" => taken + 1 > 1
      /\ FrameAt(NextFrame, Start(frames, off, taken + 1), off[taken + 1])
  BY <1>1 DEF Placed, NextFrame
<1> PICK i : i = taken + 1
  OBVIOUS
<1>a. i - 1 = taken /\ i \in 1..Len(frames) /\ NextFrame = frames[i]
  BY <1>1 DEF NextFrame
<1>4. Start(frames, off, i) = IF NextFrame.kind = "more" THEN off[taken] ELSE 0
  BY <1>a DEF Start
<1>5. taken > 0 => IF NextFrame.kind = "more"
                   THEN ~frames[taken].fin /\ NextFrame.from = frames[taken].from
                   ELSE frames[taken].fin
  <2>1. taken > 0 => i \in 2..Len(frames)
    BY <1>1
  <2>2. i \in 2..Len(frames) => IF frames[i].kind = "more"
                               THEN ~frames[i-1].fin /\ frames[i].from = frames[i-1].from
                               ELSE frames[i-1].fin
    BY DEF FrameInv, FramesWhole
  <2> QED BY <1>a, <2>1, <2>2
<1> QED BY <1>1, <1>2, <1>3, <1>4, <1>5

LEMMA ReadParts ==
  ASSUME TypeOK, FrameInv, RmuInv, PartsInv, NEW r \in Readers, ReadMessage(r)
  PROVE  PartsInv'
<1>1. PICK off \in [1..Len(frames) -> Nat] : Placed(frames, off) /\ Encoded(off) /\ Decoded(off)
  BY DEF PartsInv
<1>2. UNCHANGED <<frames, call, buffered, encoded>>
  BY DEF ReadMessage, LockRmu, SkipFrame, NextReader, DecodeMsg, FromWire, DecodeError,
         ReadError, writeVars, connVars
<1>3. Encoded(off)'
  BY <1>1, <1>2 DEF Encoded, SentUpTo, Unfinished
<1>4. Decoded(off)'
  <2>1. CASE ~Decoding'
    BY <2>1 DEF Decoded
  <2>2. CASE NextReader(r) /\ NextFrame.kind = "binary" /\ have' = NextFrame.parts
    <3>1. FrameReady /\ taken' = taken + 1
      BY <2>2 DEF NextReader
    <3>2. FrameAt(NextFrame, 0, off[taken + 1]) /\ taken + 1 \in 1..Len(frames)
      BY <1>1, <2>2, <3>1, NextPiece
    <3>3. have' = SubSeq(Content(NextFrame.from), 1, off[taken + 1])
      BY <2>2, <3>2 DEF FrameAt
    <3> QED BY <1>2, <3>1, <3>2, <3>3 DEF Decoded, NextFrame
  <2>3. CASE DecodeMsg(r) /\ Decoding
    <3>1. /\ FrameReady /\ taken' = taken + 1 /\ have' = have \o NextFrame.parts
          /\ ~frames[taken].fin
      BY <2>3 DEF DecodeMsg, Ended
    <3>2. taken > 0 /\ have = SubSeq(Content(frames[taken].from), 1, off[taken])
      BY <1>1, <2>3 DEF Decoded
    <3>3. /\ taken + 1 \in 1..Len(frames) /\ NextFrame \in Frames
          /\ NextFrame.kind = "more" /\ NextFrame.from = frames[taken].from
          /\ FrameAt(NextFrame, off[taken], off[taken + 1])
      BY <1>1, <3>1, <3>2, NextPiece
    <3>4. /\ off[taken] \in Nat /\ off[taken + 1] \in Nat
          /\ off[taken] <= off[taken + 1] /\ off[taken + 1] <= Len(Content(NextFrame.from))
          /\ NextFrame.parts = SubSeq(Content(NextFrame.from), off[taken] + 1, off[taken + 1])
      <4>1. taken \in 1..Len(frames)
        BY <3>2, <3>3, LenProperties DEF TypeOK
      <4> QED BY <3>3, <4>1 DEF FrameAt
    <3>5. Content(NextFrame.from) \in Seq(Parts)
      <4>1. NextFrame.from \in Messages \cup Foreign
        BY <3>3 DEF Frames
      <4> QED BY <4>1, ContentIs
    <3>6. have' = SubSeq(Content(NextFrame.from), 1, off[taken + 1])
      <4> DEFINE c == Content(NextFrame.from)
                 a == off[taken]
                 b == off[taken + 1]
      <4>1. have' = SubSeq(c, 1, a) \o SubSeq(c, a + 1, b)
        BY <3>1, <3>2, <3>3, <3>4
      <4>2. c \in Seq(Parts) /\ a \in Nat /\ b \in Nat /\ a <= b /\ b <= Len(c)
        BY <3>4, <3>5
      <4> HIDE DEF a, b, c
      <4>3. have' = SubSeq(c, 1, b)
        BY <4>1, <4>2, PiecesJoin
      <4> QED BY <4>3 DEF b, c
    <3> QED BY <1>2, <3>1, <3>3, <3>6 DEF Decoded, NextFrame
  <2> QED BY <2>1, <2>2, <2>3, ReadSteps
<1>5. Placed(frames', off)
  BY <1>1, <1>2
<1> QED BY <1>2, <1>3, <1>4, <1>5 DEF PartsInv

(* What ReadMessage decodes is what the whole websocket message decodes to *)
(* on its own: a message of this codec is whole with its last frame, and   *)
(* nothing a foreign peer sends is taken for one.                          *)
LEMMA DecodesAlone ==
  ASSUME TypeOK, PartsInv, Decoding, NEW r \in Readers, FromWire(r) \/ DecodeError(r)
  PROVE  \E v \in Messages \cup Foreign \cup {"ErrInvalidMsg", "EOF", Garbled} :
           /\ results' = Append(results, v)
           /\ v = Alone("binary", Content(frames[taken].from))
           /\ frames[taken].from \in Messages => frames[taken].fin /\ v = frames[taken].from
           /\ frames[taken].from \notin Messages => v \notin Messages
<1>1. PICK off \in [1..Len(frames) -> Nat] : Placed(frames, off) /\ Decoded(off)
  BY DEF PartsInv
<1> DEFINE x == frames[taken].from
           c == Content(x)
           a == off[taken]
<1>2. taken \in 1..Len(frames) /\ have = SubSeq(c, 1, a)
  BY <1>1, LenProperties DEF TypeOK, Decoded
<1>3. x \in Messages \cup Foreign
  <2>1. frames[taken] \in Frames
    BY <1>2, ElementOfSeq DEF TypeOK
  <2> QED BY <2>1 DEF Frames
<1>4. a \in Nat /\ a <= Len(c) /\ (frames[taken].fin => a = Len(c))
      /\ (x \in Messages => frames[taken].fin \/ a < Size[x])
  BY <1>1, <1>2 DEF Placed, FrameAt
<1>5. /\ c \in Seq(Parts) /\ Len(c) \in Nat
      /\ x \in Messages => Len(c) = Size[x] /\ \A i \in 1..Size[x] : c[i] = [msg |-> x, part |-> i]
      /\ x \notin Messages => \A i \in 1..Len(c) : c[i].msg \in Foreign
  BY <1>3, ContentIs DEF Content
<1> HIDE DEF x, c, a
<1>6. /\ Len(have) = a /\ (\A i \in 1..a : have[i] = c[i])
      /\ a = Len(c) => have = c
  BY <1>2, <1>4, <1>5, Pieces
<1>7. \A i \in 1..Len(c) : Size[c[i].msg] \in Nat \ {0} /\ c[i].msg \in Messages \cup Foreign
  <2>1. \A i \in 1..Len(c) : c[i] \in Parts
    BY <1>5, ElementOfSeq
  <2> QED BY <2>1 DEF Parts
<1>8. CASE FromWire(r)
  <2>1. results' = Append(results, Assembled(have)) /\ have # <<>> /\ a >= Size[have[1].msg]
    BY <1>6, <1>8 DEF FromWire, Whole
  <2>2. 1 \in 1..a /\ 1 \in 1..Len(c)
    <3>1. a # 0
      BY <1>6, <2>1, EmptySeq DEF TypeOK
    <3> QED BY <1>4, <1>5, <3>1
  <2>3. have[1] = c[1] /\ Size[c[1].msg] \in Nat \ {0} /\ c[1].msg \in Messages \cup Foreign
    BY <1>6, <1>7, <2>2
  <2>4. \A i \in 1..Size[c[1].msg] : have[i] = c[i]
    <3>1. \A i \in 1..Size[c[1].msg] : i \in 1..a
      BY <1>4, <2>1, <2>3
    <3> QED BY <1>6, <3>1
  <2>5. Whole(c)
    <3>1. c # <<>>
      BY <2>2, EmptySeq
    <3> QED BY <1>4, <1>5, <2>1, <2>3, <3>1 DEF Whole
  <2>6. Assembled(have) = Assembled(c)
    BY <2>3, <2>4 DEF Assembled
  <2>7. Assembled(c) \in {c[1].msg, Garbled}
    BY DEF Assembled
  <2>8. x \in Messages => frames[taken].fin /\ Assembled(c) = x
    <3> SUFFICES ASSUME x \in Messages PROVE frames[taken].fin /\ Assembled(c) = x
      OBVIOUS
    <3>1. c[1].msg = x /\ \A i \in 1..Size[x] : c[i] = [msg |-> x, part |-> i]
      BY <1>5, <2>2
    <3>2. Assembled(c) = x
      BY <3>1 DEF Assembled
    <3>3. ~(a < Size[x])
      BY <1>4, <2>1, <2>3, <3>1
    <3> QED BY <1>4, <3>2, <3>3
  <2>9. x \notin Messages => Assembled(c) \notin Messages
    BY <1>5, <2>2, <2>7
  <2>10. Alone("binary", c) = Assembled(c)
    BY <2>5 DEF Alone
  <2> QED BY <2>1, <2>3, <2>6, <2>7, <2>8, <2>9, <2>10 DEF x, c
<1>9. CASE DecodeError(r)
  <2>1. results' = Append(results, "EOF") /\ ~Whole(have) /\ frames[taken].fin
    BY <1>9 DEF DecodeError, Ended
  <2>2. have = c
    BY <1>4, <1>6, <2>1
  <2>3. Alone("binary", c) = "EOF"
    BY <2>1, <2>2 DEF Alone
  <2>4. x \notin Messages
    <3> SUFFICES ASSUME x \in Messages PROVE Whole(c)
      BY <2>1, <2>2
    <3>1. Len(c) = Size[x] /\ Size[x] \in Nat \ {0}
      BY <1>5
    <3>2. c # <<>> /\ c[1].msg = x
      <4>1. 1 \in 1..Size[x]
        BY <3>1
      <4> QED BY <1>5, <3>1, <4>1, EmptySeq
    <3> QED BY <3>1, <3>2 DEF Whole
  <2> QED BY <2>1, <2>3, <2>4 DEF x, c
<1> QED BY <1>8, <1>9

-----------------------------------------------------------------------------
(* What is selected of the frames taken grows with the next one taken, and *)
(* is where what is selected of all of them begins.                        *)
Taken(h) == Selected(SubSeq(frames, 1, taken), h)

LEMMA TakenNext ==
  ASSUME TypeOK, FrameReady, UNCHANGED frames, taken' = taken + 1, NEW h
  PROVE  /\ NextFrame \in DOMAIN h => Taken(h)' = Append(Taken(h), h[NextFrame])
         /\ NextFrame \notin DOMAIN h => Taken(h)' = Taken(h)
<1>1. taken \in Nat /\ taken < Len(frames) /\ Len(frames) \in Nat /\ frames \in Seq(Frames)
  BY LenProperties DEF TypeOK, FrameReady
<1>2. NextFrame \in Frames
  <2>1. taken + 1 \in 1..Len(frames)
    BY <1>1
  <2> QED BY <1>1, <2>1, ElementOfSeq DEF NextFrame
<1>3. SubSeq(frames, 1, taken + 1) = Append(SubSeq(frames, 1, taken), NextFrame)
  <2>1. Append(SubSeq(frames, 0 + 1, taken), frames[taken + 1]) = SubSeq(frames, 0 + 1, taken + 1)
    BY <1>1, PieceGrows
  <2>2. 0 + 1 = 1
    OBVIOUS
  <2>3. Append(SubSeq(frames, 1, taken), frames[taken + 1]) = SubSeq(frames, 1, taken + 1)
    BY <2>1, <2>2, Zenon
  <2> QED BY <2>3 DEF NextFrame
<1>4. SubSeq(frames, 1, taken) \in Seq(Frames)
  BY <1>1, Pieces
<1>5. Selected(Append(SubSeq(frames, 1, taken), NextFrame), h) =
        IF NextFrame \in DOMAIN h THEN Append(Taken(h), h[NextFrame]) ELSE Taken(h)
  <2> DEFINE s == SubSeq(frames, 1, taken)
             x == NextFrame
  <2>1. s \in Seq(Frames) /\ x \in Frames
    BY <1>2, <1>4
  <2> HIDE DEF s, x
  <2>2. Selected(Append(s, x), h) =
          IF x \in DOMAIN h THEN Append(Selected(s, h), h[x]) ELSE Selected(s, h)
    BY <2>1, SelectedAppend
  <2> QED BY <2>2 DEF s, x, Taken
<1>6. Taken(h)' = Selected(Append(SubSeq(frames, 1, taken), NextFrame), h)
  BY <1>3 DEF Taken
<1> QED BY <1>5, <1>6

LEMMA TakenOfAll ==
  ASSUME TypeOK, NEW h
  PROVE  \E rest \in Seq(Frames) :
           Selected(frames, h) = Taken(h) \o Selected(rest, h)
<1>1. taken \in Nat /\ taken <= Len(frames) /\ Len(frames) \in Nat /\ frames \in Seq(Frames)
  BY LenProperties DEF TypeOK
<1> DEFINE one == SubSeq(frames, 1, taken)
           rest == SubSeq(frames, taken + 1, Len(frames))
<1>2. one \in Seq(Frames) /\ SubSeq(frames, 1, Len(frames)) = frames
  <2>1. taken \in 0..Len(frames) /\ Len(frames) \in 0..Len(frames)
    BY <1>1
  <2> QED BY <1>1, <2>1, Pieces
<1>3. rest \in Seq(Frames)
  <2>1. \A i \in (taken + 1)..Len(frames) : i \in 1..Len(frames)
    BY <1>1
  <2>2. \A i \in (taken + 1)..Len(frames) : frames[i] \in Frames
    BY <1>1, <2>1, ElementOfSeq
  <2> QED BY <1>1, <2>2, SubSeqProperties
<1>4. one \o rest = frames
  <2> DEFINE n == Len(frames)
  <2>1. n \in Nat /\ taken <= n /\ n <= Len(frames)
    BY <1>1
  <2> HIDE DEF n
  <2>2. SubSeq(frames, 1, taken) \o SubSeq(frames, taken + 1, n) = SubSeq(frames, 1, n)
    BY <1>1, <2>1, PiecesJoin
  <2> QED BY <1>2, <2>2 DEF n
<1> HIDE DEF rest
<1>5. Selected(one \o rest, h) = Selected(one, h) \o Selected(rest, h)
  <2> HIDE DEF one
  <2> QED BY <1>2, <1>3, SelectedConcat
<1> QED BY <1>3, <1>4, <1>5 DEF Taken

LEMMA TakenStays ==
  ASSUME TypeOK, NEW more \in Seq(Frames), frames' = frames \o more, UNCHANGED taken
  PROVE  /\ \A h : Taken(h)' = Taken(h)
         /\ taken > 0 => frames'[taken] = frames[taken]
<1>1. taken \in Nat /\ taken <= Len(frames) /\ Len(frames) \in Nat /\ frames \in Seq(Frames)
  BY LenProperties DEF TypeOK
<1>2. \A i \in 1..taken : frames'[i] = frames[i] /\ frames[i] \in Frames
  <2>1. \A i \in 1..(Len(frames) + Len(more)) :
          (frames \o more)[i] = IF i <= Len(frames) THEN frames[i] ELSE more[i - Len(frames)]
    BY <1>1, ConcatProperties
  <2>2. \A i \in 1..taken : i \in 1..(Len(frames) + Len(more)) /\ i \in 1..Len(frames)
                           /\ i <= Len(frames)
    BY <1>1, LenProperties
  <2> QED BY <1>1, <2>1, <2>2, ElementOfSeq
<1>3. SubSeq(frames', 1, taken) = SubSeq(frames, 1, taken)
  <2>1. taken \in 0..Len(frames) /\ taken \in 0..Len(frames') /\ frames' \in Seq(Frames)
    BY <1>1, ConcatProperties, LenProperties
  <2> DEFINE s == SubSeq(frames, 1, taken)
             t == SubSeq(frames', 1, taken)
  <2>2. s \in Seq(Frames) /\ Len(s) = taken /\ \A i \in 1..taken : s[i] = frames[i]
    BY <1>1, <2>1, Pieces
  <2>3. t \in Seq(Frames) /\ Len(t) = taken /\ \A i \in 1..taken : t[i] = frames'[i]
    BY <2>1, Pieces
  <2> HIDE DEF s, t
  <2>4. s = t
    BY <1>2, <2>2, <2>3, SeqEqual
  <2> QED BY <2>4 DEF s, t
<1>4. \A h : Taken(h)' = Taken(h)
  BY <1>3 DEF Taken
<1>5. taken > 0 => taken \in 1..taken
  BY <1>1
<1> QED BY <1>2, <1>4, <1>5

-----------------------------------------------------------------------------
(* No frame comes any more, and none ever will. *)
NoMoreFrames ==
  \/ "far" \in closed \/ link = "down"
  \/ "near" \in closed /\ taken = Len(frames)

(* What a step does that is none of a reader: frames are only added, and   *)
(* only to a connection that still takes them.                             *)
LEMMA FramesGrow ==
  ASSUME TypeOK, [Next]_vars, \A r \in Readers : ~ReadMessage(r)
  PROVE  /\ UNCHANGED readVars
         /\ \E more \in Seq(Frames) : frames' = frames \o more
         /\ NoMoreFrames => NoMoreFrames'
<1> DEFINE Grown == \E more \in Seq(Frames) : frames' = frames \o more
<1>1. UNCHANGED frames => Grown
  BY EmptySeq, ConcatEmptySeq DEF TypeOK
<1>2. ASSUME NEW m \in Messages, NEW final \in BOOLEAN, WriteFrame(m, final) PROVE Grown
  <2>1. Kind(m) \in {"text", "binary", "more"}
    BY DEF Kind
  <2>2. PICK f \in Frames : frames' = Append(frames, f)
    BY <1>2, <2>1 DEF WriteFrame, Frames, TypeOK
  <2>3. <<f>> \in Seq(Frames) /\ Append(frames, f) = frames \o <<f>>
    BY AppendIsConcat DEF TypeOK
  <2> QED BY <2>2, <2>3
<1>3. UNCHANGED <<frames, readVars>> /\ closed \subseteq closed' /\ (link = "down" => link' = "down")
        => (NoMoreFrames => NoMoreFrames')
  BY DEF NoMoreFrames, readVars
<1>4. Writable /\ UNCHANGED <<closed, link>> => (NoMoreFrames => NoMoreFrames')
  BY DEF NoMoreFrames, Writable
<1> HIDE DEF Grown
<1>5. ASSUME NEW m \in Messages, WriteMessage(m)
      PROVE  UNCHANGED readVars /\ Grown /\ (NoMoreFrames => NoMoreFrames')
  <2>1. CASE FlushFrame(m)
    BY <1>2, <1>4, <2>1 DEF FlushFrame
  <2>2. CASE CloseWriter(m)
    BY <1>2, <1>4, <2>2 DEF CloseWriter
  <2>3. CASE ~FlushFrame(m) /\ ~CloseWriter(m)
    <3>1. UNCHANGED <<connVars, readVars>>
      BY <1>5, <2>3 DEF WriteMessage, ToWire, LockWmu, NextWriter, EncodeMsg, WriteReturn, WriteError
    <3> QED BY <1>1, <1>3, <3>1 DEF connVars
  <2> QED BY <2>1, <2>2, <2>3
<1>6. ASSUME NEW f \in Foreign, SendForeign(f)
      PROVE  UNCHANGED readVars /\ Grown /\ (NoMoreFrames => NoMoreFrames')
  <2>1. ForeignFrames(f) \in Seq(Frames)
    BY ForeignFramesAre
  <2> QED BY <1>4, <1>6, <2>1 DEF SendForeign, Grown
<1>7. ASSUME NEW e \in {"near", "far"}, Close(e)
      PROVE  UNCHANGED readVars /\ Grown /\ (NoMoreFrames => NoMoreFrames')
  BY <1>1, <1>3, <1>7 DEF Close
<1>8. LinkDown => UNCHANGED readVars /\ Grown /\ (NoMoreFrames => NoMoreFrames')
  BY <1>1, <1>3 DEF LinkDown
<1>9. UNCHANGED vars => UNCHANGED readVars /\ Grown /\ (NoMoreFrames => NoMoreFrames')
  BY <1>1, <1>3 DEF vars, connVars
<1> QED BY <1>5, <1>6, <1>7, <1>8, <1>9 DEF Next, Grown

-----------------------------------------------------------------------------
(* The readers have made one result of every websocket message they have   *)
(* begun, the one that is being decoded excepted; only a connection that is*)
(* at its end leaves one without.                                          *)
Opening == [f \in {g \in Frames : g.kind # "more"} |-> f]

Begun == Taken(Opening)

CountInv ==
  /\ Len(results) <= Len(Begun)
  /\ Decoding => /\ taken > 0 /\ Len(Begun) = Len(results) + 1
                 /\ Begun[Len(results) + 1].kind = "binary"
                 /\ Begun[Len(results) + 1].from = frames[taken].from
  /\ ~Decoding /\ ~NoMoreFrames => Len(Begun) = Len(results)
  /\ \A i \in 1..Len(results) : results[i] = Alone(Begun[i].kind, Content(Begun[i].from))

LEMMA BegunType == ASSUME TypeOK PROVE Begun \in Seq(Frames) /\ Len(Begun) \in Nat
<1>1. SubSeq(frames, 1, taken) \in Seq(Frames)
  BY Pieces DEF TypeOK
<1>2. \A x \in Frames \cap DOMAIN Opening : Opening[x] \in Frames
  BY DEF Opening
<1>3. Begun \in Seq(Frames)
  BY <1>1, <1>2, SelectedType DEF Begun, Taken
<1> QED BY <1>3, LenProperties

LEMMA CountInvStays ==
  ASSUME TypeOK, CountInv, UNCHANGED readVars, NoMoreFrames => NoMoreFrames',
         \E more \in Seq(Frames) : frames' = frames \o more
  PROVE  CountInv'
<1>1. UNCHANGED <<taken, results>> /\ (Decoding' <=> Decoding)
  BY DEF readVars, Decoding
<1>2. Begun' = Begun /\ (taken > 0 => frames'[taken] = frames[taken])
  <2>1. PICK more \in Seq(Frames) : frames' = frames \o more
    OBVIOUS
  <2>2. (\A h : Taken(h)' = Taken(h)) /\ (taken > 0 => frames'[taken] = frames[taken])
    BY <1>1, <2>1, TakenStays
  <2>3. Taken(Opening)' = Taken(Opening)
    <3>1. Opening' = Opening
      BY DEF Opening, Frames
    <3> QED BY <2>2, <3>1 DEF Taken
  <2> QED BY <2>2, <2>3 DEF Begun
<1> QED BY <1>1, <1>2 DEF CountInv

(* The websocket message begun last gets its result. *)
LEMMA OneResultMore ==
  ASSUME TypeOK, TypeOK', NEW k, NEW x,
         Len(Begun') = Len(results) + 1,
         Begun'[Len(results) + 1].kind = k, Begun'[Len(results) + 1].from = x,
         \A i \in 1..Len(results) : results[i] = Alone(Begun'[i].kind, Content(Begun'[i].from)),
         NEW v, results' = Append(results, v), v = Alone(k, Content(x)), ~Decoding'
  PROVE  CountInv'
<1>0. Len(results) \in Nat
  BY LenProperties DEF TypeOK
<1>1. /\ Len(results') = Len(results) + 1 /\ results'[Len(results) + 1] = v
      /\ \A i \in 1..Len(results) : results'[i] = results[i]
  <2> DEFINE S == Messages \cup Foreign \cup {"ErrInvalidMsg", "EOF", Garbled} \cup {v}
  <2>1. results \in Seq(S)
    <3>1. results \in Seq(Messages \cup Foreign \cup {"ErrInvalidMsg", "EOF", Garbled})
      BY DEF TypeOK
    <3> QED BY <3>1, SeqMonotonic
  <2>2. v \in S
    OBVIOUS
  <2> HIDE DEF S
  <2> QED BY <2>1, <2>2, AppendProperties
<1>2. ASSUME NEW i \in 1..Len(results')
      PROVE  results'[i] = Alone(Begun'[i].kind, Content(Begun'[i].from))
  <2>1. i \in 1..Len(results) \/ i = Len(results) + 1
    BY <1>0, <1>1
  <2> QED BY <1>1, <2>1
<1>3. ~Decoding' /\ Len(results') <= Len(Begun') /\ Len(Begun') = Len(results')
  BY <1>0, <1>1
<1> QED BY <1>2, <1>3 DEF CountInv, Alone, Content, Whole, Assembled

(* Nothing begins and nothing gets its result. *)
LEMMA CountKept ==
  ASSUME CountInv, UNCHANGED <<results, Begun>>,
         Decoding' => Decoding /\ taken' > 0 /\ frames'[taken'].from = frames[taken].from,
         ~Decoding' /\ ~NoMoreFrames' => Len(Begun) = Len(results)
  PROVE  CountInv'
<1>1. \A i \in 1..Len(results') : results'[i] = Alone(Begun'[i].kind, Content(Begun'[i].from))
  BY DEF CountInv
<1>2. Len(results') <= Len(Begun') /\ (~Decoding' /\ ~NoMoreFrames' => Len(Begun') = Len(results'))
  BY DEF CountInv
<1>3. Decoding' => /\ taken' > 0 /\ Len(Begun') = Len(results') + 1
                   /\ Begun'[Len(results') + 1].kind = "binary"
                   /\ Begun'[Len(results') + 1].from = frames'[taken'].from
  BY DEF CountInv
<1> QED BY <1>1, <1>2, <1>3 DEF CountInv, Alone, Content, Whole, Assembled

LEMMA ReadCount ==
  ASSUME TypeOK, TypeOK', FrameInv, RmuInv, PartsInv, CountInv,
         NEW r \in Readers, ReadMessage(r)
  PROVE  CountInv'
<1>1. UNCHANGED <<writeVars, connVars, frames, closed, link>>
  BY DEF ReadMessage, LockRmu, SkipFrame, NextReader, DecodeMsg, FromWire, DecodeError,
         ReadError, connVars
<1>2. UNCHANGED taken => Begun' = Begun /\ (NoMoreFrames' <=> NoMoreFrames)
  <2>1. Opening' = Opening
    BY DEF Opening, Frames
  <2> QED BY <1>1, <2>1 DEF Begun, Taken, NoMoreFrames
<1>3. FrameReady => ~NoMoreFrames
  BY DEF FrameReady, NoMoreFrames, TypeOK
<1>4. Len(results) \in Nat /\ Begun \in Seq(Frames) /\ Len(Begun) \in Nat
  BY BegunType, LenProperties DEF TypeOK
<1>5. PICK off \in [1..Len(frames) -> Nat] : Placed(frames, off)
  BY DEF PartsInv
<1>6. ASSUME FrameReady, taken' = taken + 1
      PROVE  /\ NextFrame \in Frames /\ taken' > 0 /\ frames'[taken'] = NextFrame
             /\ NextFrame.kind = "more" => Begun' = Begun
             /\ NextFrame.kind # "more" => Begun' = Append(Begun, NextFrame)
             /\ NextFrame.kind = "more" => NextFrame.from = frames[taken].from
             /\ taken > 0 /\ ~frames[taken].fin => NextFrame.kind = "more"
  <2>1. /\ NextFrame \in Frames /\ taken + 1 \in 1..Len(frames)
        /\ NextFrame.kind = "more" => NextFrame.from = frames[taken].from
        /\ taken > 0 /\ ~frames[taken].fin => NextFrame.kind = "more"
    BY <1>5, <1>6, NextPiece
  <2>2. /\ Opening' = Opening
        /\ \A f \in Frames : f \in DOMAIN Opening <=> f.kind # "more"
        /\ \A f \in Frames : f.kind # "more" => Opening[f] = f
    BY DEF Opening, Frames
  <2>3. /\ NextFrame \in DOMAIN Opening => Taken(Opening)' = Append(Taken(Opening), Opening[NextFrame])
        /\ NextFrame \notin DOMAIN Opening => Taken(Opening)' = Taken(Opening)
    <3>1. PICK h : h = Opening
      OBVIOUS
    <3>2. /\ NextFrame \in DOMAIN h => Taken(h)' = Append(Taken(h), h[NextFrame])
          /\ NextFrame \notin DOMAIN h => Taken(h)' = Taken(h)
      BY <1>1, <1>6, TakenNext
    <3>3. Taken(Opening)' = Taken(h)'
      BY <2>2, <3>1 DEF Taken
    <3> QED BY <3>1, <3>2, <3>3
  <2>4. taken' > 0 /\ frames'[taken'] = NextFrame
    BY <1>1, <1>6, <2>1 DEF NextFrame
  <2>5. /\ NextFrame.kind = "more" => Begun' = Begun
        /\ NextFrame.kind # "more" => Begun' = Append(Begun, NextFrame)
    <3>1. NextFrame \in DOMAIN Opening <=> NextFrame.kind # "more"
      BY <2>1, <2>2
    <3>2. NextFrame.kind # "more" => Opening[NextFrame] = NextFrame
      BY <2>1, <2>2
    <3> QED BY <2>3, <3>1, <3>2 DEF Begun
  <2> QED BY <2>1, <2>4, <2>5
<1>7. CASE ~Decoding' /\ UNCHANGED <<taken, results>> /\ ((LockRmu(r) /\ ~Decoding) \/ ReadError(r))
  <2>1. ~NoMoreFrames => Len(Begun) = Len(results)
    BY <1>7 DEF ReadError, NoMoreFrames, CountInv
  <2> QED BY <1>2, <1>7, <2>1, CountKept
<1>8. CASE SkipFrame(r) /\ ~Decoding /\ ~Decoding'
  <2>1. FrameReady /\ taken' = taken + 1 /\ NextFrame.kind = "more" /\ results' = results
    BY <1>8 DEF SkipFrame
  <2>2. Begun' = Begun
    BY <1>6, <2>1
  <2>3. Len(Begun) = Len(results)
    BY <1>3, <1>8, <2>1 DEF CountInv
  <2> QED BY <1>8, <2>1, <2>2, <2>3, CountKept
<1>9. ASSUME NextReader(r), ~Decoding
      PROVE  /\ Begun' = Append(Begun, NextFrame) /\ taken' > 0 /\ frames'[taken'] = NextFrame
             /\ Len(Begun') = Len(results) + 1 /\ Begun'[Len(results) + 1] = NextFrame
             /\ \A i \in 1..Len(results) :
                  results[i] = Alone(Begun'[i].kind, Content(Begun'[i].from))
  <2>1. FrameReady /\ taken' = taken + 1 /\ NextFrame.kind # "more"
    BY <1>9 DEF NextReader
  <2>2. Begun' = Append(Begun, NextFrame) /\ taken' > 0 /\ frames'[taken'] = NextFrame
        /\ NextFrame \in Frames
    BY <1>6, <2>1
  <2>3. Len(Begun) = Len(results)
    BY <1>3, <1>9, <2>1 DEF CountInv
  <2>4. /\ Len(Begun') = Len(results) + 1 /\ Begun'[Len(results) + 1] = NextFrame
        /\ \A i \in 1..Len(results) : Begun'[i] = Begun[i]
    BY <1>4, <2>2, <2>3, AppendProperties
  <2> QED BY <2>2, <2>4 DEF CountInv
<1>10. CASE NextReader(r) /\ ~Decoding /\ NextFrame.kind = "binary" /\ Decoding'
            /\ UNCHANGED results
  <2>1. Len(results') <= Len(Begun')
    BY <1>4, <1>9, <1>10
  <2>2. Begun'[Len(results') + 1].kind = "binary"
        /\ Begun'[Len(results') + 1].from = frames'[taken'].from
    BY <1>9, <1>10
  <2> QED BY <1>9, <1>10, <2>1, <2>2 DEF CountInv, Alone, Content, Whole, Assembled
<1>11. CASE NextReader(r) /\ ~Decoding /\ NextFrame.kind = "text" /\ ~Decoding'
            /\ results' = Append(results, "ErrInvalidMsg")
  <2>1. "ErrInvalidMsg" = Alone("text", Content(NextFrame.from))
    BY DEF Alone
  <2> QED BY <1>9, <1>11, <2>1, OneResultMore
<1>12. CASE DecodeMsg(r) /\ Decoding /\ Decoding'
  <2>1. FrameReady /\ taken' = taken + 1 /\ results' = results /\ ~frames[taken].fin
    BY <1>12 DEF DecodeMsg, Ended
  <2>2. taken > 0
    BY <1>12 DEF CountInv
  <2>3. /\ Begun' = Begun /\ taken' > 0 /\ frames'[taken'].from = frames[taken].from
    BY <1>6, <2>1, <2>2
  <2> QED BY <1>12, <2>1, <2>3, CountKept
<1>13. CASE (FromWire(r) \/ DecodeError(r)) /\ Decoding /\ ~Decoding'
  <2>1. PICK v : /\ results' = Append(results, v)
                 /\ v = Alone("binary", Content(frames[taken].from))
    BY <1>13, DecodesAlone
  <2>2. Begun' = Begun
    BY <1>2, <1>13 DEF FromWire, DecodeError
  <2>3. /\ Len(Begun) = Len(results) + 1
        /\ Begun[Len(results) + 1].kind = "binary"
        /\ Begun[Len(results) + 1].from = frames[taken].from
        /\ \A i \in 1..Len(results) : results[i] = Alone(Begun[i].kind, Content(Begun[i].from))
    BY <1>13 DEF CountInv
  <2> QED BY <1>13, <2>1, <2>2, <2>3, OneResultMore
<1> QED
  BY <1>7, <1>8, <1>10, <1>11, <1>12, <1>13, ReadSteps

(* All that the frames and the reading of them rest on. *)
ReadingInv == FrameInv /\ PartsInv /\ RmuInv /\ CountInv

LEMMA NextReadingInv ==
  ASSUME TypeOK, TypeOK', ReadingInv, [Next]_vars
  PROVE  ReadingInv'
<1> USE DEF ReadingInv
<1>1. CASE \E r \in Readers : ReadMessage(r)
  <2>1. PICK r \in Readers : ReadMessage(r)
    BY <1>1
  <2>2. UNCHANGED <<writeVars, frames>>
    BY <2>1 DEF ReadMessage, LockRmu, SkipFrame, NextReader, DecodeMsg, FromWire,
                DecodeError, ReadError, connVars
  <2>3. FrameInv'
    BY <2>2 DEF writeVars, FrameInv, FramesWhole, WriterInv, Unfinished
  <2> QED BY <2>1, <2>3, ReadRmu, ReadParts, ReadCount
<1>2. CASE \A r \in Readers : ~ReadMessage(r)
  <2>1. UNCHANGED readVars /\ CountInv'
    BY <1>2, FramesGrow, CountInvStays
  <2>2. RmuInv'
    BY <2>1 DEF readVars, RmuInv
  <2>3. ASSUME UNCHANGED <<writeVars, frames>> PROVE FrameInv' /\ PartsInv'
    <3>1. FrameInv'
      BY <2>3 DEF writeVars, FrameInv, FramesWhole, WriterInv, Unfinished
    <3>2. PICK off \in [1..Len(frames) -> Nat] :
            Placed(frames, off) /\ Encoded(off) /\ Decoded(off)
      BY DEF PartsInv
    <3>3. Encoded(off)' /\ Decoded(off)' /\ Placed(frames', off)
      BY <2>1, <2>3, <3>2
      DEF Encoded, SentUpTo, Unfinished, Decoded, Decoding, writeVars, readVars
    <3>4. PartsInv'
      BY <2>3, <3>3 DEF PartsInv
    <3> QED BY <3>1, <3>4
  <2>4. ASSUME NEW m \in Messages, WriteMessage(m) PROVE FrameInv' /\ PartsInv'
    BY <2>4, WriteFrameInv, WriteParts
  <2>5. ASSUME NEW f \in Foreign, SendForeign(f) PROVE FrameInv' /\ PartsInv'
    BY <2>5, ForeignFrameInv, ForeignParts
  <2>6. (\E e \in {"near", "far"} : Close(e)) \/ LinkDown \/ UNCHANGED vars
          => UNCHANGED <<writeVars, frames>>
    BY DEF Close, LinkDown, vars, connVars
  <2> QED BY <1>2, <2>1, <2>2, <2>3, <2>4, <2>5, <2>6 DEF Next
<1> QED BY <1>1, <1>2

LEMMA InitReadingInv ==
  ASSUME Init
  PROVE  ReadingInv
<1>1. /\ frames = <<>> /\ taken = 0 /\ results = <<>> /\ wmu = None /\ rmu = None
      /\ \A m \in Messages : call[m] = "idle"
      /\ \A r \in Readers : read[r] = "idle"
      /\ writeErr = FALSE /\ Len(frames) = 0 /\ Len(results) = 0
  BY EmptySeq DEF Init
<1>2. FrameInv
  BY <1>1 DEF FrameInv, FramesWhole, WriterInv, Unfinished
<1>3. RmuInv /\ ~Decoding
  BY <1>1 DEF RmuInv, Decoding
<1>4. PartsInv
  <2>1. PICK off : off \in [1..Len(frames) -> Nat]
    <3>1. [i \in 1..Len(frames) |-> 0] \in [1..Len(frames) -> Nat]
      OBVIOUS
    <3> QED BY <3>1
  <2>2. Placed(frames, off) /\ Encoded(off) /\ Decoded(off)
    BY <1>1, <1>3 DEF Placed, Encoded, Decoded
  <2> QED BY <2>1, <2>2 DEF PartsInv
<1>5. Begun = <<>>
  <2>1. SubSeq(frames, 1, 0) = <<>>
    <3>1. frames \in Seq(Frames) /\ 0 \in 0..Len(frames)
      BY <1>1, EmptySeq
    <3>2. SubSeq(frames, 1, 0) \in Seq(Frames) /\ Len(SubSeq(frames, 1, 0)) = 0
      BY <3>1, Pieces
    <3> QED BY <3>2, EmptySeq
  <2> QED BY <1>1, <2>1, SelectedEmpty DEF Begun, Taken
<1>6. CountInv
  BY <1>1, <1>3, <1>5 DEF CountInv
<1> QED BY <1>2, <1>3, <1>4, <1>6 DEF ReadingInv

(* For any number of writers, readers and foreign messages, of any size and*)
(* in any number of frames: ReadMessage makes of a websocket message what  *)
(* it would if nothing else had ever been on the connection.               *)
THEOREM MessagesStayApart == Spec => []FramesIsolated
<1>1. Init => ReadingInv
  BY InitReadingInv
<1>2. TypeOK /\ TypeOK' /\ ReadingInv /\ [Next]_vars => ReadingInv'
  BY NextReadingInv
<1>3. TypeOK /\ ReadingInv => FramesIsolated
  <2> SUFFICES ASSUME TypeOK, ReadingInv, NEW i \in 1..Len(results)
               PROVE  /\ i <= Len(Firsts)
                      /\ results[i] = Alone(Firsts[i].kind, Content(Firsts[i].from))
    BY DEF FramesIsolated
  <2>1. Firsts = Selected(frames, Opening)
    BY DEF Firsts, Opening
  <2>2. PICK rest \in Seq(Frames) : Firsts = Begun \o Selected(rest, Opening)
    BY <2>1, TakenOfAll DEF Begun
  <2>3. Begun \in Seq(Frames) /\ Len(Begun) \in Nat
    BY BegunType
  <2>4. Selected(rest, Opening) \in Seq(Frames)
    <3>1. \A x \in Frames \cap DOMAIN Opening : Opening[x] \in Frames
      BY DEF Opening
    <3> QED BY <3>1, SelectedType
  <2> DEFINE t == Selected(rest, Opening)
  <2>5. t \in Seq(Frames) /\ Len(t) \in Nat /\ Firsts = Begun \o t
    BY <2>2, <2>4, LenProperties
  <2> HIDE DEF t
  <2>6. i \in 1..Len(Begun) /\ results[i] = Alone(Begun[i].kind, Content(Begun[i].from))
    BY <2>3, LenProperties DEF ReadingInv, CountInv, TypeOK
  <2>7. Len(Firsts) = Len(Begun) + Len(t) /\ Firsts[i] = Begun[i]
    <3>1. Len(Begun \o t) = Len(Begun) + Len(t)
          /\ \A j \in 1..(Len(Begun) + Len(t)) :
               (Begun \o t)[j] = IF j <= Len(Begun) THEN Begun[j] ELSE t[j - Len(Begun)]
      BY <2>3, <2>5, ConcatProperties
    <3>2. i \in 1..(Len(Begun) + Len(t)) /\ i <= Len(Begun)
      BY <2>3, <2>5, <2>6
    <3> QED BY <2>5, <3>1, <3>2
  <2>8. i <= Len(Firsts)
    BY <2>3, <2>5, <2>6, <2>7
  <2> QED BY <2>6, <2>7, <2>8
<1> QED BY <1>1, <1>2, <1>3, TypeCorrect, PTL DEF Spec

-----------------------------------------------------------------------------
(* The messages of the codec, complete on the wire and handed over. *)
Finishing == [f \in {g \in Frames : g.fin /\ g.from \in Messages} |-> f.from]
Mine      == [x \in Messages |-> x]
Received  == Selected(results, Mine)

(* The final frame of m is on the wire. *)
Finished(m) == \E i \in 1..Len(frames) : frames[i].fin /\ frames[i].from = m

LEMMA FinishingOf ==
  /\ Accepted = Selected(frames, Finishing) /\ Accepted' = Selected(frames', Finishing)
  /\ Finishing' = Finishing /\ Mine' = Mine
  /\ \A f \in Frames : f \in DOMAIN Finishing <=> f.fin /\ f.from \in Messages
  /\ \A f \in Frames : f.fin /\ f.from \in Messages => Finishing[f] = f.from
  /\ \A f \in Frames \cap DOMAIN Finishing : Finishing[f] \in Messages
<1>1. Finishing' = Finishing /\ Mine' = Mine
  BY DEF Finishing, Mine, Frames, Parts
<1>2. Accepted = Selected(frames, Finishing) /\ Accepted' = Selected(frames', Finishing)
  BY DEF Accepted, Finishing
<1>3. ASSUME NEW f \in Frames
      PROVE  /\ f \in DOMAIN Finishing <=> f.fin /\ f.from \in Messages
             /\ f.fin /\ f.from \in Messages => Finishing[f] = f.from
             /\ f \in DOMAIN Finishing => Finishing[f] \in Messages
  BY DEF Finishing
<1> QED BY <1>1, <1>2, <1>3

LEMMA AcceptedHas ==
  ASSUME TypeOK, NEW m \in Messages
  PROVE  Channel!InChannel(m) <=> Finished(m)
<1>1. frames \in Seq(Frames) /\ Accepted = Selected(frames, Finishing)
  BY FinishingOf DEF TypeOK
<1>2. IsIn(m, Accepted) <=> IsMade(m, Finishing, frames)
  BY <1>1, SelectedMembers
<1>3. ASSUME NEW i \in 1..Len(frames)
      PROVE  (frames[i] \in DOMAIN Finishing /\ Finishing[frames[i]] = m)
               <=> (frames[i].fin /\ frames[i].from = m)
  <2>1. frames[i] \in Frames
    BY <1>1, ElementOfSeq
  <2> QED BY <2>1, FinishingOf
<1>4. IsMade(m, Finishing, frames) <=> Finished(m)
  BY <1>3 DEF IsMade, Finished
<1> QED BY <1>2, <1>4 DEF IsIn, Channel!InChannel

(* One frame more on the wire. *)
LEMMA AcceptedAppend ==
  ASSUME TypeOK, NEW f \in Frames, frames' = Append(frames, f)
  PROVE  /\ f.fin /\ f.from \in Messages => Accepted' = Append(Accepted, f.from)
         /\ ~(f.fin /\ f.from \in Messages) => Accepted' = Accepted
         /\ \A x : Finished(x)' <=> Finished(x) \/ (f.fin /\ f.from = x)
<1>1. frames \in Seq(Frames) /\ Len(frames) \in Nat
  BY LenProperties DEF TypeOK
<1>2. Selected(Append(frames, f), Finishing) =
        IF f \in DOMAIN Finishing THEN Append(Selected(frames, Finishing), Finishing[f])
        ELSE Selected(frames, Finishing)
  BY <1>1, SelectedAppend
<1>3. /\ Accepted = Selected(frames, Finishing) /\ Accepted' = Selected(frames', Finishing)
      /\ f \in DOMAIN Finishing <=> f.fin /\ f.from \in Messages
      /\ f.fin /\ f.from \in Messages => Finishing[f] = f.from
  BY FinishingOf
<1>4. ASSUME NEW x PROVE Finished(x)' <=> Finished(x) \/ (f.fin /\ f.from = x)
  <2>1. /\ Len(frames') = Len(frames) + 1 /\ frames'[Len(frames) + 1] = f
        /\ \A i \in 1..Len(frames) : frames'[i] = frames[i]
    BY <1>1, AppendProperties
  <2>2. 1..Len(frames') = 1..Len(frames) \cup {Len(frames) + 1}
    BY <1>1, <2>1
  <2>3. Finished(x)' <=> \E i \in 1..Len(frames') : frames'[i].fin /\ frames'[i].from = x
    BY DEF Finished
  <2> QED BY <2>1, <2>2, <2>3 DEF Finished
<1> QED BY <1>2, <1>3, <1>4

LEMMA AcceptedForeign ==
  ASSUME TypeOK, NEW f \in Foreign, frames' = frames \o ForeignFrames(f)
  PROVE  Accepted' = Accepted /\ \A x \in Messages : Finished(x)' <=> Finished(x)
<1> DEFINE sent == ForeignFrames(f)
<1>1. /\ frames \in Seq(Frames) /\ Len(frames) \in Nat /\ sent \in Seq(Frames)
      /\ Len(sent) \in Nat /\ \A i \in 1..Len(sent) : sent[i].from \notin Messages
  BY ForeignFramesAre, LenProperties DEF TypeOK
<1>2. frames' = frames \o sent
  OBVIOUS
<1> HIDE DEF sent
<1>3. Selected(sent, Finishing) = <<>>
  <2>1. \A i \in 1..Len(sent) : sent[i] \in Frames
    BY <1>1, ElementOfSeq
  <2>2. \A i \in 1..Len(sent) : sent[i] \notin DOMAIN Finishing
    BY <1>1, <2>1, FinishingOf
  <2> QED BY <1>1, <2>2, NothingSelected
<1>4. Selected(frames \o sent, Finishing) = Selected(frames, Finishing) \o Selected(sent, Finishing)
  BY <1>1, SelectedConcat
<1>5. Selected(frames, Finishing) \in Seq(Messages)
  <2>1. \A g \in Frames \cap DOMAIN Finishing : Finishing[g] \in Messages
    BY FinishingOf
  <2> QED BY <1>1, <2>1, SelectedType
<1>6. Accepted' = Accepted
  <2>1. Selected(frames, Finishing) \o <<>> = Selected(frames, Finishing)
    BY <1>5, ConcatEmptySeq
  <2> QED BY <1>2, <1>3, <1>4, <2>1, FinishingOf
<1>7. ASSUME NEW x \in Messages PROVE Finished(x)' <=> Finished(x)
  <2>1. /\ Len(frames') = Len(frames) + Len(sent)
        /\ \A i \in 1..(Len(frames) + Len(sent)) :
             frames'[i] = IF i <= Len(frames) THEN frames[i] ELSE sent[i - Len(frames)]
    BY <1>1, <1>2, ConcatProperties
  <2>2. \A i \in 1..Len(frames) : i \in 1..Len(frames') /\ frames'[i] = frames[i]
    BY <1>1, <2>1
  <2>3. \A i \in 1..Len(frames') : i \in 1..Len(frames) \/ frames'[i].from \notin Messages
    <3> SUFFICES ASSUME NEW i \in 1..Len(frames'), i \notin 1..Len(frames)
                 PROVE  frames'[i].from \notin Messages
      OBVIOUS
    <3>1. i - Len(frames) \in 1..Len(sent) /\ ~(i <= Len(frames))
      BY <1>1, <2>1
    <3>2. frames'[i] = sent[i - Len(frames)]
      BY <2>1, <3>1
    <3> QED BY <1>1, <3>1, <3>2
  <2>4. Finished(x)' <=> \E i \in 1..Len(frames') : frames'[i].fin /\ frames'[i].from = x
    BY DEF Finished
  <2> QED BY <2>2, <2>3, <2>4 DEF Finished
<1> QED BY <1>6, <1>7

-----------------------------------------------------------------------------
(* The final frame of a message is out once w.Close has written it, and    *)
(* not before.                                                             *)
SentInv ==
  \A m \in Messages :
    /\ call[m] \in {"idle", "locking", "starting", "encoding", "closing"} => ~Finished(m)
    /\ call[m] = "closed" => Finished(m)

(* A frame of a WriteMessage is one of the frames, and which. *)
LEMMA FrameWritten ==
  ASSUME TypeOK, NEW m \in Messages, NEW final \in BOOLEAN, WriteFrame(m, final)
  PROVE  \E f \in Frames : frames' = Append(frames, f) /\ f.fin = final /\ f.from = m
<1>1. Kind(m) \in {"text", "binary", "more"}
  BY DEF Kind
<1>2. [kind |-> Kind(m), parts |-> buffered, fin |-> final, from |-> m] \in Frames
  BY <1>1 DEF Frames, TypeOK
<1> QED BY <1>2 DEF WriteFrame

LEMMA NextSentInv ==
  ASSUME TypeOK, SentInv, [Next]_vars
  PROVE  SentInv'
<1> USE DEF Set
<1>1. call \in [Messages -> {"idle", "locking", "starting", "encoding", "closing",
                            "closed", "ok", "failed"}]
  BY DEF TypeOK
<1>2. UNCHANGED frames => \A x : Finished(x)' <=> Finished(x)
  BY DEF Finished
<1>3. ASSUME UNCHANGED call, \A x \in Messages : Finished(x)' <=> Finished(x) PROVE SentInv'
  BY <1>3 DEF SentInv
<1>4. ASSUME NEW m \in Messages, WriteMessage(m) PROVE SentInv'
  <2>1. CASE FlushFrame(m)
    <3>1. PICK f \in Frames : frames' = Append(frames, f) /\ f.fin = FALSE /\ f.from = m
      BY <2>1, FrameWritten DEF FlushFrame
    <3>2. \A x : Finished(x)' <=> Finished(x)
      BY <3>1, AcceptedAppend
    <3> QED BY <1>3, <2>1, <3>2 DEF FlushFrame
  <2>2. CASE CloseWriter(m)
    <3>1. PICK f \in Frames : frames' = Append(frames, f) /\ f.fin = TRUE /\ f.from = m
      BY <2>2, FrameWritten DEF CloseWriter
    <3>2. \A x : Finished(x)' <=> Finished(x) \/ m = x
      BY <3>1, AcceptedAppend
    <3>3. call' = [call EXCEPT ![m] = "closed"]
      BY <2>2 DEF CloseWriter
    <3> QED BY <1>1, <3>2, <3>3 DEF SentInv
  <2>3. CASE ~FlushFrame(m) /\ ~CloseWriter(m)
    <3>1. UNCHANGED frames
      BY <1>4, <2>3 DEF WriteMessage, ToWire, LockWmu, NextWriter, EncodeMsg, WriteReturn,
                        WriteError, connVars
    <3>2. /\ call' = [call EXCEPT ![m] = call'[m]]
          /\ call[m] \in {"idle", "locking", "starting", "encoding", "closing", "closed"}
          /\ call'[m] \in {"locking", "starting", "encoding", "closing", "ok", "failed"}
          /\ call[m] = "closed" => call'[m] = "ok"
      <4>1. CASE NextWriter(m)
        <5>1. CASE writeErr
          BY <1>1, <4>1, <5>1 DEF NextWriter, Fail
        <5>2. CASE ~writeErr
          BY <1>1, <4>1, <5>2 DEF NextWriter
        <5> QED BY <5>1, <5>2
      <4>2. CASE ToWire(m) \/ LockWmu(m) \/ EncodeMsg(m)
        BY <1>1, <4>2 DEF ToWire, LockWmu, EncodeMsg
      <4>3. CASE WriteReturn(m) \/ WriteError(m)
        BY <1>1, <4>3 DEF WriteReturn, WriteError, Fail
      <4> QED BY <1>4, <2>3, <4>1, <4>2, <4>3 DEF WriteMessage
    <3>3. \A x \in Messages : x # m => call'[x] = call[x]
      BY <1>1, <3>2
    <3>4. \A x : Finished(x)' <=> Finished(x)
      BY <1>2, <3>1
    <3> QED BY <3>2, <3>3, <3>4 DEF SentInv
  <2> QED BY <2>1, <2>2, <2>3
<1>5. ASSUME NEW f \in Foreign, SendForeign(f) PROVE SentInv'
  BY <1>3, <1>5, AcceptedForeign DEF SendForeign, writeVars
<1>6. ASSUME NEW r \in Readers, ReadMessage(r) PROVE UNCHANGED <<call, frames>>
  BY <1>6 DEF ReadMessage, LockRmu, SkipFrame, NextReader, DecodeMsg, FromWire, DecodeError,
              ReadError, writeVars, connVars
<1>7. (\E e \in {"near", "far"} : Close(e)) \/ LinkDown \/ UNCHANGED vars
        => UNCHANGED <<call, frames>>
  BY DEF Close, LinkDown, vars, writeVars, connVars
<1> QED BY <1>2, <1>3, <1>4, <1>5, <1>6, <1>7 DEF Next

-----------------------------------------------------------------------------
(* Of the messages complete in the frames taken, all have been handed over,*)
(* but the one that is being decoded from its final frame; and a message of*)
(* the codec is never left before that frame, unless no more will come.    *)
Owed ==
  Decoding /\ frames[taken].fin /\ frames[taken].from \in Messages

ReceivedInv ==
  /\ Taken(Finishing) = IF Owed THEN Append(Received, frames[taken].from) ELSE Received
  /\ ~Decoding /\ ~NoMoreFrames /\ taken > 0 /\ ~frames[taken].fin
       => frames[taken].from \notin Messages

LEMMA ReceivedAppend ==
  ASSUME TypeOK, NEW v \in Messages \cup Foreign \cup {"ErrInvalidMsg", "EOF", Garbled},
         results' = Append(results, v)
  PROVE  /\ v \in Messages => Received' = Append(Received, v)
         /\ v \notin Messages => Received' = Received
<1>1. results \in Seq(Messages \cup Foreign \cup {"ErrInvalidMsg", "EOF", Garbled})
  BY DEF TypeOK
<1>2. Selected(Append(results, v), Mine) =
        IF v \in DOMAIN Mine THEN Append(Selected(results, Mine), Mine[v])
        ELSE Selected(results, Mine)
  BY <1>1, SelectedAppend
<1>3. (v \in DOMAIN Mine <=> v \in Messages) /\ (v \in Messages => Mine[v] = v)
  BY DEF Mine
<1>4. Received' = Selected(Append(results, v), Mine)
  <2>1. Mine' = Mine
    BY DEF Mine
  <2> QED BY <2>1 DEF Received
<1> QED BY <1>2, <1>3, <1>4 DEF Received

LEMMA ReceivedKept ==
  UNCHANGED results => Received' = Received
BY FinishingOf DEF Received

LEMMA ReceivedStays ==
  ASSUME TypeOK, ReceivedInv, UNCHANGED readVars, NoMoreFrames => NoMoreFrames',
         Decoding => taken > 0, \E more \in Seq(Frames) : frames' = frames \o more
  PROVE  ReceivedInv'
<1>1. UNCHANGED <<taken, results>> /\ (Decoding' <=> Decoding)
  BY DEF readVars, Decoding
<1>2. Taken(Finishing)' = Taken(Finishing) /\ (taken > 0 => frames'[taken] = frames[taken])
  <2>1. PICK more \in Seq(Frames) : frames' = frames \o more
    OBVIOUS
  <2>2. (\A h : Taken(h)' = Taken(h)) /\ (taken > 0 => frames'[taken] = frames[taken])
    BY <1>1, <2>1, TakenStays
  <2>3. Taken(Finishing)' = Taken(Finishing)
    BY <2>2, FinishingOf DEF Taken
  <2> QED BY <2>2, <2>3
<1>3. Received' = Received
  BY <1>1, ReceivedKept
<1>4. taken \in Nat
  BY DEF TypeOK
<1> QED BY <1>1, <1>2, <1>3, <1>4 DEF ReceivedInv, Owed

LEMMA ReadReceived ==
  ASSUME TypeOK, ReadingInv, ReceivedInv, NEW r \in Readers, ReadMessage(r)
  PROVE  ReceivedInv'
<1> USE DEF ReadingInv
<1>1. UNCHANGED <<frames, closed, link>>
  BY DEF ReadMessage, LockRmu, SkipFrame, NextReader, DecodeMsg, FromWire, DecodeError,
         ReadError, connVars
<1>2. UNCHANGED taken => /\ Taken(Finishing)' = Taken(Finishing)
                         /\ NoMoreFrames' <=> NoMoreFrames
  BY <1>1, FinishingOf DEF Taken, NoMoreFrames
<1>3. UNCHANGED results => Received' = Received
  BY ReceivedKept
<1>4. FrameReady => ~NoMoreFrames
  BY DEF FrameReady, NoMoreFrames, TypeOK
<1>5. PICK off \in [1..Len(frames) -> Nat] : Placed(frames, off)
  BY DEF PartsInv
<1> DEFINE Finishes == NextFrame.fin /\ NextFrame.from \in Messages
<1>6. ASSUME FrameReady, taken' = taken + 1
      PROVE  /\ NextFrame \in Frames /\ taken' > 0 /\ frames'[taken'] = NextFrame
             /\ Finishes => Taken(Finishing)' = Append(Taken(Finishing), NextFrame.from)
             /\ ~Finishes => Taken(Finishing)' = Taken(Finishing)
             /\ NextFrame.kind = "more" =>
                  taken > 0 /\ ~frames[taken].fin /\ NextFrame.from = frames[taken].from
             /\ NextFrame.kind = "text" => NextFrame.from \notin Messages
  <2>1. /\ NextFrame \in Frames /\ taken + 1 \in 1..Len(frames)
        /\ FrameAt(NextFrame, IF NextFrame.kind = "more" THEN off[taken] ELSE 0, off[taken + 1])
        /\ NextFrame.kind = "more" =>
             taken > 0 /\ ~frames[taken].fin /\ NextFrame.from = frames[taken].from
    BY <1>5, <1>6, NextPiece
  <2>2. NextFrame.kind = "text" => NextFrame.from \notin Messages
    BY <2>1 DEF FrameAt
  <2>3. taken' > 0 /\ frames'[taken'] = NextFrame
    BY <1>1, <1>6, <2>1 DEF NextFrame
  <2>4. PICK h : h = Finishing
    OBVIOUS
  <2>5. /\ NextFrame \in DOMAIN h => Taken(h)' = Append(Taken(h), h[NextFrame])
        /\ NextFrame \notin DOMAIN h => Taken(h)' = Taken(h)
    BY <1>1, <1>6, TakenNext
  <2>6. Taken(Finishing)' = Taken(h)'
    BY <2>4, FinishingOf DEF Taken
  <2>7. (NextFrame \in DOMAIN h <=> Finishes) /\ (Finishes => h[NextFrame] = NextFrame.from)
    BY <2>1, <2>4, FinishingOf
  <2>8. /\ Finishes => Taken(Finishing)' = Append(Taken(Finishing), NextFrame.from)
        /\ ~Finishes => Taken(Finishing)' = Taken(Finishing)
    <3> HIDE DEF Finishes
    <3> QED BY <2>4, <2>5, <2>6, <2>7
  <2> QED BY <2>1, <2>2, <2>3, <2>8
<1>7. CASE LockRmu(r) /\ ~Decoding /\ ~Decoding' /\ UNCHANGED <<taken, have, results>>
  BY <1>1, <1>2, <1>3, <1>7 DEF ReceivedInv, Owed
<1>8. CASE ReadError(r) /\ ~Decoding' /\ UNCHANGED <<taken, have, results>>
  <2>1. NoMoreFrames
    BY <1>8 DEF ReadError, NoMoreFrames
  <2>2. ~Owed
    <3>1. read[r] \in {"next", "decoding"} /\ (read[r] = "decoding" => ~frames[taken].fin)
      BY <1>8 DEF ReadError, Ended
    <3>2. rmu = r
      BY <3>1 DEF RmuInv
    <3> QED BY <3>1, <3>2 DEF Owed, Decoding
  <2>3. ~Owed'
    BY <1>8 DEF Owed
  <2>4. /\ Taken(Finishing)' = Taken(Finishing) /\ Received' = Received /\ NoMoreFrames'
    BY <1>2, <1>3, <1>8, <2>1
  <2> QED BY <2>2, <2>3, <2>4 DEF ReceivedInv
<1>9. CASE SkipFrame(r) /\ ~Decoding /\ ~Decoding'
  <2>1. FrameReady /\ taken' = taken + 1 /\ NextFrame.kind = "more" /\ results' = results
    BY <1>9 DEF SkipFrame
  <2>2. NextFrame.from \notin Messages
    BY <1>4, <1>6, <1>9, <2>1 DEF ReceivedInv
  <2>3. Taken(Finishing)' = Taken(Finishing) /\ frames'[taken'] = NextFrame /\ Received' = Received
    BY <1>3, <1>6, <2>1, <2>2
  <2> QED BY <1>9, <2>2, <2>3 DEF ReceivedInv, Owed
<1>10. CASE NextReader(r) /\ ~Decoding /\ NextFrame.kind = "binary" /\ Decoding'
            /\ UNCHANGED results
  <2>1. FrameReady /\ taken' = taken + 1
    BY <1>10 DEF NextReader
  <2>2. Owed' <=> Finishes
    BY <1>6, <1>10, <2>1 DEF Owed
  <2>3. Received' = Received /\ Taken(Finishing) = Received /\ frames'[taken'] = NextFrame
    BY <1>3, <1>6, <1>10, <2>1 DEF ReceivedInv, Owed
  <2>4. Taken(Finishing)' = IF Owed' THEN Append(Received', frames'[taken'].from) ELSE Received'
    BY <1>6, <2>1, <2>2, <2>3
  <2> QED BY <1>10, <2>4 DEF ReceivedInv
<1>11. CASE NextReader(r) /\ ~Decoding /\ NextFrame.kind = "text" /\ ~Decoding'
            /\ results' = Append(results, "ErrInvalidMsg")
  <2>1. FrameReady /\ taken' = taken + 1
    BY <1>11 DEF NextReader
  <2>2. NextFrame.from \notin Messages /\ Taken(Finishing)' = Taken(Finishing)
        /\ frames'[taken'] = NextFrame
    BY <1>6, <1>11, <2>1
  <2>3. Received' = Received
    BY <1>11, ReceivedAppend
  <2> QED BY <1>11, <2>2, <2>3 DEF ReceivedInv, Owed
<1>12. CASE DecodeMsg(r) /\ Decoding /\ Decoding'
  <2>1. FrameReady /\ taken' = taken + 1 /\ results' = results /\ ~frames[taken].fin
    BY <1>12 DEF DecodeMsg, Ended
  <2>2. Owed' <=> Finishes
    BY <1>6, <1>12, <2>1 DEF Owed
  <2>3. Received' = Received /\ Taken(Finishing) = Received /\ frames'[taken'] = NextFrame
    BY <1>3, <1>6, <2>1 DEF ReceivedInv, Owed
  <2>4. Taken(Finishing)' = IF Owed' THEN Append(Received', frames'[taken'].from) ELSE Received'
    BY <1>6, <2>1, <2>2, <2>3
  <2> QED BY <1>12, <2>4 DEF ReceivedInv
<1>13. CASE (FromWire(r) \/ DecodeError(r)) /\ Decoding /\ ~Decoding'
  <2>1. PICK v \in Messages \cup Foreign \cup {"ErrInvalidMsg", "EOF", Garbled} :
          /\ results' = Append(results, v)
          /\ frames[taken].from \in Messages => frames[taken].fin /\ v = frames[taken].from
          /\ frames[taken].from \notin Messages => v \notin Messages
    BY <1>13, DecodesAlone
  <2>2. UNCHANGED taken /\ Taken(Finishing)' = Taken(Finishing)
    BY <1>2, <1>13 DEF FromWire, DecodeError
  <2>3. /\ v \in Messages => Received' = Append(Received, v)
        /\ v \notin Messages => Received' = Received
    BY <2>1, ReceivedAppend
  <2>4. Taken(Finishing)' = Received' /\ ~Owed'
    BY <1>13, <2>1, <2>2, <2>3 DEF ReceivedInv, Owed
  <2>5. ~frames[taken].fin => frames'[taken'].from \notin Messages
    BY <1>1, <2>1, <2>2
  <2> QED BY <1>1, <2>2, <2>4, <2>5 DEF ReceivedInv
<1> QED
  BY <1>7, <1>8, <1>9, <1>10, <1>11, <1>12, <1>13, ReadSteps

LEMMA NextReceivedInv ==
  ASSUME TypeOK, ReadingInv, ReceivedInv, [Next]_vars
  PROVE  ReceivedInv'
<1>1. CASE \E r \in Readers : ReadMessage(r)
  BY <1>1, ReadReceived
<1>2. CASE \A r \in Readers : ~ReadMessage(r)
  <2>1. Decoding => taken > 0
    BY DEF ReadingInv, CountInv
  <2> QED BY <1>2, <2>1, FramesGrow, ReceivedStays
<1> QED BY <1>1, <1>2

(* What is handed over is the next message complete on the wire. *)
LEMMA HandedOverIsNext ==
  ASSUME TypeOK, ReadingInv, ReceivedInv, NEW r \in Readers, ReadMessage(r),
         Received' # Received
  PROVE  /\ Len(Received) < Len(Accepted)
         /\ Received' = Append(Received, Accepted[Len(Received) + 1])
<1>1. (FromWire(r) \/ DecodeError(r)) /\ Decoding
  <2>1. results' # results
    BY ReceivedKept
  <2>2. results' # Append(results, "ErrInvalidMsg")
    BY ReceivedAppend
  <2>3. SkipFrame(r) \/ DecodeMsg(r) => results' = results
    BY DEF SkipFrame, DecodeMsg
  <2> QED BY <2>1, <2>2, <2>3, ReadSteps DEF ReadingInv
<1>2. PICK v \in Messages \cup Foreign \cup {"ErrInvalidMsg", "EOF", Garbled} :
        /\ results' = Append(results, v)
        /\ frames[taken].from \in Messages => frames[taken].fin /\ v = frames[taken].from
        /\ frames[taken].from \notin Messages => v \notin Messages
  BY <1>1, DecodesAlone DEF ReadingInv
<1>3. v \in Messages /\ Received' = Append(Received, v)
  BY <1>2, ReceivedAppend
<1>4. Taken(Finishing) = Append(Received, v)
  BY <1>1, <1>2, <1>3 DEF ReceivedInv, Owed
<1>5. Received \in Seq(Messages) /\ Len(Received) \in Nat
  <2>1. results \in Seq(Messages \cup Foreign \cup {"ErrInvalidMsg", "EOF", Garbled})
    BY DEF TypeOK
  <2>2. \A x \in (Messages \cup Foreign \cup {"ErrInvalidMsg", "EOF", Garbled}) \cap DOMAIN Mine :
          Mine[x] \in Messages
    BY DEF Mine
  <2>3. Received \in Seq(Messages)
    BY <2>1, <2>2, SelectedType DEF Received
  <2> QED BY <2>3, LenProperties
<1>6. PICK rest \in Seq(Frames) : Accepted = Taken(Finishing) \o Selected(rest, Finishing)
  BY TakenOfAll, FinishingOf
<1> DEFINE t == Selected(rest, Finishing)
           s == Taken(Finishing)
<1>7. t \in Seq(Messages)
  <2>1. \A g \in Frames \cap DOMAIN Finishing : Finishing[g] \in Messages
    BY FinishingOf
  <2> QED BY <2>1, SelectedType
<1>8. /\ s \in Seq(Messages) /\ Len(s) = Len(Received) + 1 /\ s[Len(Received) + 1] = v
  BY <1>3, <1>4, <1>5, AppendProperties
<1>9. Accepted = s \o t
  BY <1>6
<1> HIDE DEF s, t
<1>10. /\ Len(Accepted) = Len(s) + Len(t) /\ Len(t) \in Nat
       /\ \A i \in 1..(Len(s) + Len(t)) : Accepted[i] = IF i <= Len(s) THEN s[i] ELSE t[i - Len(s)]
  <2>1. Len(t) \in Nat
    BY <1>7, LenProperties
  <2> QED BY <1>7, <1>8, <1>9, <2>1, ConcatProperties
<1>11. Accepted[Len(Received) + 1] = v /\ Len(Received) < Len(Accepted)
  BY <1>5, <1>8, <1>10
<1> QED BY <1>3, <1>11

-----------------------------------------------------------------------------
(* To the channel, a step of the codec is a step or nothing. *)
ChannelInv == TypeOK /\ ReadingInv /\ SentInv /\ ReceivedInv

LEMMA OutcomeOf ==
  ASSUME TypeOK, NEW m \in Messages, NEW o,
         \A n \in Messages : Reported(n)' = IF n = m THEN o ELSE Reported(n)
  PROVE  [n \in Messages |-> Reported(n)]' = [[n \in Messages |-> Reported(n)] EXCEPT ![m] = o]
OBVIOUS

LEMMA ChannelStep ==
  ASSUME ChannelInv, [Next]_vars
  PROVE  [Channel!Next]_(Channel!channelVars)
<1> USE DEF Set
<1> DEFINE out == [m \in Messages |-> Reported(m)]
<1>0. TypeOK /\ ReadingInv /\ SentInv /\ ReceivedInv
  BY DEF ChannelInv
<1>a. call \in [Messages -> {"idle", "locking", "starting", "encoding", "closing",
                            "closed", "ok", "failed"}]
  BY <1>0 DEF TypeOK
<1>1. UNCHANGED frames => Accepted' = Accepted
  BY FinishingOf
<1>2. UNCHANGED call => out' = out
  BY DEF Reported
<1>3. \A m \in Messages : out[m] = Reported(m)
  OBVIOUS
<1>4. ASSUME NEW m \in Messages, NEW o,
             \A n \in Messages : Reported(n)' = IF n = m THEN o ELSE Reported(n)
      PROVE  out' = [out EXCEPT ![m] = o]
  BY <1>0, <1>4, OutcomeOf
<1>5. \A m \in Messages : Channel!InChannel(m) <=> Finished(m)
  BY <1>0, AcceptedHas
<1>6. UNCHANGED results => Received' = Received
  BY ReceivedKept
<1>7. Received = Selected(results, [x \in Messages |-> x])
      /\ Received' = Selected(results', [x \in Messages |-> x])
  BY FinishingOf DEF Received, Mine
<1> HIDE DEF out
<1>8. ASSUME UNCHANGED <<out, Accepted, Received>> PROVE UNCHANGED Channel!channelVars
  BY <1>7, <1>8 DEF Channel!channelVars, out
<1>9. ASSUME NEW m \in Messages, UNCHANGED <<frames, results>>,
             Reported(m) \in {"idle", "sending"}, ~Finished(m),
             call' = [call EXCEPT ![m] = "failed"]
      PROVE  Channel!Next
  <2>1. out' = [out EXCEPT ![m] = "failed"]
    <3>1. \A n \in Messages : Reported(n)' = IF n = m THEN "failed" ELSE Reported(n)
      BY <1>a, <1>9 DEF Reported
    <3> QED BY <1>4, <3>1
  <2>2. Channel!Fail(m)
    BY <1>1, <1>3, <1>5, <1>6, <1>7, <1>9, <2>1 DEF Channel!Fail, out
  <2> QED BY <2>2 DEF Channel!Next
<1>10. ASSUME NEW m \in Messages, UNCHANGED <<frames, results>>,
              Reported(m) = "sending",
              \E c \in {"starting", "encoding", "closing"} : call' = [call EXCEPT ![m] = c]
       PROVE  UNCHANGED Channel!channelVars
  <2>1. \A n \in Messages : Reported(n)' = Reported(n)
    BY <1>a, <1>10 DEF Reported
  <2>2. out' = out
    BY <2>1 DEF out
  <2> QED BY <1>1, <1>6, <1>8, <1>10, <2>2
<1>11. ASSUME NEW m \in Messages, ToWire(m) PROVE Channel!Next
  <2>1. UNCHANGED <<frames, results>> /\ call[m] = "idle" /\ Reported(m) = "idle" /\ ~Finished(m)
    BY <1>0, <1>11 DEF ToWire, connVars, readVars, Reported, SentInv
  <2>2. CASE m \in Plain
    BY <1>9, <1>11, <2>1, <2>2 DEF ToWire
  <2>3. CASE m \notin Plain
    <3>1. call' = [call EXCEPT ![m] = "locking"]
      BY <1>11, <2>3 DEF ToWire
    <3>2. out' = [out EXCEPT ![m] = "sending"]
      <4>1. \A n \in Messages : Reported(n)' = IF n = m THEN "sending" ELSE Reported(n)
        BY <1>a, <3>1 DEF Reported
      <4> QED BY <1>4, <4>1
    <3>3. Channel!Begin(m)
      BY <1>1, <1>3, <1>6, <1>7, <2>1, <3>2 DEF Channel!Begin, out
    <3> QED BY <3>3 DEF Channel!Next
  <2> QED BY <2>2, <2>3
<1>12. ASSUME NEW m \in Messages, LockWmu(m) \/ EncodeMsg(m)
       PROVE  UNCHANGED Channel!channelVars
  <2>1. UNCHANGED <<frames, results>> /\ Reported(m) = "sending"
    BY <1>12 DEF LockWmu, EncodeMsg, connVars, readVars, Reported
  <2>2. \E c \in {"starting", "encoding", "closing"} : call' = [call EXCEPT ![m] = c]
    BY <1>12 DEF LockWmu, EncodeMsg
  <2> QED BY <1>10, <2>1, <2>2
<1>13. ASSUME NEW m \in Messages, NextWriter(m)
       PROVE  Channel!Next \/ UNCHANGED Channel!channelVars
  <2>1. UNCHANGED <<frames, results>> /\ Reported(m) = "sending" /\ ~Finished(m)
    BY <1>0, <1>13 DEF NextWriter, connVars, readVars, Reported, SentInv
  <2>2. CASE writeErr
    BY <1>9, <1>13, <2>1, <2>2 DEF NextWriter, Fail
  <2>3. CASE ~writeErr
    BY <1>10, <1>13, <2>1, <2>3 DEF NextWriter
  <2> QED BY <2>2, <2>3
<1>14. ASSUME NEW m \in Messages, FlushFrame(m) PROVE UNCHANGED Channel!channelVars
  <2>1. PICK f \in Frames : frames' = Append(frames, f) /\ f.fin = FALSE
    BY <1>0, <1>14, FrameWritten DEF FlushFrame
  <2>2. Accepted' = Accepted
    BY <1>0, <2>1, AcceptedAppend
  <2> QED BY <1>2, <1>6, <1>8, <1>14, <2>2 DEF FlushFrame, readVars
<1>15. ASSUME NEW m \in Messages, CloseWriter(m) PROVE Channel!Next
  <2>1. PICK f \in Frames : frames' = Append(frames, f) /\ f.fin = TRUE /\ f.from = m
    BY <1>0, <1>15, FrameWritten DEF CloseWriter
  <2>2. Accepted' = Append(Accepted, m)
    BY <1>0, <2>1, AcceptedAppend
  <2>3. Reported(m) = "sending" /\ ~Finished(m)
    BY <1>0, <1>15 DEF CloseWriter, Reported, SentInv
  <2>4. out' = out
    <3>1. \A n \in Messages : Reported(n)' = Reported(n)
      BY <1>a, <1>15 DEF CloseWriter, Reported
    <3> QED BY <3>1 DEF out
  <2>5. results' = results
    BY <1>15 DEF CloseWriter, readVars
  <2>6. Channel!PutIn(m)
    BY <1>3, <1>5, <1>6, <1>7, <2>2, <2>3, <2>4, <2>5 DEF Channel!PutIn, out
  <2> QED BY <2>6 DEF Channel!Next
<1>16. ASSUME NEW m \in Messages, WriteReturn(m) PROVE Channel!Next
  <2>1. UNCHANGED <<frames, results>> /\ Reported(m) = "sending" /\ Finished(m)
    BY <1>0, <1>16 DEF WriteReturn, connVars, readVars, Reported, SentInv
  <2>2. out' = [out EXCEPT ![m] = "ok"]
    <3>1. \A n \in Messages : Reported(n)' = IF n = m THEN "ok" ELSE Reported(n)
      BY <1>a, <1>16 DEF WriteReturn, Reported
    <3> QED BY <1>4, <3>1
  <2>3. Channel!Succeed(m)
    BY <1>1, <1>3, <1>5, <1>6, <1>7, <2>1, <2>2 DEF Channel!Succeed, out
  <2> QED BY <2>3 DEF Channel!Next
<1>17. ASSUME NEW m \in Messages, WriteError(m) PROVE Channel!Next
  <2>1. UNCHANGED <<frames, results>> /\ Reported(m) = "sending" /\ ~Finished(m)
    BY <1>0, <1>17 DEF WriteError, connVars, readVars, Reported, SentInv
  <2> QED BY <1>9, <1>17, <2>1 DEF WriteError, Fail
<1>18. ASSUME NEW m \in Messages, WriteMessage(m)
       PROVE  Channel!Next \/ UNCHANGED Channel!channelVars
  BY <1>11, <1>12, <1>13, <1>14, <1>15, <1>16, <1>17, <1>18 DEF WriteMessage
<1>19. ASSUME NEW f \in Foreign, SendForeign(f) PROVE UNCHANGED Channel!channelVars
  <2>1. Accepted' = Accepted
    BY <1>0, <1>19, AcceptedForeign DEF SendForeign
  <2> QED BY <1>2, <1>6, <1>8, <1>19, <2>1 DEF SendForeign, writeVars, readVars
<1>20. ASSUME NEW r \in Readers, ReadMessage(r)
       PROVE  Channel!Next \/ UNCHANGED Channel!channelVars
  <2>1. UNCHANGED <<frames, call>>
    BY <1>20 DEF ReadMessage, LockRmu, SkipFrame, NextReader, DecodeMsg, FromWire, DecodeError,
                 ReadError, writeVars, connVars
  <2>2. out' = out /\ Accepted' = Accepted
    BY <1>1, <1>2, <2>1
  <2>3. CASE Received' = Received
    BY <1>8, <2>2, <2>3
  <2>4. CASE Received' # Received
    <3>1. /\ Len(Received) < Len(Accepted)
          /\ Received' = Append(Received, Accepted[Len(Received) + 1])
      BY <1>0, <1>20, <2>4, HandedOverIsNext
    <3>2. Channel!TakeOut
      BY <1>7, <2>2, <3>1 DEF Channel!TakeOut, out
    <3> QED BY <3>2 DEF Channel!Next
  <2> QED BY <2>3, <2>4
<1>21. (\E e \in {"near", "far"} : Close(e)) \/ LinkDown \/ UNCHANGED vars
         => UNCHANGED Channel!channelVars
  <2>1. (\E e \in {"near", "far"} : Close(e)) \/ LinkDown \/ UNCHANGED vars
          => UNCHANGED <<frames, call, results>>
    BY DEF Close, LinkDown, vars, writeVars, connVars, readVars
  <2> QED BY <1>1, <1>2, <1>6, <1>8, <2>1
<1> QED BY <1>18, <1>19, <1>20, <1>21 DEF Next

(* For any messages of any size, any buffers, writers and readers, and     *)
(* whatever else a peer sends between them: the codec is a message channel.*)
(* ReadMessage hands over, in order and once, the messages whose final     *)
(* frame is out, and WriteMessage tells the truth about its own.           *)
THEOREM CodecIsAChannel == Spec => ImplementsChannel
<1>1. Init => Channel!Init
  <2> SUFFICES ASSUME Init PROVE Channel!Init
    OBVIOUS
  <2>1. Accepted = <<>>
    BY SelectedEmpty DEF Init, Accepted
  <2>2. Selected(results, [x \in Messages |-> x]) = <<>>
    BY SelectedEmpty DEF Init
  <2> QED BY <2>1, <2>2 DEF Init, Channel!Init, Reported
<1>2. Init /\ TypeOK => ChannelInv
  <2> SUFFICES ASSUME Init, TypeOK PROVE ChannelInv
    OBVIOUS
  <2>1. ReadingInv
    BY InitReadingInv
  <2>2. frames = <<>> /\ Len(frames) = 0 /\ taken = 0 /\ results = <<>>
        /\ \A m \in Messages : call[m] = "idle"
    BY EmptySeq DEF Init
  <2>3. SentInv
    BY <2>2 DEF SentInv, Finished
  <2>4. ReceivedInv
    <3>1. ~Decoding
      BY DEF Init, Decoding
    <3>2. SubSeq(frames, 1, 0) = <<>>
      <4>1. frames \in Seq(Frames) /\ 0 \in 0..Len(frames)
        BY <2>2, EmptySeq
      <4>2. SubSeq(frames, 1, 0) \in Seq(Frames) /\ Len(SubSeq(frames, 1, 0)) = 0
        BY <4>1, Pieces
      <4> QED BY <4>2, EmptySeq
    <3>3. Taken(Finishing) = <<>> /\ Received = <<>>
      BY <2>2, <3>2, SelectedEmpty DEF Taken, Received
    <3> QED BY <2>2, <3>1, <3>3 DEF ReceivedInv, Owed
  <2> QED BY <2>1, <2>3, <2>4 DEF ChannelInv
<1>3. ChannelInv /\ TypeOK' /\ [Next]_vars => ChannelInv'
  BY NextReadingInv, NextSentInv, NextReceivedInv DEF ChannelInv
<1>4. ChannelInv /\ [Next]_vars => [Channel!Next]_(Channel!channelVars)
  BY ChannelStep
<1> QED
  BY <1>1, <1>2, <1>3, <1>4, TypeCorrect, PTL DEF Spec, ImplementsChannel, Channel!Spec

=============================================================================
