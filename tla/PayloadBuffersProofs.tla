------------------------ MODULE PayloadBuffersProofs ------------------------
(***************************************************************************)
(* Nobody sees the bytes of another message, for any number of writers,    *)
(* wire messages and payloads of any size.                                 *)
(***************************************************************************)
EXTENDS PayloadBuffers, TLAPS

USE BufferAssumption

(* The arrays allocated for field f of one owner. *)
OfSlot(o, f) == [owner : {o}, field : {f}, gen : Gens]

(* s is a slice of such an array, or of none. *)
Owned(s, o, f) ==
  /\ s \in Slices
  /\ s.len <= s.cap
  /\ s.arr \in OfSlot(o, f) \/ (s.arr = Nil /\ s.cap = 0)

OwnedMsg(m, o) == Owned(m.args, o, "args") /\ Owned(m.result, o, "result")

(* No two fields of whatever messages share an array. *)
SliceInv ==
  /\ \A id \in WireIds : OwnedMsg(msg[id], id)
  /\ OwnedMsg(wire, "codec")
  /\ \A s \in Servers : served[s] # Nil => OwnedMsg(served[s], s)

-----------------------------------------------------------------------------
(* A slot has an array to spare, if the only one of its arrays that        *)
(* somebody refers to is the one it has.                                   *)
LEMMA NewIsFree ==
  ASSUME NEW o, NEW f, NEW old,
         \A a \in Live : a \in OfSlot(o, f) => a = old
  PROVE  New(o, f) \in OfSlot(o, f) \ Live
<1>1. PICK g \in Gens, h \in Gens : g # h
  OBVIOUS
<1> DEFINE a == [owner |-> o, field |-> f, gen |-> g]
           b == [owner |-> o, field |-> f, gen |-> h]
<1>2. a \in OfSlot(o, f) /\ b \in OfSlot(o, f) /\ a # b
  <2>1. a.gen = g /\ b.gen = h
    OBVIOUS
  <2> QED BY <1>1, <2>1 DEF OfSlot
<1>3. a \notin Live \/ b \notin Live
  BY <1>2
<1>4. \E x \in OfSlot(o, f) : x \notin Live
  BY <1>2, <1>3
<1> QED BY <1>4 DEF New, OfSlot

(* The only array of a slot that anybody refers to is the one it has. *)
LEMMA LiveOfSlot ==
  ASSUME SliceInv, NEW a \in Live
  PROVE  /\ \A id \in WireIds : /\ a \in OfSlot(id, "args") => a = msg[id].args.arr
                                /\ a \in OfSlot(id, "result") => a = msg[id].result.arr
         /\ a \in OfSlot("codec", "args") => a = wire.args.arr
         /\ a \in OfSlot("codec", "result") => a = wire.result.arr
         /\ \A s \in Servers : served[s] = Nil =>
              a \notin OfSlot(s, "args") \cup OfSlot(s, "result")
<1>1. PICK m \in {msg[id] : id \in WireIds} \cup {wire}
                  \cup ({served[s] : s \in Servers} \ {Nil}) :
        a \in {m.args.arr, m.result.arr}
  BY DEF Live
<1>2. ASSUME NEW o, OwnedMsg(m, o)
      PROVE  \/ a = m.args.arr /\ a \in OfSlot(o, "args")
             \/ a = m.result.arr /\ a \in OfSlot(o, "result")
             \/ a = Nil
  BY <1>1, <1>2 DEF OwnedMsg, Owned
<1>3. \A o, p, f, g : a \in OfSlot(o, f) /\ a \in OfSlot(p, g) => o = p /\ f = g
  BY DEF OfSlot
<1>4. ASSUME NEW o \in WireIds \cup Servers \cup {"codec"}, NEW f \in Fields
      PROVE  Nil \notin OfSlot(o, f)
  BY DEF OfSlot, Arrays
<1>5. "args" \in Fields /\ "result" \in Fields
  BY DEF Fields
<1>6. CASE m = wire
  BY <1>2, <1>3, <1>4, <1>5, <1>6 DEF SliceInv
<1>7. ASSUME NEW id \in WireIds, m = msg[id]
      PROVE  \/ a = m.args.arr /\ a \in OfSlot(id, "args")
             \/ a = m.result.arr /\ a \in OfSlot(id, "result")
             \/ a = Nil
  BY <1>2, <1>7 DEF SliceInv
<1>8. CASE m \in {msg[id] : id \in WireIds}
  <2>1. PICK id \in WireIds : m = msg[id]
    BY <1>8
  <2> QED BY <1>3, <1>4, <1>5, <1>7, <2>1
<1>9. CASE m \in {served[s] : s \in Servers} \ {Nil}
  <2>1. PICK s \in Servers : m = served[s] /\ served[s] # Nil
    BY <1>9
  <2>2. \/ a = m.args.arr /\ a \in OfSlot(s, "args")
        \/ a = m.result.arr /\ a \in OfSlot(s, "result")
        \/ a = Nil
    BY <1>2, <2>1 DEF SliceInv
  <2> QED BY <1>3, <1>4, <1>5, <2>1, <2>2
<1> QED BY <1>1, <1>6, <1>8, <1>9

(* Whatever is appended to a buffer stays with its owner. *)
LEMMA GrownOwned ==
  ASSUME NEW o \in WireIds \cup Servers \cup {"codec"}, NEW f \in Fields, NEW s,
         Owned(s, o, f), NEW n \in Nat \ {0}, New(o, f) \in OfSlot(o, f)
  PROVE  /\ Owned(Grown(s, n, o, f), o, f)
         /\ Grown(s, n, o, f).len = n
         /\ Grown(s, n, o, f).arr \in OfSlot(o, f)
<1>1. OfSlot(o, f) \subseteq Arrays
  BY DEF OfSlot, Arrays
<1>2. CASE n <= s.cap
  BY <1>1, <1>2 DEF Grown, Owned, Slices
<1>3. CASE ~(n <= s.cap)
  BY <1>1, <1>3 DEF Grown, Owned, Slices
<1> QED BY <1>2, <1>3

(* A buffer that is cut to nothing stays with its owner. *)
LEMMA TruncatedOwned ==
  ASSUME NEW o, NEW f, NEW s, Owned(s, o, f)
  PROVE  /\ Owned(Truncated(s), o, f) /\ Truncated(s).len = 0
         /\ Owned(Keep(s), o, f) /\ Keep(s).len = 0 /\ Keep(s).cap <= MaxKept
<1>1. Owned(Truncated(s), o, f) /\ Truncated(s).len = 0 /\ Truncated(s).cap = s.cap
  BY DEF Owned, Slices, Truncated
<1>2. Owned(NoSlice, o, f) /\ NoSlice.len = 0 /\ NoSlice.cap <= MaxKept
  BY DEF Owned, Slices, NoSlice
<1> QED BY <1>1, <1>2 DEF Keep, Owned, Slices

-----------------------------------------------------------------------------
(* How far each writer is tells what is in its wire message. *)
WriterAt(w) ==
  /\ call[w] # "idle" => given[w] \in Inputs
  /\ call[w] \in {"result", "encode"} => Content(msg[holds[w]].args) = given[w].args
  /\ call[w] = "encode" =>
       /\ Content(msg[holds[w]].result) = given[w].result
       /\ msg[holds[w]].error = given[w].error
  /\ sent[w] # Nil => call[w] = "done" /\ sent[w] = given[w]

WriterInv == \A w \in Writers : WriterAt(w)

(* And how far the reader is, what is in Codec.wire. *)
ReaderInv ==
  /\ read \in {"result", "error", "decoded"} =>
       /\ incoming \in Inputs /\ {incoming.args, incoming.result} \cap Plain = {}
       /\ Content(wire.args) = incoming.args
  /\ read \in {"error", "decoded"} => Content(wire.result) = incoming.result
  /\ read = "decoded" => wire.error = incoming.error
  /\ HandedOverIntact

IInv == TypeOK /\ SliceInv /\ WriterInv /\ ReaderInv /\ KeptBounded

(* Only arrays of these slots are written. *)
WritesOnly(slots) ==
  /\ mem' \in [Arrays -> Payloads \cup {Junk}]
  /\ \A a \in Arrays \ slots : mem'[a] = mem[a]

(* What a slice that stays where it is holds after the step. *)
Now(s) == IF s.len = 0 THEN Nil ELSE mem'[s.arr]

(* What a slice of another slot holds stays. *)
LEMMA OthersKeepContent ==
  ASSUME NEW slots, WritesOnly(slots), NEW o \in WireIds \cup Servers \cup {"codec"},
         NEW f \in Fields, OfSlot(o, f) \cap slots = {}, NEW s, Owned(s, o, f)
  PROVE  Now(s) = Content(s)
<1>1. OfSlot(o, f) \subseteq Arrays
  BY DEF OfSlot, Arrays
<1>2. s.len # 0 => s.arr \in OfSlot(o, f)
  BY DEF Owned, Slices
<1> QED BY <1>1, <1>2 DEF Content, Now, WritesOnly

(* Slots are apart. *)
LEMMA SlotsApart ==
  ASSUME NEW o, NEW p, NEW f, NEW g, o # p \/ f # g
  PROVE  OfSlot(o, f) \cap OfSlot(p, g) = {}
BY DEF OfSlot

(* The field of wire message id holds payload v now, and its error is err. *)
Marshaled(id, f, v, err) ==
  \E buf :
    /\ Owned(buf, id, f)
    /\ msg' = [msg EXCEPT ![id] = [[msg[id] EXCEPT ![f] = buf]
                 EXCEPT !.error = IF v \in Plain THEN Nil ELSE err]]
    /\ v \notin Plain => Now(buf) = v

(* ToWire marshals a payload into the buffer of its field, and touches     *)
(* nothing else but the error.                                             *)
LEMMA MarshalEffect ==
  ASSUME IInv, NEW w \in Writers, call[w] \in {"args", "result"},
         NEW f \in Fields, NEW err \in Errors \cup {Nil}, NEW next, Marshal(w, f, err, next)
  PROVE  LET id == holds[w]
             v  == given[w][f]
         IN  /\ id \in WireIds
             /\ v \in Payloads \cup {Nil}
             /\ WritesOnly(OfSlot(id, f))
             /\ Marshaled(id, f, v, err)
<1> DEFINE id == holds[w]
           v  == given[w][f]
           buf == IF v \in Payloads \ Plain THEN Grown(msg[id][f], SizeOf[v], id, f)
                  ELSE Truncated(msg[id][f])
<1>1. id \in WireIds /\ given[w] \in Inputs
  BY DEF IInv, TypeOK, WriterInv, WriterAt
<1>2. v \in Payloads \cup {Nil}
  BY <1>1 DEF Fields
<1>3. Owned(msg[id][f], id, f)
  BY <1>1 DEF IInv, SliceInv, OwnedMsg, Fields
<1>4. \A a \in Live : a \in OfSlot(id, f) => a = msg[id][f].arr
  BY <1>1, LiveOfSlot DEF IInv, Fields
<1>5. New(id, f) \in OfSlot(id, f)
  BY <1>4, NewIsFree
<1>6. CASE v \in Payloads \ Plain
  <2>1. Owned(buf, id, f) /\ buf.len = SizeOf[v] /\ buf.arr \in OfSlot(id, f)
        /\ SizeOf[v] \in Nat \ {0}
    BY <1>1, <1>3, <1>5, <1>6, GrownOwned
  <2>2. mem' = [mem EXCEPT ![buf.arr] = v]
    BY <1>6, <2>1 DEF Marshal
  <2>3. OfSlot(id, f) \subseteq Arrays /\ mem \in [Arrays -> Payloads \cup {Junk}]
    BY <1>1 DEF OfSlot, Arrays, IInv, TypeOK
  <2>4. WritesOnly(OfSlot(id, f)) /\ mem'[buf.arr] = v
    BY <1>6, <2>1, <2>2, <2>3 DEF WritesOnly
  <2>5. msg' = [msg EXCEPT ![id] = [[msg[id] EXCEPT ![f] = buf]
                  EXCEPT !.error = IF v \in Plain THEN Nil ELSE err]]
    BY DEF Marshal
  <2> HIDE DEF buf
  <2> QED BY <1>1, <1>2, <2>1, <2>4, <2>5 DEF Now, Marshaled
<1>7. CASE v \notin Payloads \ Plain
  <2>1. Owned(buf, id, f) /\ buf.len = 0
    BY <1>3, <1>7, TruncatedOwned
  <2>2. mem' = mem
    BY <1>7, <2>1 DEF Marshal
  <2>3. WritesOnly(OfSlot(id, f))
    BY <2>2 DEF WritesOnly, IInv, TypeOK
  <2>5. msg' = [msg EXCEPT ![id] = [[msg[id] EXCEPT ![f] = buf]
                  EXCEPT !.error = IF v \in Plain THEN Nil ELSE err]]
    BY DEF Marshal
  <2> HIDE DEF buf
  <2>6. v \notin Plain => v = Nil
    BY <1>2, <1>7
  <2> QED BY <1>1, <1>2, <2>1, <2>3, <2>5, <2>6 DEF Now, Marshaled
<1> QED BY <1>6, <1>7

-----------------------------------------------------------------------------
(* A writer whose wire message nobody touches is where it was. *)
LEMMA WriterKept ==
  ASSUME IInv, NEW u \in Writers, NEW slots, WritesOnly(slots),
         call'[u] = call[u], given'[u] = given[u], holds'[u] = holds[u], sent'[u] = sent[u],
         call[u] # "idle" =>
           /\ msg'[holds[u]] = msg[holds[u]]
           /\ \A f \in Fields : OfSlot(holds[u], f) \cap slots = {}
  PROVE  WriterAt(u)'
<1>1. WriterAt(u)
  BY DEF IInv, WriterInv
<1>2. CASE call[u] = "idle"
  BY <1>1, <1>2 DEF WriterAt
<1>3. CASE call[u] # "idle"
  <2>1. holds[u] \in WireIds /\ "args" \in Fields /\ "result" \in Fields
    BY <1>3 DEF IInv, TypeOK, Fields
  <2>2. /\ Now(msg[holds[u]].args) = Content(msg[holds[u]].args)
        /\ Now(msg[holds[u]].result) = Content(msg[holds[u]].result)
    BY <1>3, <2>1, OthersKeepContent DEF IInv, SliceInv, OwnedMsg
  <2>3. /\ Content(msg[holds[u]].args)' = Content(msg[holds[u]].args)
        /\ Content(msg[holds[u]].result)' = Content(msg[holds[u]].result)
    BY <1>3, <2>2 DEF Content, Now
  <2> QED BY <1>1, <1>3, <2>3 DEF WriterAt
<1> QED BY <1>2, <1>3

(* What a server has been handed is as it was where nobody touches its     *)
(* copies.                                                                 *)
LEMMA CopyKept ==
  ASSUME IInv, NEW slots, WritesOnly(slots), NEW s \in Servers,
         served[s] # Nil, served'[s] = served[s],
         \A f \in Fields : OfSlot(s, f) \cap slots = {}
  PROVE  [args |-> Content(served[s].args), result |-> Content(served[s].result),
          error |-> served[s].error]' = served[s].want
<1>1. "args" \in Fields /\ "result" \in Fields
  BY DEF Fields
<1>2. Owned(served[s].args, s, "args") /\ Owned(served[s].result, s, "result")
  BY DEF IInv, SliceInv, OwnedMsg
<1>3. /\ Now(served[s].args) = Content(served[s].args)
      /\ Now(served[s].result) = Content(served[s].result)
  BY <1>1, <1>2, OthersKeepContent
<1>4. /\ Content(served[s].args)' = Content(served[s].args)
      /\ Content(served[s].result)' = Content(served[s].result)
  BY <1>3 DEF Content, Now
<1> QED BY <1>4 DEF IInv, ReaderInv, HandedOverIntact

LEMMA ServedKept ==
  ASSUME IInv, NEW slots, WritesOnly(slots), served' = served,
         \A s \in Servers, f \in Fields : OfSlot(s, f) \cap slots = {}
  PROVE  HandedOverIntact'
BY CopyKept DEF HandedOverIntact

(* A reader whose buffers and copies nobody touches is where it was. *)
LEMMA ReaderKept ==
  ASSUME IInv, NEW slots, WritesOnly(slots), UNCHANGED readVars,
         \A o \in Servers \cup {"codec"}, f \in Fields : OfSlot(o, f) \cap slots = {}
  PROVE  ReaderInv'
<1>1. "args" \in Fields /\ "result" \in Fields
  BY DEF Fields
<1>2. /\ Now(wire.args) = Content(wire.args)
      /\ Now(wire.result) = Content(wire.result)
  BY <1>1, OthersKeepContent DEF IInv, SliceInv, OwnedMsg
<1>3. HandedOverIntact'
  BY ServedKept DEF readVars
<1>4. /\ Content(wire.args)' = Content(wire.args)
      /\ Content(wire.result)' = Content(wire.result)
  BY <1>2 DEF Content, Now, readVars
<1> QED BY <1>3, <1>4 DEF ReaderInv, IInv, readVars

-----------------------------------------------------------------------------
(* A step that changes neither a wire message nor an array keeps what they *)
(* hold, for whoever is where he was.                                      *)
LEMMA NothingWritten ==
  ASSUME IInv, mem' = mem, UNCHANGED readVars
  PROVE  WritesOnly({}) /\ ReaderInv'
<1>1. WritesOnly({})
  BY DEF WritesOnly, IInv, TypeOK
<1> QED BY <1>1, ReaderKept

(* The wire message of a writer is its own. *)
LEMMA OwnMessage ==
  ASSUME IInv, NEW w \in Writers, call[w] # "idle"
  PROVE  /\ holds[w] \in WireIds \ pool
         /\ \A u \in Writers \ {w} : holds[u] # holds[w]
BY DEF IInv, TypeOK

(* ToWire writes a payload into an array of the writer's own message, new  *)
(* or the one it had: nobody else's payload changes.                       *)
LEMMA MarshalIInv ==
  ASSUME IInv, NEW w \in Writers, ToWireArgs(w) \/ ToWireResult(w)
  PROVE  IInv'
<1>1. PICK f \in Fields, err \in Errors \cup {Nil}, next \in {"result", "encode"} :
        /\ Marshal(w, f, err, next)
        /\ call[w] = f
        /\ f = "args" => next = "result"
        /\ f = "result" => next = "encode" /\ err = given[w].error
  <2>1. CASE ToWireArgs(w)
    BY <2>1 DEF ToWireArgs, Fields
  <2>2. CASE ToWireResult(w)
    <3>1. call[w] = "result" /\ given[w] \in Inputs
      BY <2>2 DEF ToWireResult, IInv, WriterInv, WriterAt
    <3>2. given[w].error \in Errors \cup {Nil}
      BY <3>1
    <3> QED BY <2>2, <3>1, <3>2 DEF ToWireResult, Fields
  <2> QED BY <2>1, <2>2
<1>v. PICK id, v : id = holds[w] /\ v = given[w][f]
  OBVIOUS
<1>f. f = "args" \/ f = "result"
  BY DEF Fields
<1>c. call[w] \in {"args", "result"}
  BY <1>1, <1>f
<1>2. /\ id \in WireIds /\ v \in Payloads \cup {Nil} /\ WritesOnly(OfSlot(id, f))
      /\ Marshaled(id, f, v, err)
  BY <1>1, <1>c, <1>v, MarshalEffect
<1>3. PICK buf :
        /\ Owned(buf, id, f)
        /\ msg' = [msg EXCEPT ![id] = [[msg[id] EXCEPT ![f] = buf]
                     EXCEPT !.error = IF v \in Plain THEN Nil ELSE err]]
        /\ v \notin Plain => Now(buf) = v
  BY <1>2 DEF Marshaled
<1>4. /\ UNCHANGED <<pool, given, holds, sent, readVars>>
      /\ call' = [call EXCEPT ![w] = IF v \in Plain THEN "done" ELSE next]
  BY <1>1, <1>v DEF Marshal
<1>t. /\ call \in [Writers -> {"idle", "args", "result", "encode", "done"}]
      /\ msg \in [WireIds -> Messages]
      /\ given[w] \in Inputs
  BY <1>c DEF IInv, TypeOK, WriterInv, WriterAt
<1>own. id \notin pool /\ \A u \in Writers \ {w} : holds[u] # id
  BY <1>c, <1>v, OwnMessage
<1>m. /\ msg'[id] \in Messages
      /\ msg'[id].error = IF v \in Plain THEN Nil ELSE err
      /\ f = "args" => msg'[id].args = buf /\ msg'[id].result = msg[id].result
      /\ f = "result" => msg'[id].result = buf /\ msg'[id].args = msg[id].args
      /\ \A i \in WireIds \ {id} : msg'[i] = msg[i]
      /\ msg' \in [WireIds -> Messages]
  <2>1. msg[id] \in Messages /\ buf \in Slices
    BY <1>2, <1>3, <1>t DEF Owned
  <2>2. CASE f = "args"
    BY <1>2, <1>3, <1>t, <2>1, <2>2 DEF Messages
  <2>3. CASE f = "result"
    BY <1>2, <1>3, <1>t, <2>1, <2>3 DEF Messages
  <2> QED BY <1>f, <2>2, <2>3
<1>5. TypeOK'
  <2>1. mem' \in [Arrays -> Payloads \cup {Junk}]
    BY <1>2 DEF WritesOnly
  <2>2. call' \in [Writers -> {"idle", "args", "result", "encode", "done"}]
        /\ \A u \in Writers : call'[u] = "idle" <=> call[u] = "idle"
    BY <1>c, <1>4, <1>t
  <2> QED BY <1>4, <1>m, <2>1, <2>2 DEF IInv, TypeOK, readVars
<1>6. SliceInv'
  <2>1. OwnedMsg(msg'[id], id)
    BY <1>2, <1>3, <1>f, <1>m DEF IInv, SliceInv, OwnedMsg
  <2>2. \A i \in WireIds : OwnedMsg(msg'[i], i)
    BY <1>m, <2>1 DEF IInv, SliceInv
  <2> QED BY <1>4, <2>2 DEF IInv, SliceInv, OwnedMsg, Owned, readVars
<1>7. WriterInv'
  <2>1. ASSUME NEW u \in Writers \ {w} PROVE WriterAt(u)'
    <3>1. call'[u] = call[u] /\ given'[u] = given[u] /\ holds'[u] = holds[u] /\ sent'[u] = sent[u]
      BY <1>4, <1>t
    <3>2. call[u] # "idle" => holds[u] \in WireIds \ {id}
      BY <1>own, OwnMessage
    <3>3. call[u] # "idle" => \A g \in Fields : OfSlot(holds[u], g) \cap OfSlot(id, f) = {}
      BY <3>2, SlotsApart
    <3> QED BY <1>2, <1>m, <3>1, <3>2, <3>3, WriterKept
  <2>2. WriterAt(w)'
    <3>1. call'[w] = (IF v \in Plain THEN "done" ELSE next) /\ sent[w] = Nil
      BY <1>4, <1>t, <1>c DEF IInv, WriterInv, WriterAt
    <3>2. CASE v \in Plain
      BY <1>4, <1>t, <3>1, <3>2 DEF WriterAt
    <3>3. CASE v \notin Plain /\ f = "args"
      <4>1. Content(msg[id].args)' = given[w].args
        BY <1>1, <1>3, <1>m, <1>v, <3>3 DEF Content, Now
      <4> QED BY <1>1, <1>4, <1>t, <1>v, <3>1, <3>3, <4>1 DEF WriterAt
    <3>4. CASE v \notin Plain /\ f = "result"
      <4>1. Content(msg[id].result)' = given[w].result
        BY <1>1, <1>3, <1>m, <1>v, <3>4 DEF Content, Now
      <4>2. OfSlot(id, "args") \cap OfSlot(id, f) = {}
        BY <3>4, SlotsApart
      <4>3. Now(msg[id].args) = Content(msg[id].args)
        BY <1>2, <4>2, OthersKeepContent DEF IInv, SliceInv, OwnedMsg, Fields
      <4>4. Content(msg[id].args)' = Content(msg[id].args)
        BY <1>m, <3>4, <4>3 DEF Content, Now
      <4>5. Content(msg[id].args) = given[w].args
        BY <1>1, <1>v, <3>4 DEF IInv, WriterInv, WriterAt
      <4>6. msg'[id].error = given[w].error
        BY <1>1, <1>m, <3>4
      <4> QED BY <1>1, <1>4, <1>t, <3>1, <3>4, <4>1, <4>4, <4>5, <4>6, <1>v DEF WriterAt
    <3> QED BY <1>f, <3>2, <3>3, <3>4
  <2> QED BY <2>1, <2>2 DEF WriterInv
<1>8. ReaderInv'
  <2>1. \A o \in Servers \cup {"codec"}, g \in Fields : OfSlot(o, g) \cap OfSlot(id, f) = {}
    BY <1>2, SlotsApart
  <2> QED BY <1>2, <1>4, <2>1, ReaderKept
<1>9. KeptBounded'
  <2>1. \A i \in pool : msg'[i] = msg[i]
    BY <1>m, <1>own DEF IInv, TypeOK
  <2> QED BY <1>4, <2>1 DEF IInv, KeptBounded, readVars
<1> QED BY <1>5, <1>6, <1>7, <1>8, <1>9 DEF IInv

(* Where no array is written and the reader does nothing, a writer whose   *)
(* wire message stays as it is is where it was.                            *)
LEMMA StillWriter ==
  ASSUME IInv, mem' = mem, NEW u \in Writers,
         call'[u] = call[u], given'[u] = given[u], holds'[u] = holds[u], sent'[u] = sent[u],
         call[u] # "idle" => msg'[holds[u]] = msg[holds[u]]
  PROVE  WriterAt(u)'
<1>1. WritesOnly({})
  BY DEF WritesOnly, IInv, TypeOK
<1> QED BY <1>1, WriterKept

(* A message comes from the pool, or is new: no other writer has it. *)
LEMMA GetMessageIInv ==
  ASSUME IInv, NEW w \in Writers, GetMessage(w)
  PROVE  IInv'
<1>1. PICK m \in Inputs, id \in WireIds \ {holds[v] : v \in Writers} :
        /\ given' = [given EXCEPT ![w] = m]
        /\ holds' = [holds EXCEPT ![w] = id]
        /\ pool' = pool \ {id}
  BY DEF GetMessage
<1>2. /\ call[w] = "idle" /\ call' = [call EXCEPT ![w] = "args"]
      /\ UNCHANGED <<mem, msg, sent, readVars>>
  BY DEF GetMessage
<1>3. TypeOK'
  BY <1>1, <1>2 DEF IInv, TypeOK, readVars
<1>4. SliceInv'
  BY <1>2 DEF IInv, SliceInv, OwnedMsg, Owned, readVars
<1>5. WriterInv'
  <2>1. ASSUME NEW u \in Writers \ {w} PROVE WriterAt(u)'
    <3>1. call'[u] = call[u] /\ given'[u] = given[u] /\ holds'[u] = holds[u] /\ sent'[u] = sent[u]
      BY <1>1, <1>2 DEF IInv, TypeOK
    <3> QED BY <1>2, <3>1, StillWriter
  <2>2. WriterAt(w)'
    BY <1>1, <1>2 DEF IInv, TypeOK, WriterInv, WriterAt
  <2> QED BY <2>1, <2>2 DEF WriterInv
<1>6. ReaderInv'
  BY <1>2, NothingWritten
<1>7. KeptBounded'
  BY <1>1, <1>2 DEF IInv, KeptBounded, readVars
<1> QED BY <1>3, <1>4, <1>5, <1>6, <1>7 DEF IInv

(* What is written out is what the writer was given. *)
LEMMA EncodeMsgIInv ==
  ASSUME IInv, NEW w \in Writers, EncodeMsg(w)
  PROVE  IInv'
<1>1. /\ call[w] = "encode" /\ call' = [call EXCEPT ![w] = "done"]
      /\ UNCHANGED <<mem, pool, msg, given, holds, readVars>>
      /\ sent' \in {sent, [sent EXCEPT ![w] = [args |-> Content(msg[holds[w]].args),
                                             result |-> Content(msg[holds[w]].result),
                                             error |-> msg[holds[w]].error]]}
  BY DEF EncodeMsg
<1>2. given[w] \in Inputs /\ sent[w] = Nil
      /\ given[w] = [args |-> Content(msg[holds[w]].args),
                     result |-> Content(msg[holds[w]].result),
                     error |-> msg[holds[w]].error]
  BY <1>1 DEF IInv, WriterInv, WriterAt
<1>3. /\ sent' \in {sent, [sent EXCEPT ![w] = given[w]]}
      /\ sent \in [Writers -> [args : Contents, result : Contents, error : Errors \cup {Nil}]
                             \cup {Nil}]
      /\ given[w] \in [args : Contents, result : Contents, error : Errors \cup {Nil}]
  BY <1>1, <1>2 DEF IInv, TypeOK, Contents
<1>4. TypeOK'
  BY <1>1, <1>3 DEF IInv, TypeOK, readVars
<1>5. SliceInv'
  BY <1>1 DEF IInv, SliceInv, OwnedMsg, Owned, readVars
<1>6. WriterInv'
  <2>1. ASSUME NEW u \in Writers \ {w} PROVE WriterAt(u)'
    <3>1. call'[u] = call[u] /\ given'[u] = given[u] /\ holds'[u] = holds[u] /\ sent'[u] = sent[u]
      BY <1>1, <1>3 DEF IInv, TypeOK
    <3> QED BY <1>1, <3>1, StillWriter
  <2>2. WriterAt(w)'
    BY <1>1, <1>2, <1>3 DEF IInv, TypeOK, WriterAt
  <2> QED BY <2>1, <2>2 DEF WriterInv
<1>7. ReaderInv'
  BY <1>1, NothingWritten
<1>8. KeptBounded'
  BY <1>1 DEF IInv, KeptBounded, readVars
<1> QED BY <1>4, <1>5, <1>6, <1>7, <1>8 DEF IInv

(* A message that is put back is empty, and has lost what is too large. *)
LEMMA PutMessageIInv ==
  ASSUME IInv, NEW w \in Writers, PutMessage(w)
  PROVE  IInv'
<1>v. PICK id : id = holds[w]
  OBVIOUS
<1>1. /\ call[w] = "done" /\ call' = [call EXCEPT ![w] = "idle"]
      /\ holds' = [holds EXCEPT ![w] = Nil] /\ given' = [given EXCEPT ![w] = Nil]
      /\ sent' = [sent EXCEPT ![w] = Nil] /\ pool' = pool \cup {id}
      /\ UNCHANGED <<mem, readVars>>
  BY <1>v DEF PutMessage
<1>2. msg' = [msg EXCEPT ![id] = [args |-> Keep(msg[id].args),
                                  result |-> Keep(msg[id].result), error |-> Nil]]
  BY <1>v DEF PutMessage
<1>own. id \in WireIds /\ id \notin pool /\ \A u \in Writers \ {w} : holds[u] # id
  BY <1>v, <1>1, OwnMessage
<1>3. /\ Owned(Keep(msg[id].args), id, "args") /\ Keep(msg[id].args).cap <= MaxKept
      /\ Owned(Keep(msg[id].result), id, "result") /\ Keep(msg[id].result).cap <= MaxKept
  BY <1>own, TruncatedOwned DEF IInv, SliceInv, OwnedMsg
<1>m. /\ msg'[id].args = Keep(msg[id].args) /\ msg'[id].result = Keep(msg[id].result)
      /\ \A i \in WireIds \ {id} : msg'[i] = msg[i]
      /\ msg' \in [WireIds -> Messages]
  <2>1. msg \in [WireIds -> Messages]
    BY DEF IInv, TypeOK
  <2>2. [args |-> Keep(msg[id].args), result |-> Keep(msg[id].result), error |-> Nil] \in Messages
    BY <1>3 DEF Owned, Messages
  <2> QED BY <1>2, <1>own, <2>1, <2>2
<1>4. TypeOK'
  BY <1>1, <1>m, <1>own DEF IInv, TypeOK, readVars
<1>5. SliceInv'
  <2>1. \A i \in WireIds : OwnedMsg(msg'[i], i)
    BY <1>3, <1>m DEF IInv, SliceInv, OwnedMsg
  <2> QED BY <1>1, <2>1 DEF IInv, SliceInv, OwnedMsg, Owned, readVars
<1>6. WriterInv'
  <2>1. ASSUME NEW u \in Writers \ {w} PROVE WriterAt(u)'
    <3>1. call'[u] = call[u] /\ given'[u] = given[u] /\ holds'[u] = holds[u] /\ sent'[u] = sent[u]
      BY <1>1 DEF IInv, TypeOK
    <3>2. call[u] # "idle" => holds[u] \in WireIds \ {id}
      BY <1>own, OwnMessage
    <3> QED BY <1>1, <1>m, <3>1, <3>2, StillWriter
  <2>2. WriterAt(w)'
    BY <1>1 DEF IInv, TypeOK, WriterInv, WriterAt
  <2> QED BY <2>1, <2>2 DEF WriterInv
<1>7. ReaderInv'
  BY <1>1, NothingWritten
<1>8. KeptBounded'
  <2>1. \A i \in pool : msg'[i] = msg[i]
    BY <1>m, <1>own DEF IInv, TypeOK
  <2>2. \A i \in pool', f \in Fields : msg'[i][f].cap <= MaxKept
    BY <1>1, <1>3, <1>m, <2>1 DEF IInv, KeptBounded, Fields
  <2> QED BY <1>1, <2>2 DEF IInv, KeptBounded, readVars
<1> QED BY <1>4, <1>5, <1>6, <1>7, <1>8 DEF IInv

(* The messages that are collected are nobody's. *)
LEMMA CollectIInv ==
  ASSUME IInv, Collect
  PROVE  IInv'
<1>1. /\ pool' = {} /\ msg' = [id \in WireIds |-> IF id \in pool THEN Empty ELSE msg[id]]
      /\ UNCHANGED <<mem, call, given, holds, sent, readVars>>
  BY DEF Collect
<1>2. /\ \A o, f : Owned(NoSlice, o, f)
      /\ Empty \in Messages
  BY DEF Owned, NoSlice, Slices, Empty, Messages
<1>3. TypeOK'
  BY <1>1, <1>2 DEF IInv, TypeOK, readVars
<1>4. SliceInv'
  <2>1. \A i \in WireIds : OwnedMsg(msg'[i], i)
    BY <1>1, <1>2 DEF IInv, SliceInv, OwnedMsg, Empty
  <2> QED BY <1>1, <2>1 DEF IInv, SliceInv, OwnedMsg, Owned, readVars
<1>5. WriterInv'
  <2>1. ASSUME NEW u \in Writers PROVE WriterAt(u)'
    <3>1. call[u] # "idle" => holds[u] \in WireIds \ pool
      BY OwnMessage
    <3> QED BY <1>1, <3>1, StillWriter
  <2> QED BY <2>1 DEF WriterInv
<1>6. ReaderInv'
  BY <1>1, NothingWritten
<1>7. KeptBounded'
  BY <1>1 DEF IInv, KeptBounded, readVars
<1> QED BY <1>3, <1>4, <1>5, <1>6, <1>7 DEF IInv

-----------------------------------------------------------------------------
(* Field f of Codec.wire holds v now, or decoding has failed. *)
Decoded(v, f, next) ==
  \E buf :
    /\ Owned(buf, "codec", f)
    /\ wire' = [wire EXCEPT ![f] = buf]
    /\ (Now(buf) = v /\ read' = next) \/ read' = "failed"

(* A payload is decoded into the buffer of its field. *)
LEMMA DecodeEffect ==
  ASSUME IInv, NEW v \in Payloads \cup {Nil}, NEW f \in Fields, NEW next, Decode(v, f, next)
  PROVE  WritesOnly(OfSlot("codec", f)) /\ Decoded(v, f, next)
<1>b. PICK buf :
        buf = IF v = Nil THEN Truncated(wire[f]) ELSE Grown(wire[f], SizeOf[v], "codec", f)
  OBVIOUS
<1>1. Owned(wire[f], "codec", f)
  BY DEF IInv, SliceInv, OwnedMsg, Fields
<1>2. \A a \in Live : a \in OfSlot("codec", f) => a = wire[f].arr
  BY LiveOfSlot DEF IInv, Fields
<1>3. New("codec", f) \in OfSlot("codec", f)
  BY <1>2, NewIsFree
<1>4. wire' = [wire EXCEPT ![f] = buf]
  BY <1>b DEF Decode
<1>5. CASE v = Nil
  <2>1. Owned(buf, "codec", f) /\ buf.len = 0
    BY <1>1, <1>5, <1>b, TruncatedOwned
  <2>2. mem' = mem /\ read' \in {next, "failed"}
    BY <1>5 DEF Decode
  <2>3. WritesOnly(OfSlot("codec", f))
    BY <2>2 DEF WritesOnly, IInv, TypeOK
  <2> QED BY <1>4, <1>5, <2>1, <2>2, <2>3 DEF Decoded, Now
<1>6. CASE v # Nil
  <2>1. v \in Payloads /\ SizeOf[v] \in Nat \ {0}
    BY <1>6
  <2>2. Owned(buf, "codec", f) /\ buf.len = SizeOf[v] /\ buf.arr \in OfSlot("codec", f)
    BY <1>1, <1>3, <1>6, <1>b, <2>1, GrownOwned
  <2>3. PICK u \in {v, Junk} :
          mem' = [mem EXCEPT ![buf.arr] = u] /\ ((u = v /\ read' = next) \/ read' = "failed")
    BY <1>6, <1>b DEF Decode
  <2>4. OfSlot("codec", f) \subseteq Arrays /\ mem \in [Arrays -> Payloads \cup {Junk}]
    BY DEF OfSlot, Arrays, IInv, TypeOK
  <2>5. WritesOnly(OfSlot("codec", f)) /\ mem'[buf.arr] = u
    <3>1. buf.arr \in OfSlot("codec", f) /\ buf.arr \in Arrays /\ u \in Payloads \cup {Junk}
      BY <2>1, <2>2, <2>3, <2>4
    <3> QED BY <2>3, <2>4, <3>1 DEF WritesOnly
  <2>6. (Now(buf) = v /\ read' = next) \/ read' = "failed"
    BY <2>1, <2>2, <2>3, <2>5 DEF Now
  <2> QED BY <1>4, <2>2, <2>5, <2>6 DEF Decoded
<1> QED BY <1>5, <1>6

(* Writers notice nothing of a step of the reader, which writes only its   *)
(* own buffers.                                                            *)
LEMMA WritersKept ==
  ASSUME IInv, UNCHANGED writeVars, NEW slots, WritesOnly(slots),
         \A id \in WireIds, f \in Fields : OfSlot(id, f) \cap slots = {}
  PROVE  WriterInv'
<1>1. ASSUME NEW u \in Writers PROVE WriterAt(u)'
  <2>1. call[u] # "idle" => holds[u] \in WireIds
    BY OwnMessage
  <2> QED BY <2>1, WriterKept DEF writeVars
<1> QED BY <1>1 DEF WriterInv

(* What is decoded goes into the codec's buffers; birpc has copies. *)
LEMMA DecodePayloadIInv ==
  ASSUME IInv, DecodeArgs \/ DecodeResult
  PROVE  IInv'
<1>1. PICK f \in Fields, next \in {"result", "error"} :
        /\ incoming' \in Inputs /\ {incoming'.args, incoming'.result} \cap Plain = {}
        /\ Decode(incoming'[f], f, next)
        /\ f = "args" => next = "result"
        /\ f = "result" => /\ next = "error" /\ incoming' = incoming
                           /\ Content(wire.args) = incoming.args
  <2>1. CASE DecodeArgs
    BY <2>1 DEF DecodeArgs, Fields
  <2>2. CASE DecodeResult
    BY <2>2 DEF DecodeResult, Fields, IInv, ReaderInv
  <2> QED BY <2>1, <2>2
<1>f. f = "args" \/ f = "result"
  BY DEF Fields
<1>v. PICK v \in Payloads \cup {Nil} : v = incoming'[f]
  BY <1>1, <1>f
<1>2. WritesOnly(OfSlot("codec", f)) /\ Decoded(v, f, next)
  BY <1>1, <1>v, DecodeEffect
<1>3. PICK buf : /\ Owned(buf, "codec", f)
                 /\ wire' = [wire EXCEPT ![f] = buf]
                 /\ (Now(buf) = v /\ read' = next) \/ read' = "failed"
  BY <1>2 DEF Decoded
<1>4. UNCHANGED <<writeVars, served>>
  BY <1>1 DEF Decode
<1>m. /\ wire' \in Messages
      /\ f = "args" => wire'.args = buf /\ wire'.result = wire.result
      /\ f = "result" => wire'.result = buf /\ wire'.args = wire.args
  <2>1. wire \in Messages /\ buf \in Slices
    BY <1>3 DEF IInv, TypeOK, Owned
  <2>2. CASE f = "args"
    BY <1>3, <2>1, <2>2 DEF Messages
  <2>3. CASE f = "result"
    BY <1>3, <2>1, <2>3 DEF Messages
  <2> QED BY <1>f, <2>2, <2>3
<1>5. TypeOK'
  <2>1. mem' \in [Arrays -> Payloads \cup {Junk}]
    BY <1>2 DEF WritesOnly
  <2>2. read' \in {"idle", "result", "error", "decoded", "failed"}
    BY <1>3
  <2> QED BY <1>4, <1>m, <2>1, <2>2 DEF IInv, TypeOK, writeVars
<1>6. SliceInv'
  <2>1. OwnedMsg(wire', "codec")
    BY <1>3, <1>f, <1>m DEF IInv, SliceInv, OwnedMsg
  <2> QED BY <1>4, <2>1 DEF IInv, SliceInv, OwnedMsg, Owned, writeVars
<1>7. WriterInv'
  <2>1. \A id \in WireIds, g \in Fields : OfSlot(id, g) \cap OfSlot("codec", f) = {}
    BY SlotsApart
  <2> QED BY <1>2, <1>4, <2>1, WritersKept
<1>8. ReaderInv'
  <2>1. HandedOverIntact'
    <3>1. \A s \in Servers, g \in Fields : OfSlot(s, g) \cap OfSlot("codec", f) = {}
      BY SlotsApart
    <3> QED BY <1>2, <1>4, <3>1, ServedKept
  <2>2. CASE read' = "failed"
    BY <2>1, <2>2 DEF ReaderInv
  <2>3. CASE f = "args" /\ read' = "result" /\ Now(buf) = v
    <3>1. Content(wire.args)' = incoming'.args
      BY <1>m, <1>v, <2>3 DEF Content, Now
    <3> QED BY <1>1, <2>1, <2>3, <3>1 DEF ReaderInv
  <2>4. CASE f = "result" /\ read' = "error" /\ Now(buf) = v
    <3>1. Content(wire.result)' = incoming'.result
      BY <1>m, <1>v, <2>4 DEF Content, Now
    <3>2. OfSlot("codec", "args") \cap OfSlot("codec", f) = {}
      BY <2>4, SlotsApart
    <3>3. Now(wire.args) = Content(wire.args)
      BY <1>2, <3>2, OthersKeepContent DEF IInv, SliceInv, OwnedMsg, Fields
    <3>4. Content(wire.args)' = incoming'.args
      BY <1>1, <1>m, <2>4, <3>3 DEF Content, Now
    <3> QED BY <1>1, <2>1, <2>4, <3>1, <3>4 DEF ReaderInv
  <2> QED BY <1>1, <1>3, <1>f, <2>2, <2>3, <2>4
<1>9. KeptBounded'
  <2>1. read' # "idle"
    BY <1>3
  <2> QED BY <1>4, <2>1 DEF IInv, KeptBounded, writeVars
<1> QED BY <1>5, <1>6, <1>7, <1>8, <1>9 DEF IInv

(* The error of a message, the last thing that is read of it. *)
LEMMA DecodeErrorIInv ==
  ASSUME IInv, DecodeError
  PROVE  IInv'
<1>1. /\ read = "error" /\ UNCHANGED <<mem, writeVars, incoming, served>>
      /\ incoming \in Inputs
      /\ \/ wire' = [wire EXCEPT !.error = incoming.error] /\ read' = "decoded"
         \/ wire' = wire /\ read' = "failed"
  BY DEF DecodeError, IInv, ReaderInv
<1>2. /\ wire' \in Messages /\ wire'.args = wire.args /\ wire'.result = wire.result
      /\ read' = "decoded" => wire'.error = incoming.error
  <2>1. wire \in Messages /\ incoming.error \in Errors \cup {Nil}
    BY <1>1 DEF IInv, TypeOK
  <2> QED BY <1>1, <2>1 DEF Messages
<1>3. TypeOK'
  BY <1>1, <1>2 DEF IInv, TypeOK, writeVars
<1>4. SliceInv'
  BY <1>1, <1>2 DEF IInv, SliceInv, OwnedMsg, Owned, writeVars
<1>5. WriterInv'
  <2>1. WritesOnly({})
    BY <1>1 DEF WritesOnly, IInv, TypeOK
  <2> QED BY <1>1, <2>1, WritersKept
<1>6. ReaderInv'
  <2>1. /\ Content(wire.args)' = Content(wire.args)
        /\ Content(wire.result)' = Content(wire.result)
    BY <1>1, <1>2 DEF Content
  <2>2. HandedOverIntact'
    BY <1>1 DEF IInv, ReaderInv, HandedOverIntact, Content
  <2> QED BY <1>1, <1>2, <2>1, <2>2 DEF IInv, ReaderInv
<1>7. KeptBounded'
  BY <1>1 DEF IInv, KeptBounded, writeVars
<1> QED BY <1>3, <1>4, <1>5, <1>6, <1>7 DEF IInv

(* The copy of a payload. *)
LEMMA HandOverCopies ==
  ASSUME IInv, NEW s \in Servers, served[s] = Nil, NEW f \in Fields
  PROVE  /\ Owned(HandOver(s, f), s, f)
         /\ IF wire[f].len = 0 THEN HandOver(s, f).arr = Nil
            ELSE HandOver(s, f).arr \in OfSlot(s, f) /\ wire[f].arr \in OfSlot("codec", f)
         /\ HandOver(s, f).len = wire[f].len
<1>1. Owned(wire[f], "codec", f)
  BY DEF IInv, SliceInv, OwnedMsg, Fields
<1>2. \A a \in Live : a \in OfSlot(s, f) => a = Nil
  BY LiveOfSlot DEF IInv, Fields
<1>3. New(s, f) \in OfSlot(s, f)
  BY <1>2, NewIsFree
<1>4. OfSlot(s, f) \subseteq Arrays
  BY DEF OfSlot, Arrays
<1>5. CASE wire[f].len = 0
  BY <1>1, <1>5 DEF HandOver, Owned, Slices, NoSlice
<1>6. CASE wire[f].len # 0
  <2>1. HandOver(s, f) = [arr |-> New(s, f), len |-> wire[f].len, cap |-> wire[f].len]
    BY <1>6 DEF HandOver
  <2> QED BY <1>1, <1>3, <1>4, <1>6, <2>1 DEF Owned, Slices
<1> QED BY <1>5, <1>6

(* The copies are in arrays that nobody refers to, and equal to what the  *)
(* codec has decoded.                                                      *)
LEMMA FromWireIInv ==
  ASSUME IInv, FromWire
  PROVE  IInv'
<1>s. PICK s \in Servers :
        /\ served[s] = Nil
        /\ served' = [served EXCEPT ![s] =
                        [want |-> incoming, error |-> wire.error,
                         args |-> HandOver(s, "args"), result |-> HandOver(s, "result")]]
        /\ mem' = [a \in Arrays |->
                     IF \E f \in Fields : a = HandOver(s, f).arr THEN Content(wire[a.field])
                     ELSE mem[a]]
  BY DEF FromWire
<1>h. PICK m : m = [want |-> incoming, error |-> wire.error,
                    args |-> HandOver(s, "args"), result |-> HandOver(s, "result")]
  OBVIOUS
<1>1. /\ read = "decoded" /\ read' = "idle" /\ incoming' = Nil
      /\ wire' = [wire EXCEPT !.args = Keep(wire.args), !.result = Keep(wire.result)]
      /\ UNCHANGED writeVars
  BY DEF FromWire
<1>f. Fields = {"args", "result"}
  BY DEF Fields
<1>m. /\ served'[s] = m /\ \A t \in Servers \ {s} : served'[t] = served[t]
      /\ served' = [served EXCEPT ![s] = m]
      /\ m.want = incoming /\ m.error = wire.error
      /\ m.args = HandOver(s, "args") /\ m.result = HandOver(s, "result")
  BY <1>s, <1>h DEF IInv, TypeOK
<1> DEFINE slots == OfSlot(s, "args") \cup OfSlot(s, "result")
<1>2. WritesOnly(slots) /\ \A f \in Fields : Now(HandOver(s, f)) = Content(wire[f])
  <2>1. ASSUME NEW f \in Fields, NEW a \in Arrays, a = HandOver(s, f).arr
        PROVE  /\ a \in OfSlot(s, f) /\ a.field = f
               /\ mem'[a] = Content(wire[f])
               /\ Content(wire[f]) \in Payloads \cup {Junk}
    <3>1. wire[f].len # 0 /\ a \in OfSlot(s, f) /\ wire[f].arr \in OfSlot("codec", f)
      BY <1>s, <2>1, HandOverCopies
    <3>2. a.field = f
      BY <3>1 DEF OfSlot
    <3>3. wire[f].arr \in Arrays /\ mem \in [Arrays -> Payloads \cup {Junk}]
      BY <3>1 DEF OfSlot, Arrays, IInv, TypeOK
    <3> QED BY <1>s, <2>1, <3>1, <3>2, <3>3 DEF Content
  <2>2. ASSUME NEW a \in Arrays, \A f \in Fields : a # HandOver(s, f).arr
        PROVE  mem'[a] = mem[a] /\ mem[a] \in Payloads \cup {Junk}
    BY <1>s, <2>2 DEF IInv, TypeOK
  <2>3. WritesOnly(slots)
    <3>1. \A a \in Arrays : mem'[a] \in Payloads \cup {Junk}
      BY <2>1, <2>2
    <3>2. \A a \in Arrays \ slots : mem'[a] = mem[a]
      BY <1>f, <2>1, <2>2
    <3>3. mem' = [a \in Arrays |-> mem'[a]]
      BY <1>s
    <3> QED BY <3>1, <3>2, <3>3 DEF WritesOnly
  <2>4. ASSUME NEW f \in Fields PROVE Now(HandOver(s, f)) = Content(wire[f])
    <3>1. OfSlot(s, f) \subseteq Arrays
      BY DEF OfSlot, Arrays
    <3>2. CASE wire[f].len = 0
      BY <1>s, <3>2, HandOverCopies DEF Now, Content
    <3>3. CASE wire[f].len # 0
      <4>1. HandOver(s, f).arr \in Arrays /\ HandOver(s, f).len # 0
        BY <1>s, <3>1, <3>3, HandOverCopies
      <4> QED BY <2>1, <4>1 DEF Now
    <3> QED BY <3>2, <3>3
  <2> QED BY <2>3, <2>4
<1>3. /\ Owned(HandOver(s, "args"), s, "args")
      /\ Owned(HandOver(s, "result"), s, "result")
      /\ Owned(Keep(wire.args), "codec", "args") /\ Keep(wire.args).cap <= MaxKept
      /\ Owned(Keep(wire.result), "codec", "result") /\ Keep(wire.result).cap <= MaxKept
  <2>1. Owned(wire.args, "codec", "args") /\ Owned(wire.result, "codec", "result")
    BY DEF IInv, SliceInv, OwnedMsg
  <2> QED BY <1>s, <1>f, <2>1, HandOverCopies, TruncatedOwned
<1>4. /\ wire' \in Messages
      /\ wire'.args = Keep(wire.args) /\ wire'.result = Keep(wire.result)
  <2>1. wire \in Messages /\ Keep(wire.args) \in Slices /\ Keep(wire.result) \in Slices
    BY <1>3 DEF IInv, TypeOK, Owned
  <2> QED BY <1>1, <2>1 DEF Messages
<1>5. TypeOK'
  <2>1. mem' \in [Arrays -> Payloads \cup {Junk}]
    BY <1>2 DEF WritesOnly
  <2>2. m \in [want : Inputs, error : Errors \cup {Nil}, args : Slices, result : Slices]
    <3>1. incoming \in Inputs /\ wire.error \in Errors \cup {Nil}
      BY <1>1 DEF IInv, ReaderInv, TypeOK, Messages
    <3> QED BY <1>3, <1>h, <3>1 DEF Owned
  <2>3. served' \in [Servers -> [want : Inputs, error : Errors \cup {Nil},
                                 args : Slices, result : Slices] \cup {Nil}]
    BY <1>m, <2>2 DEF IInv, TypeOK
  <2> QED BY <1>1, <1>4, <2>1, <2>3 DEF IInv, TypeOK, writeVars
<1>6. SliceInv'
  <2>1. OwnedMsg(wire', "codec") /\ OwnedMsg(m, s)
    BY <1>m, <1>3, <1>4 DEF OwnedMsg
  <2>2. \A id \in WireIds : OwnedMsg(msg'[id], id)
    BY <1>1 DEF IInv, SliceInv, writeVars
  <2>3. \A t \in Servers : served'[t] # Nil => OwnedMsg(served'[t], t)
    BY <1>m, <2>1 DEF IInv, SliceInv
  <2> QED BY <2>1, <2>2, <2>3 DEF SliceInv, OwnedMsg, Owned
<1>7. WriterInv'
  <2>1. \A id \in WireIds, g \in Fields : OfSlot(id, g) \cap slots = {}
    BY SlotsApart
  <2> QED BY <1>1, <1>2, <2>1, WritersKept
<1>8. ReaderInv'
  <2>1. /\ Content(wire.args) = incoming.args /\ Content(wire.result) = incoming.result
        /\ wire.error = incoming.error /\ incoming \in Inputs
    BY <1>1 DEF IInv, ReaderInv
  <2>2. incoming = [args |-> incoming.args, result |-> incoming.result, error |-> incoming.error]
    BY <2>1
  <2>3. Now(m.args) = incoming.args /\ Now(m.result) = incoming.result
    BY <1>2, <1>f, <1>m, <2>1
  <2>4. [args |-> Content(served[s].args), result |-> Content(served[s].result),
         error |-> served[s].error]' = served'[s].want
    BY <1>m, <2>1, <2>2, <2>3 DEF Content, Now
  <2>5. ASSUME NEW t \in Servers \ {s}, served[t] # Nil
        PROVE  [args |-> Content(served[t].args), result |-> Content(served[t].result),
                error |-> served[t].error]' = served'[t].want
    <3>1. \A f \in Fields : OfSlot(t, f) \cap slots = {}
      BY SlotsApart
    <3> QED BY <1>2, <1>m, <2>5, <3>1, CopyKept
  <2>6. HandedOverIntact'
    BY <1>m, <2>4, <2>5 DEF HandedOverIntact
  <2> QED BY <1>1, <2>6 DEF ReaderInv
<1>9. KeptBounded'
  BY <1>1, <1>3, <1>4, <1>f DEF IInv, KeptBounded, writeVars
<1> QED BY <1>5, <1>6, <1>7, <1>8, <1>9 DEF IInv

-----------------------------------------------------------------------------
(* IInv is inductive: one step per action. *)
LEMMA Inductive == Spec => []IInv
<1>1. Init => IInv
  <2> SUFFICES ASSUME Init PROVE IInv
    OBVIOUS
  <2>1. Empty \in Messages /\ (\A o : OwnedMsg(Empty, o)) /\ \A f \in Fields : Empty[f].cap = 0
    BY DEF Empty, Messages, Slices, NoSlice, OwnedMsg, Owned, Fields
  <2>2. TypeOK
    BY <2>1 DEF Init, TypeOK
  <2>3. SliceInv
    BY <2>1 DEF Init, SliceInv
  <2>4. WriterInv /\ ReaderInv
    BY DEF Init, WriterInv, WriterAt, ReaderInv, HandedOverIntact
  <2>5. KeptBounded
    BY <2>1 DEF Init, KeptBounded
  <2> QED BY <2>2, <2>3, <2>4, <2>5 DEF IInv
<1>2. IInv /\ [Next]_vars => IInv'
  <2> SUFFICES ASSUME IInv, [Next]_vars PROVE IInv'
    OBVIOUS
  <2>1. ASSUME NEW w \in Writers, WriteMessage(w) PROVE IInv'
    BY <2>1, GetMessageIInv, MarshalIInv, EncodeMsgIInv, PutMessageIInv DEF WriteMessage
  <2>2. CASE Collect
    BY <2>2, CollectIInv
  <2>3. CASE ReadMessage
    BY <2>3, DecodePayloadIInv, DecodeErrorIInv, FromWireIInv DEF ReadMessage
  <2>4. CASE \E s \in Servers : Unmarshal(s)
    <3>1. PICK s \in Servers :
            /\ served' = [served EXCEPT ![s] = Nil]
            /\ UNCHANGED <<mem, writeVars, wire, read, incoming>>
      BY <2>4 DEF Unmarshal
    <3>2. TypeOK' /\ SliceInv' /\ KeptBounded'
      BY <3>1 DEF IInv, TypeOK, SliceInv, OwnedMsg, Owned, KeptBounded, writeVars
    <3>3. WriterInv'
      <4>1. WritesOnly({})
        BY <3>1 DEF WritesOnly, IInv, TypeOK
      <4> QED BY <3>1, <4>1, WritersKept
    <3>4. ReaderInv'
      BY <3>1 DEF IInv, ReaderInv, HandedOverIntact, Content
    <3> QED BY <3>2, <3>3, <3>4 DEF IInv
  <2>5. CASE UNCHANGED vars
    <3>1. UNCHANGED <<mem, writeVars, readVars>>
      BY <2>5 DEF vars
    <3>2. TypeOK' /\ SliceInv' /\ KeptBounded'
      BY <3>1 DEF IInv, TypeOK, SliceInv, OwnedMsg, Owned, KeptBounded, writeVars, readVars
    <3>3. WritesOnly({})
      BY <3>1 DEF WritesOnly, IInv, TypeOK
    <3> QED BY <3>1, <3>2, <3>3, WritersKept, NothingWritten DEF IInv
  <2> QED BY <2>1, <2>2, <2>3, <2>4, <2>5 DEF Next
<1> QED BY <1>1, <1>2, PTL DEF Spec

(* For any number of writers and wire messages: nobody is given a wire     *)
(* message that another has.                                               *)
THEOREM TypeCorrect == Spec => []TypeOK
<1>1. IInv => TypeOK
  BY DEF IInv
<1> QED BY <1>1, Inductive, PTL

(* What WriteMessage encodes is the message it was called with, whatever   *)
(* came before in the buffers it uses and whoever else is writing.         *)
THEOREM WritesWhatWasGiven == Spec => []EncodedFaithful
<1>1. IInv => EncodedFaithful
  BY DEF IInv, WriterInv, WriterAt, EncodedFaithful
<1> QED BY <1>1, Inductive, PTL

(* What ReadMessage hands to birpc is what has arrived, and stays so while *)
(* others are read into the same buffers.                                  *)
THEOREM HandsOverWhatArrived == Spec => []HandedOverIntact
<1>1. IInv => HandedOverIntact
  BY DEF IInv, ReaderInv
<1> QED BY <1>1, Inductive, PTL

(* No large buffer is kept. *)
THEOREM LargeBuffersGo == Spec => []KeptBounded
<1>1. IInv => KeptBounded
  BY DEF IInv
<1> QED BY <1>1, Inductive, PTL

=============================================================================
