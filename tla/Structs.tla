------------------------------ MODULE Structs -------------------------------
(***************************************************************************)
(* The structs the chat and the tests send as arguments and results, the   *)
(* code msgp generates for them (main_gen.go, testmsg_gen.go), and         *)
(* mpc.Unmarshal, which the codecs hand a received payload to.             *)
(*                                                                         *)
(* A struct travels as a map from field names to values.  The fields are   *)
(* written in order, and read back in whatever order they come, as many of *)
(* them as come: the two ends need not agree on the struct.  DecodeMsg does*)
(* to a msgp.Reader what UnmarshalMsg does to a slice.                     *)
(*                                                                         *)
(* msgp generates the same four methods for every struct and only the      *)
(* fields differ: what is generated for one is its list of fields below    *)
(* with MarshalMsg and UnmarshalMsg run through that list.                 *)
(***************************************************************************)
EXTENDS MessagePack, FiniteSetsExt

CONSTANTS
  MaxUint32, MaxInt64,  (* the largest numbers the integer types hold       *)
  Texts,                (* what a string may say                            *)
  EmptyText,            (* a string with nothing in it                      *)
  Targets,              (* what ret may point to, and what that may hold    *)
  Payloads,             (* the maps that may arrive, as pairs of key, value *)
  Others                (* the objects that may arrive that are no map      *)

-----------------------------------------------------------------------------
(* The structs *)

Struct(name, fields) == [name |-> name, fields |-> fields]
Field(name, kind)    == [name |-> name, kind |-> kind]

Incoming == Struct("Incoming", <<Field("from", "string"), Field("message", "string")>>)
Outgoing == Struct("Outgoing", <<Field("time", "uint32"), Field("from", "string"),
                                 Field("message", "string")>>)
nothing  == Struct("nothing", <<>>)
Args     == Struct("Args", <<Field("a", "int64"), Field("b", "int64"), Field("s", "string")>>)
Result   == Struct("Result", <<Field("c", "int64"), Field("s", "string")>>)

(* A struct without any of the generated methods. *)
Plain    == Struct("Plain", <<>>)

Types == {Incoming, Outgoing, nothing, Args, Result, Plain}

Names(T)   == {T.fields[i].name : i \in 1..Len(T.fields)}
Kind(T, n) == (CHOOSE f \in Range(T.fields) : f.name = n).kind

(* What a field can hold. *)
Values(kind) ==
  CASE kind = "string" -> Texts
    [] kind = "uint32" -> 0..MaxUint32
    [] kind = "int64"  -> (-MaxInt64 - 1)..MaxInt64

Zero(kind) == IF kind = "string" THEN EmptyText ELSE 0

(* z is a struct of type T. *)
IsStruct(T, z) ==
  /\ z = [n \in Names(T) |-> z[n]]
  /\ \A n \in Names(T) : z[n] \in Values(Kind(T, n))

TokenOf(kind, v) == IF kind = "string" THEN Str(v) ELSE Number(v)

MarshalMsg(T, z) ==
  [i \in 1..Len(T.fields) |->
     LET f == T.fields[i]
     IN  [key |-> Str(f.name), value |-> <<TokenOf(f.kind, z[f.name])>>]]

(* The header of the map and the first k pairs after it. *)
Written(ps) ==
  LET upTo[k \in 0..Len(ps)] ==
        IF k = 0 THEN <<Map(Len(ps))>> ELSE upTo[k-1] \o <<ps[k].key>> \o ps[k].value
  IN  upTo

Encoded(ps) == Written(ps)[Len(ps)]

(* No integer on the wire is smaller than the smallest int64. *)
PayloadTokens == TokensOf({n \in Int : n >= -MaxInt64 - 1}, Texts)

(* A key is one token, a value is one object. *)
IsMap(ps) ==
  /\ ps \in Seq([key : PayloadTokens, value : Seq(PayloadTokens)])
  /\ \A i \in 1..Len(ps) : OneObject(ps[i].value)

ASSUME StructsAssumption ==
  /\ MaxUint32 \in Nat /\ MaxInt64 \in Nat /\ MaxUint32 < MaxInt64
  /\ EmptyText \in Texts
  /\ \A t \in Targets : t.type \in Types /\ IsStruct(t.type, t.held)
  /\ \A ps \in Payloads : IsMap(ps)
  /\ \A p \in Others : p \in Seq(PayloadTokens) /\ p # <<>> /\ p[1].kind # "map"

-----------------------------------------------------------------------------
VARIABLES
  type,           (* what ret points to                                    *)
  before,         (* what it held before the call                          *)
  given,          (* the payload is a msgp.Raw, nil or something else      *)
  pairs,          (* the map that was sent                                 *)
  payload,        (* the tokens of it that have arrived                    *)
  step,           (* what is read next                                     *)
  taken,          (* how many tokens have been read                        *)
  left,           (* fields the map still has                              *)
  key,            (* the field whose value comes next                      *)
  missing,        (* objects it takes to complete the one being skipped    *)
  ret             (* what ret points to holds                              *)

input      == <<type, before, given, pairs, payload>>
structVars == <<input, step, taken, left, key, missing, ret>>

StructInit ==
  /\ \E t \in Targets : type = t.type /\ before = t.held
  /\ \/ /\ given = "raw"
        /\ pairs \in Payloads
        /\ \E n \in 0..Len(Encoded(pairs)) : payload = SubSeq(Encoded(pairs), 1, n)
     \/ given = "raw" /\ pairs = <<>> /\ payload \in Others
     \/ given \in {"nil", "other"} /\ pairs = <<>> /\ payload = <<>>
  /\ step = "call" /\ taken = 0 /\ left = 0 /\ key = EmptyText /\ missing = 0
  /\ ret = before

Refuse == step' = "failed" /\ UNCHANGED <<input, taken, left, key, missing>>

(* mpc.Unmarshal: a payload that is absent or empty leaves ret alone. *)
Unmarshal ==
  /\ step = "call"
  /\ step' = IF type = Plain \/ given = "other" THEN "failed"
             ELSE IF payload = <<>> THEN "done" ELSE "header"
  /\ UNCHANGED <<input, taken, left, key, missing, ret>>

MoreToCome == taken < Len(payload)
NextToken == payload[taken + 1]
Take == taken' = taken + 1

ReadMapHeader ==
  /\ step = "header"
  /\ UNCHANGED ret
  /\ IF MoreToCome /\ NextToken.kind = "map"
     THEN /\ Take /\ left' = NextToken.val /\ step' = "key"
          /\ UNCHANGED <<input, key, missing>>
     ELSE Refuse

(* Mutant: a field the struct does not have is refused. *)
ReadKnownKey ==
  /\ step = "key" /\ left > 0
  /\ UNCHANGED ret
  /\ IF MoreToCome /\ NextToken.kind = "string" /\ NextToken.val \in Names(type)
     THEN /\ Take /\ left' = left - 1 /\ key' = NextToken.val /\ missing' = 1 /\ step' = "value"
          /\ UNCHANGED input
     ELSE Refuse

ReadMapKey ==
  /\ step = "key" /\ left > 0
  /\ UNCHANGED ret
  /\ IF MoreToCome /\ NextToken.kind = "string"
     THEN /\ Take /\ left' = left - 1 /\ key' = NextToken.val /\ missing' = 1
          /\ step' = IF NextToken.val \in Names(type) THEN "value" ELSE "skip"
          /\ UNCHANGED input
     ELSE Refuse

(* Mutant: a number is cut down to the width of the field. *)
FitsTruncated(kind, t) == t.kind = IF kind = "string" THEN "string" ELSE "number"

(* A number is read into any integer type that can hold it. *)
Fits(kind, t) ==
  CASE kind = "string" -> t.kind = "string"
    [] kind = "uint32" -> t.kind = "number" /\ 0 <= t.val /\ t.val <= MaxUint32
    [] kind = "int64"  -> t.kind = "number" /\ t.val <= MaxInt64

(* The field is zero if its value cannot be read. *)
ReadValue ==
  /\ step = "value"
  /\ IF MoreToCome /\ Fits(Kind(type, key), NextToken)
     THEN /\ Take /\ step' = "key"
          /\ ret' = [ret EXCEPT ![key] = NextToken.val]
          /\ UNCHANGED <<input, left, key, missing>>
     ELSE Refuse /\ ret' = [ret EXCEPT ![key] = Zero(Kind(type, key))]

(* Mutant: one token is skipped, whatever it starts. *)
SkipToken ==
  /\ step = "skip"
  /\ UNCHANGED ret
  /\ IF MoreToCome
     THEN /\ Take /\ step' = "key"
          /\ UNCHANGED <<input, left, key, missing>>
     ELSE Refuse

(* The value of an unknown field, with all that is in it. *)
Skip ==
  /\ step = "skip"
  /\ UNCHANGED ret
  /\ IF MoreToCome
     THEN /\ Take /\ missing' = missing - 1 + Holds(NextToken)
          /\ step' = IF missing' = 0 THEN "key" ELSE "skip"
          /\ UNCHANGED <<input, left, key>>
     ELSE Refuse

Return ==
  /\ step = "key" /\ left = 0
  /\ step' = "done"
  /\ UNCHANGED <<input, taken, left, key, missing, ret>>

UnmarshalMsg == ReadMapHeader \/ ReadMapKey \/ ReadValue \/ Skip \/ Return

StructNext == Unmarshal \/ UnmarshalMsg

StructSpec == StructInit /\ [][StructNext]_structVars

-----------------------------------------------------------------------------
(* Properties *)

(* Every variable stays in its range, each field of the struct in that of  *)
(* its type.                                                               *)
StructTypeOK ==
  /\ step \in {"call", "header", "key", "value", "skip", "done", "failed"}
  /\ taken \in 0..Len(payload) /\ left \in Nat /\ missing \in Nat
  /\ key \in Texts
  /\ IsStruct(type, ret)

(* The struct after the first k pairs: what the last of them to name a     *)
(* field says, and what was there before where none does.                  *)
After(k) ==
  [n \in Names(type) |->
     LET naming == {i \in 1..k : pairs[i].key = Str(n)}
     IN  IF naming = {} THEN before[n] ELSE pairs[Max(naming)].value[1].val]

Readable(p) ==
  /\ p.key.kind = "string"
  /\ p.key.val \in Names(type) => Fits(Kind(type, p.key.val), p.value[1])

(* A payload that is decoded has been read to its end and leaves every     *)
(* field as the payload says, whatever other fields it has, in whatever    *)
(* order, and every field it does not name as it was; so a struct comes    *)
(* out as it went in, and an absent payload changes nothing.               *)
DecodesWhatItNames ==
  step = "done" =>
    IF payload = <<>> THEN ret = before
    ELSE payload = Encoded(pairs) /\ taken = Len(payload) /\ ret = After(Len(pairs))

(* How far the first k pairs of ps take. *)
EndOf(ps, k) == Len(Written(ps)[k])

(* The payload breaks off in pair k, or the pair cannot be read. *)
Stops(k) ==
  \/ ~Readable(pairs[k])
  \/ EndOf(pairs, k - 1) <= Len(payload) /\ Len(payload) < EndOf(pairs, k)

(* A payload is refused only where it is cut off, is no map, has a key     *)
(* that is no string or a value its field cannot hold; what came before    *)
(* stays decoded, and the field at hand alone may be zero.                 *)
RefusedForCause ==
  step = "failed" =>
    \/ /\ type = Plain \/ given = "other" \/ payload[1].kind # "map"
       /\ ret = before
    \/ \E k \in 1..Len(pairs) :
         /\ Stops(k)
         /\ \A i \in 1..(k - 1) : ~Stops(i)
         /\ \/ ret = After(k - 1)
            \/ \E n \in Names(type) :
                 /\ pairs[k].key = Str(n)
                 /\ ret = [After(k - 1) EXCEPT ![n] = Zero(Kind(type, n))]

=============================================================================
