------------------------- MODULE MessagePackProofs --------------------------
(***************************************************************************)
(* What msgp generates encodes and decodes alike, for structs and for      *)
(* messages, with strings, numbers and payloads of any size, whatever was  *)
(* there before; and what was damaged on the way is taken for nothing else *)
(* than what it has become.                                                *)
(***************************************************************************)
EXTENDS WireFormat, Structs, SelectionsProofs, TLAPS

-----------------------------------------------------------------------------
(* Structs: the fields *)

Kinds == {"string", "uint32", "int64"}

(* Every field of every struct is a string or an integer. *)
LEMMA FieldKinds ==
  ASSUME NEW T \in Types
  PROVE  \A n \in Names(T) : Kind(T, n) \in Kinds
<1> DEFINE F == T.fields
<1>1. DOMAIN F = 1..Len(F) /\ \A i \in 1..Len(F) : F[i].kind \in Kinds
  <2>1. \A n : /\ Field(n, "string").kind \in Kinds
               /\ Field(n, "uint32").kind \in Kinds
               /\ Field(n, "int64").kind \in Kinds
    BY DEF Field, Kinds
  <2>2. CASE T = Incoming
    <3>1. F = <<Field("from", "string"), Field("message", "string")>>
      BY <2>2 DEF Incoming, Struct
    <3> HIDE DEF F
    <3> QED BY <2>1, <3>1
  <2>3. CASE T = Outgoing
    <3>1. F = <<Field("time", "uint32"), Field("from", "string"), Field("message", "string")>>
      BY <2>3 DEF Outgoing, Struct
    <3> HIDE DEF F
    <3> QED BY <2>1, <3>1
  <2>4. CASE T = Args
    <3>1. F = <<Field("a", "int64"), Field("b", "int64"), Field("s", "string")>>
      BY <2>4 DEF Args, Struct
    <3> HIDE DEF F
    <3> QED BY <2>1, <3>1
  <2>5. CASE T = Result
    <3>1. F = <<Field("c", "int64"), Field("s", "string")>>
      BY <2>5 DEF Result, Struct
    <3> HIDE DEF F
    <3> QED BY <2>1, <3>1
  <2>6. CASE T = nothing \/ T = Plain
    <3>1. F = <<>>
      BY <2>6 DEF nothing, Plain, Struct
    <3> HIDE DEF F
    <3> QED BY <3>1
  <2> QED BY <2>2, <2>3, <2>4, <2>5, <2>6 DEF Types
<1> HIDE DEF F
<1>2. Names(T) = {F[i].name : i \in 1..Len(F)}
  BY DEF Names, F
<1>3. ASSUME NEW n \in Names(T) PROVE Kind(T, n) \in Kinds
  <2>1. PICK i \in 1..Len(F) : F[i].name = n
    BY <1>2
  <2>2. F[i] \in Range(F)
    BY <1>1 DEF Range
  <2> DEFINE f == CHOOSE f \in Range(F) : f.name = n
  <2>3. f \in Range(F)
    BY <2>1, <2>2
  <2>4. PICK j \in 1..Len(F) : f = F[j]
    BY <1>1, <2>3 DEF Range
  <2> QED BY <1>1, <2>4 DEF Kind, F
<1> QED BY <1>3

-----------------------------------------------------------------------------
(* Structs: what a map is written to *)

(* f tells what is written up to each of the first k pairs. *)
IsWriting(f, ps, k) ==
  f = [n \in 0..k |->
         IF n = 0 THEN <<Map(Len(ps))>> ELSE f[n-1] \o <<ps[n].key>> \o ps[n].value]

(* What Written defines by recursion exists. *)
LEMMA WritingExists ==
  ASSUME NEW ps, NEW k \in Nat
  PROVE  \E f : IsWriting(f, ps, k)
<1> DEFINE U == {j \in Nat : \E f : IsWriting(f, ps, j)}
<1>1. 0 \in U
  <2>1. IsWriting([n \in 0..0 |-> <<Map(Len(ps))>>], ps, 0)
    BY DEF IsWriting
  <2> QED BY <2>1
<1>2. ASSUME NEW j \in U PROVE j + 1 \in U
  <2>1. PICK f : IsWriting(f, ps, j)
    OBVIOUS
  <2> DEFINE More_(w, n) == w \o <<ps[n].key>> \o ps[n].value
             g == [n \in 0..(j+1) |-> IF n = 0 THEN <<Map(Len(ps))>> ELSE More_(f[n-1], n)]
  <2>2. /\ f = [n \in 0..j |-> IF n = 0 THEN <<Map(Len(ps))>> ELSE More_(f[n-1], n)]
    BY <2>1 DEF IsWriting
  <2> HIDE DEF More_
  <2>3. ASSUME NEW n \in 0..j PROVE g[n] = f[n]
    <3>1. n \in 0..(j+1)
      OBVIOUS
    <3>2. f[n] = IF n = 0 THEN <<Map(Len(ps))>> ELSE More_(f[n-1], n)
      BY <2>2
    <3> QED BY <3>1, <3>2
  <2>4. ASSUME NEW n \in 1..(j+1) PROVE g[n] = More_(g[n-1], n)
    <3>1. n - 1 \in 0..j /\ n # 0 /\ n \in 0..(j+1)
      OBVIOUS
    <3>2. g[n] = More_(f[n-1], n)
      BY <3>1
    <3>3. g[n-1] = f[n-1]
      BY <2>3, <3>1
    <3> HIDE DEF g
    <3> QED BY <3>2, <3>3
  <2>5. g[0] = <<Map(Len(ps))>>
    OBVIOUS
  <2>6. g = [n \in 0..(j+1) |-> IF n = 0 THEN <<Map(Len(ps))>> ELSE More_(g[n-1], n)]
    <3> HIDE DEF g
    <3>1. g = [n \in 0..(j+1) |-> g[n]]
      BY DEF g
    <3>2. \A n \in 0..(j+1) : n = 0 \/ n \in 1..(j+1)
      OBVIOUS
    <3> QED BY <2>4, <2>5, <3>1, <3>2
  <2> HIDE DEF g
  <2>7. IsWriting(g, ps, j + 1)
    BY <2>6 DEF IsWriting, More_
  <2> QED BY <2>7
<1>3. U = Nat
  BY <1>1, <1>2, SetInduction
<1> QED BY <1>3

(* The header comes first, and then a pair at a time. *)
LEMMA WrittenStep ==
  ASSUME NEW ps, Len(ps) \in Nat
  PROVE  /\ Written(ps)[0] = <<Map(Len(ps))>>
         /\ \A k \in 1..Len(ps) :
              Written(ps)[k] = Written(ps)[k-1] \o <<ps[k].key>> \o ps[k].value
<1> DEFINE up == CHOOSE f : IsWriting(f, ps, Len(ps))
<1>1. IsWriting(up, ps, Len(ps))
  BY WritingExists
<1>2. Written(ps) = up
  BY DEF Written, IsWriting
<1> DEFINE w == Written(ps)
<1>3. w = [n \in 0..Len(ps) |->
             IF n = 0 THEN <<Map(Len(ps))>> ELSE w[n-1] \o <<ps[n].key>> \o ps[n].value]
  BY <1>1, <1>2 DEF IsWriting
<1> HIDE DEF w
<1>4. ASSUME NEW k \in 1..Len(ps) PROVE w[k] = w[k-1] \o <<ps[k].key>> \o ps[k].value
  <2>1. k \in 0..Len(ps) /\ k # 0
    OBVIOUS
  <2> QED BY <1>3, <2>1
<1>5. w[0] = <<Map(Len(ps))>>
  BY <1>3
<1> QED BY <1>4, <1>5 DEF w

(* Every pair of ps is a key and a value, made of what is in S. *)
PairsOf(S, ps) ==
  /\ Len(ps) \in Nat /\ Map(Len(ps)) \in S
  /\ \A k \in 1..Len(ps) : ps[k].key \in S /\ ps[k].value \in Seq(S)

(* What is written is a sequence of tokens, and each pair is there: its key*)
(* first, and its value after that.                                        *)
LEMMA WrittenPair ==
  ASSUME NEW S, NEW ps, PairsOf(S, ps)
  PROVE  /\ \A k \in 0..Len(ps) : Written(ps)[k] \in Seq(S) /\ EndOf(ps, k) \in Nat
         /\ EndOf(ps, 0) = 1 /\ Written(ps)[0][1] = Map(Len(ps))
         /\ \A k \in 1..Len(ps) :
              /\ Len(ps[k].value) \in Nat
              /\ EndOf(ps, k) = EndOf(ps, k-1) + 1 + Len(ps[k].value)
              /\ \A i \in 1..EndOf(ps, k-1) : Written(ps)[k][i] = Written(ps)[k-1][i]
              /\ Written(ps)[k][EndOf(ps, k-1) + 1] = ps[k].key
              /\ \A i \in 1..Len(ps[k].value) :
                   Written(ps)[k][EndOf(ps, k-1) + 1 + i] = ps[k].value[i]
<1> USE DEF PairsOf
<1> DEFINE w == Written(ps)
<1>1. /\ w[0] = <<Map(Len(ps))>>
      /\ \A k \in 1..Len(ps) : w[k] = (w[k-1] \o <<ps[k].key>>) \o ps[k].value
  BY WrittenStep
<1>2. \A k : EndOf(ps, k) = Len(w[k])
  BY DEF EndOf
<1> HIDE DEF w
<1> DEFINE U == {k \in Nat : k <= Len(ps) => w[k] \in Seq(S)}
<1>3. w[0] \in Seq(S) /\ Len(w[0]) = 1 /\ w[0][1] = Map(Len(ps))
  BY <1>1
<1>4. ASSUME NEW k \in 1..Len(ps), w[k-1] \in Seq(S)
      PROVE  /\ w[k] \in Seq(S)
             /\ Len(ps[k].value) \in Nat
             /\ Len(w[k]) = Len(w[k-1]) + 1 + Len(ps[k].value)
             /\ \A i \in 1..Len(w[k-1]) : w[k][i] = w[k-1][i]
             /\ w[k][Len(w[k-1]) + 1] = ps[k].key
             /\ \A i \in 1..Len(ps[k].value) : w[k][Len(w[k-1]) + 1 + i] = ps[k].value[i]
  <2> DEFINE a == w[k-1]
             b == ps[k].key
             c == ps[k].value
             ab == a \o <<b>>
  <2>1. a \in Seq(S) /\ b \in S /\ c \in Seq(S) /\ w[k] = ab \o c
    BY <1>1, <1>4
  <2> HIDE DEF a, b, c
  <2>2. <<b>> \in Seq(S) /\ Len(<<b>>) = 1 /\ <<b>>[1] = b
    BY <2>1
  <2>3. Len(a) \in Nat /\ Len(c) \in Nat
    BY <2>1, LenProperties
  <2>4. /\ ab \in Seq(S) /\ Len(ab) = Len(a) + 1
        /\ \A i \in 1..Len(a) : ab[i] = a[i]
        /\ ab[Len(a) + 1] = b
    <3>1. /\ ab \in Seq(S) /\ Len(ab) = Len(a) + Len(<<b>>)
          /\ \A i \in 1..(Len(a) + Len(<<b>>)) :
               ab[i] = IF i <= Len(a) THEN a[i] ELSE <<b>>[i - Len(a)]
      BY <2>1, <2>2, ConcatProperties
    <3> HIDE DEF ab
    <3> QED BY <2>2, <2>3, <3>1
  <2> HIDE DEF ab
  <2>5. /\ ab \o c \in Seq(S) /\ Len(ab \o c) = Len(ab) + Len(c)
        /\ \A i \in 1..(Len(ab) + Len(c)) :
             (ab \o c)[i] = IF i <= Len(ab) THEN ab[i] ELSE c[i - Len(ab)]
    BY <2>1, <2>4, ConcatProperties
  <2>6. /\ w[k] \in Seq(S) /\ Len(w[k]) = Len(a) + 1 + Len(c)
        /\ \A i \in 1..(Len(a) + 1 + Len(c)) :
             w[k][i] = IF i <= Len(a) + 1 THEN ab[i] ELSE c[i - (Len(a) + 1)]
    BY <2>1, <2>3, <2>4, <2>5
  <2>7. \A i \in 1..Len(a) : w[k][i] = a[i]
    BY <2>3, <2>4, <2>6
  <2>8. w[k][Len(a) + 1] = b
    BY <2>3, <2>4, <2>6
  <2>9. ASSUME NEW i \in 1..Len(c) PROVE w[k][Len(a) + 1 + i] = c[i]
    <3>1. /\ Len(a) + 1 + i \in 1..(Len(a) + 1 + Len(c))
          /\ ~(Len(a) + 1 + i <= Len(a) + 1)
          /\ (Len(a) + 1 + i) - (Len(a) + 1) = i
      BY <2>3
    <3> QED BY <2>6, <3>1
  <2> QED BY <2>3, <2>6, <2>7, <2>8, <2>9 DEF a, b, c
<1>5. ASSUME NEW k \in U PROVE k + 1 \in U
  <2>1. ASSUME k + 1 <= Len(ps) PROVE w[k + 1] \in Seq(S)
    <3>1. k + 1 \in 1..Len(ps) /\ (k + 1) - 1 = k /\ w[k] \in Seq(S)
      BY <2>1
    <3>2. w[(k + 1) - 1] \in Seq(S)
      BY <3>1
    <3> QED BY <1>4, <3>1, <3>2
  <2> QED BY <2>1
<1>6. U = Nat
  <2>1. 0 \in U
    BY <1>3
  <2> HIDE DEF U
  <2> QED BY <1>5, <2>1, SetInduction DEF U
<1>7. ASSUME NEW k \in 0..Len(ps) PROVE w[k] \in Seq(S) /\ Len(w[k]) \in Nat
  BY <1>6, LenProperties
<1>8. ASSUME NEW k \in 1..Len(ps)
      PROVE  /\ Len(ps[k].value) \in Nat
             /\ EndOf(ps, k) = EndOf(ps, k-1) + 1 + Len(ps[k].value)
             /\ \A i \in 1..EndOf(ps, k-1) : w[k][i] = w[k-1][i]
             /\ w[k][EndOf(ps, k-1) + 1] = ps[k].key
             /\ \A i \in 1..Len(ps[k].value) : w[k][EndOf(ps, k-1) + 1 + i] = ps[k].value[i]
  <2>1. k - 1 \in 0..Len(ps)
    OBVIOUS
  <2>2. w[k-1] \in Seq(S)
    BY <1>7, <2>1
  <2>3. EndOf(ps, k) = Len(w[k]) /\ EndOf(ps, k-1) = Len(w[k-1])
    BY <1>2
  <2> QED BY <1>4, <2>2, <2>3
<1>9. /\ \A k \in 0..Len(ps) : w[k] \in Seq(S) /\ EndOf(ps, k) \in Nat
      /\ EndOf(ps, 0) = 1 /\ w[0][1] = Map(Len(ps))
  BY <1>3, <1>7, <1>2
<1> QED BY <1>8, <1>9 DEF w

(* What is written up to a pair stays there. *)
LEMMA WrittenPrefix ==
  ASSUME NEW S, NEW ps, PairsOf(S, ps),
         NEW k \in 0..Len(ps), NEW l \in k..Len(ps)
  PROVE  /\ EndOf(ps, k) <= EndOf(ps, l)
         /\ \A i \in 1..EndOf(ps, k) : Written(ps)[l][i] = Written(ps)[k][i]
<1> DEFINE w == Written(ps)
           P(m) == /\ EndOf(ps, k) <= EndOf(ps, m)
                   /\ \A i \in 1..EndOf(ps, k) : w[m][i] = w[k][i]
           U == {n \in Nat : k + n <= Len(ps) => P(k + n)}
<1>1. /\ \A m \in 0..Len(ps) : EndOf(ps, m) \in Nat
      /\ \A m \in 1..Len(ps) :
           /\ Len(ps[m].value) \in Nat
           /\ EndOf(ps, m) = EndOf(ps, m-1) + 1 + Len(ps[m].value)
           /\ \A i \in 1..EndOf(ps, m-1) : w[m][i] = w[m-1][i]
  BY WrittenPair
<1> HIDE DEF w
<1> USE DEF PairsOf
<1>2. 0 \in U
  <2>1. EndOf(ps, k) \in Nat
    BY <1>1
  <2>2. EndOf(ps, k) <= EndOf(ps, k) /\ k + 0 = k
    BY <2>1
  <2>3. P(k)
    BY <2>2
  <2> HIDE DEF P
  <2> QED BY <2>2, <2>3
<1>3. ASSUME NEW n \in U PROVE n + 1 \in U
  <2>1. ASSUME k + (n + 1) <= Len(ps) PROVE P(k + (n + 1))
    <3> DEFINE m == k + (n + 1)
    <3>1. m \in 1..Len(ps) /\ m - 1 = k + n /\ m - 1 \in 0..Len(ps) /\ P(m - 1)
      BY <2>1
    <3> HIDE DEF m
    <3>2. /\ EndOf(ps, m) \in Nat /\ EndOf(ps, m-1) \in Nat /\ EndOf(ps, k) \in Nat
          /\ Len(ps[m].value) \in Nat
          /\ EndOf(ps, m) = EndOf(ps, m-1) + 1 + Len(ps[m].value)
          /\ \A i \in 1..EndOf(ps, m-1) : w[m][i] = w[m-1][i]
      BY <1>1, <3>1
    <3>3. EndOf(ps, k) <= EndOf(ps, m-1) /\ EndOf(ps, m-1) <= EndOf(ps, m)
      BY <3>1, <3>2
    <3>4. ASSUME NEW i \in 1..EndOf(ps, k) PROVE w[m][i] = w[k][i]
      <4>1. i \in 1..EndOf(ps, m-1)
        BY <3>2, <3>3
      <4>2. w[m][i] = w[m-1][i]
        BY <3>2, <4>1
      <4>3. w[m-1][i] = w[k][i]
        BY <3>1
      <4> QED BY <4>2, <4>3
    <3>5. P(m)
      BY <3>2, <3>3, <3>4
    <3> QED BY <3>5 DEF m
  <2> HIDE DEF P
  <2> QED BY <2>1
<1> HIDE DEF P
<1>4. U = Nat
  <2>1. U \in SUBSET Nat
    OBVIOUS
  <2> HIDE DEF U
  <2> QED BY <1>2, <1>3, <2>1, SetInduction
<1>5. l - k \in Nat /\ k + (l - k) = l /\ l <= Len(ps)
  OBVIOUS
<1>6. l - k \in U
  BY <1>4, <1>5
<1>7. P(l)
  BY <1>5, <1>6
<1> QED BY <1>7 DEF w, P

(* An object has a token, and no more if nothing belongs to it. *)
LEMMA ObjectTokens ==
  ASSUME NEW p, Len(p) \in Nat, OneObject(p)
  PROVE  Len(p) >= 1 /\ (Holds(p[1]) = 0 => Len(p) = 1)
<1>1. PICK o \in [0..Len(p) -> 0..Len(p)] : Opens(o, p)
  BY DEF OneObject
<1>2. Len(p) >= 1
  BY <1>1 DEF Opens
<1>3. ASSUME Holds(p[1]) = 0, Len(p) > 1 PROVE FALSE
  <2>1. 1 \in 1..Len(p) /\ 2 \in 1..Len(p) /\ 1 - 1 = 0 /\ 2 - 1 = 1
    BY <1>3
  <2>2. o[0] = 1 /\ o[1] = o[0] - 1 + Holds(p[1])
    BY <1>1, <2>1 DEF Opens
  <2>3. o[1] > 0
    BY <1>1, <2>1 DEF Opens
  <2> QED BY <1>3, <2>2, <2>3
<1> QED BY <1>2, <1>3

(* What a map is encoded to. *)
LEMMA MapLayout ==
  ASSUME NEW ps, IsMap(ps)
  PROVE  /\ Len(ps) \in Nat
         /\ Encoded(ps) \in Seq(PayloadTokens)
         /\ Len(Encoded(ps)) = EndOf(ps, Len(ps))
         /\ EndOf(ps, 0) = 1 /\ Encoded(ps)[1] = Map(Len(ps))
         /\ \A k \in 0..Len(ps) : EndOf(ps, k) \in Nat /\ EndOf(ps, k) <= Len(Encoded(ps))
         /\ \A k \in 1..Len(ps) :
              /\ ps[k].key \in PayloadTokens
              /\ ps[k].value \in Seq(PayloadTokens)
              /\ Len(ps[k].value) \in Nat /\ OneObject(ps[k].value)
              /\ EndOf(ps, k) = EndOf(ps, k-1) + 1 + Len(ps[k].value)
              /\ Encoded(ps)[EndOf(ps, k-1) + 1] = ps[k].key
              /\ \A i \in 1..Len(ps[k].value) :
                   Encoded(ps)[EndOf(ps, k-1) + 1 + i] = ps[k].value[i]
<1> DEFINE n == Len(ps)
           w == Written(ps)
           E(k) == EndOf(ps, k)
<1>1. /\ n \in Nat
      /\ \A k \in 1..n : /\ ps[k].key \in PayloadTokens
                         /\ ps[k].value \in Seq(PayloadTokens)
                         /\ OneObject(ps[k].value)
  <2>1. ps \in Seq([key : PayloadTokens, value : Seq(PayloadTokens)])
    BY DEF IsMap
  <2>2. \A k \in 1..n : ps[k] \in [key : PayloadTokens, value : Seq(PayloadTokens)]
    BY <2>1, ElementOfSeq
  <2> QED BY <2>1, <2>2, LenProperties DEF IsMap
<1>2. PairsOf(PayloadTokens, ps)
  <2>1. Map(n) \in PayloadTokens
    BY <1>1 DEF PayloadTokens, TokensOf, Map, Token
  <2> QED BY <1>1, <2>1 DEF PairsOf
<1>3. /\ \A k \in 0..n : w[k] \in Seq(PayloadTokens) /\ E(k) \in Nat
      /\ E(0) = 1 /\ w[0][1] = Map(n)
      /\ \A k \in 1..n :
           /\ Len(ps[k].value) \in Nat
           /\ E(k) = E(k-1) + 1 + Len(ps[k].value)
           /\ w[k][E(k-1) + 1] = ps[k].key
           /\ \A i \in 1..Len(ps[k].value) : w[k][E(k-1) + 1 + i] = ps[k].value[i]
  BY <1>1, <1>2, WrittenPair
<1>4. ASSUME NEW k \in 0..n
      PROVE  E(k) <= E(n) /\ \A i \in 1..E(k) : w[n][i] = w[k][i]
  <2>1. n \in k..n
    BY <1>1
  <2> QED BY <1>1, <1>2, <2>1, WrittenPrefix
<1>5. Encoded(ps) = w[n] /\ Len(Encoded(ps)) = E(n)
  BY DEF Encoded, EndOf
<1> HIDE DEF w, E
<1>6. w[n][1] = Map(n)
  <2>1. 0 \in 0..n /\ 1 \in 1..E(0)
    BY <1>1, <1>3
  <2> QED BY <1>3, <1>4, <2>1
<1>7. ASSUME NEW k \in 1..n
      PROVE  /\ w[n][E(k-1) + 1] = ps[k].key
             /\ \A i \in 1..Len(ps[k].value) : w[n][E(k-1) + 1 + i] = ps[k].value[i]
  <2>1. /\ k \in 0..n /\ k - 1 \in 0..n /\ E(k-1) \in Nat /\ Len(ps[k].value) \in Nat
        /\ E(k) = E(k-1) + 1 + Len(ps[k].value)
    BY <1>1, <1>3
  <2>2. E(k-1) + 1 \in 1..E(k)
    BY <2>1
  <2>3. \A i \in 1..Len(ps[k].value) : E(k-1) + 1 + i \in 1..E(k)
    BY <2>1
  <2>4. \A i \in 1..E(k) : w[n][i] = w[k][i]
    BY <1>4, <2>1
  <2>5. w[n][E(k-1) + 1] = ps[k].key
    BY <1>3, <2>2, <2>4
  <2>6. \A i \in 1..Len(ps[k].value) : w[n][E(k-1) + 1 + i] = ps[k].value[i]
    BY <1>3, <2>3, <2>4
  <2> QED BY <2>5, <2>6
<1>8. n \in 0..n /\ w[n] \in Seq(PayloadTokens)
  BY <1>1, <1>3
<1> QED BY <1>1, <1>3, <1>4, <1>5, <1>6, <1>7, <1>8 DEF E

-----------------------------------------------------------------------------
(* Structs: what decoding comes to *)

(* The last of the first k is k. *)
LEMMA LastIsMax ==
  ASSUME NEW k \in Nat, NEW U \in SUBSET (1..k), k \in U
  PROVE  Max(U) = k
<1>1. \A y \in U : k >= y
  OBVIOUS
<1> DEFINE P(x) == x \in U /\ \A y \in U : x >= y
           m == CHOOSE x : P(x)
<1>2. P(k)
  BY <1>1
<1>3. P(m)
  <2> HIDE DEF P
  <2> QED BY <1>2
<1>4. Max(U) = m
  BY DEF Max
<1> HIDE DEF m
<1>5. m \in 1..k /\ m >= k
  BY <1>3
<1> QED BY <1>4, <1>5

(* A pair says what the field it names holds, and nothing of the others. *)
LEMMA AfterOne ==
  ASSUME NEW k \in Nat \ {0}
  PROVE  After(k) = [n \in Names(type) |->
                       IF pairs[k].key = Str(n) THEN pairs[k].value[1].val ELSE After(k-1)[n]]
<1> DEFINE N(j, n) == {i \in 1..j : pairs[i].key = Str(n)}
           A(j, n) == IF N(j, n) = {} THEN before[n] ELSE pairs[Max(N(j, n))].value[1].val
<1>1. \A j : After(j) = [n \in Names(type) |-> A(j, n)]
  BY DEF After
<1>2. ASSUME NEW n, pairs[k].key = Str(n)
      PROVE  A(k, n) = pairs[k].value[1].val
  <2>1. k \in N(k, n) /\ N(k, n) \in SUBSET (1..k)
    BY <1>2
  <2> HIDE DEF N
  <2>2. Max(N(k, n)) = k
    BY <2>1, LastIsMax
  <2> QED BY <2>1, <2>2
<1>3. ASSUME NEW n, pairs[k].key # Str(n)
      PROVE  A(k, n) = A(k-1, n)
  <2>1. N(k, n) = N(k-1, n)
    BY <1>3
  <2> QED BY <2>1
<1> HIDE DEF A
<1> QED BY <1>1, <1>2, <1>3

(* The beginning of a sequence. *)
LEMMA PrefixType ==
  ASSUME NEW S, NEW s \in Seq(S), NEW n \in 0..Len(s)
  PROVE  /\ SubSeq(s, 1, n) \in Seq(S) /\ Len(SubSeq(s, 1, n)) = n
         /\ \A i \in 1..n : SubSeq(s, 1, n)[i] = s[i]
<1>1. \A i \in 1..n : s[i] \in S
  BY ElementOfSeq, LenProperties
<1> QED BY <1>1, SubSeqProperties, LenProperties

-----------------------------------------------------------------------------
(* Structs: types *)

(* The payload is the beginning of the map that was sent. *)
FromMap ==
  /\ given = "raw" /\ pairs \in Payloads
  /\ \E n \in 0..Len(Encoded(pairs)) : payload = SubSeq(Encoded(pairs), 1, n)

(* What Unmarshal is called with stays as it was. *)
InputInv ==
  /\ \E t \in Targets : type = t.type /\ before = t.held
  /\ \/ FromMap
     \/ given = "raw" /\ pairs = <<>> /\ payload \in Others
     \/ given \in {"nil", "other"} /\ pairs = <<>> /\ payload = <<>>

(* Every variable has its type, the field at hand is one of the struct, and*)
(* what is being skipped is not complete.                                  *)
StructTypeInv ==
  /\ InputInv
  /\ StructTypeOK
  /\ step = "value" => key \in Names(type)
  /\ step = "skip" => missing > 0

LEMMA PayloadTokenKinds ==
  ASSUME NEW t \in PayloadTokens
  PROVE  /\ t.kind = "string" => t.val \in Texts /\ Holds(t) = 0
         /\ t.kind = "number" => t.val \in Int /\ t.val >= -MaxInt64 - 1 /\ Holds(t) = 0
         /\ t.kind = "map" => t.val \in Nat
         /\ Holds(t) \in Nat
BY DEF PayloadTokens, TokensOf, Nil, Token, Holds

(* What fits into a field is a value of it, and the zero value is one. *)
LEMMA FittingValues ==
  ASSUME NEW kind \in Kinds
  PROVE  /\ Zero(kind) \in Values(kind)
         /\ \A t \in PayloadTokens : Fits(kind, t) => t.val \in Values(kind) /\ Holds(t) = 0
<1>1. EmptyText \in Texts /\ MaxUint32 \in Nat /\ MaxInt64 \in Nat
  BY StructsAssumption
<1>2. CASE kind = "string"
  <2>1. Values(kind) = Texts /\ Zero(kind) = EmptyText /\ \A t : Fits(kind, t) => t.kind = "string"
    BY <1>2 DEF Values, Zero, Fits
  <2> QED BY <1>1, <2>1, PayloadTokenKinds
<1>3. CASE kind = "uint32"
  <2>1. Values(kind) = 0..MaxUint32 /\ Zero(kind) = 0
    BY <1>3 DEF Values, Zero
  <2>2. ASSUME NEW t \in PayloadTokens, Fits(kind, t)
        PROVE  t.val \in 0..MaxUint32 /\ Holds(t) = 0
    <3>1. t.kind = "number" /\ 0 <= t.val /\ t.val <= MaxUint32
      BY <1>3, <2>2 DEF Fits
    <3>2. t.val \in Int /\ Holds(t) = 0
      BY <3>1, PayloadTokenKinds
    <3> QED BY <1>1, <3>1, <3>2
  <2> QED BY <1>1, <2>1, <2>2
<1>4. CASE kind = "int64"
  <2>1. Values(kind) = (-MaxInt64 - 1)..MaxInt64 /\ Zero(kind) = 0
    BY <1>4 DEF Values, Zero
  <2>2. ASSUME NEW t \in PayloadTokens, Fits(kind, t)
        PROVE  t.val \in (-MaxInt64 - 1)..MaxInt64 /\ Holds(t) = 0
    <3>1. t.kind = "number" /\ t.val <= MaxInt64
      BY <1>4, <2>2 DEF Fits
    <3>2. t.val \in Int /\ t.val >= -MaxInt64 - 1 /\ Holds(t) = 0
      BY <3>1, PayloadTokenKinds
    <3> QED BY <1>1, <3>1, <3>2
  <2> QED BY <1>1, <2>1, <2>2
<1> QED BY <1>2, <1>3, <1>4 DEF Kinds

(* A struct stays one if a field of it is set to one of its values. *)
LEMMA SetFieldOfStruct ==
  ASSUME NEW T, NEW f, IsStruct(T, f), NEW n \in Names(T), NEW v \in Values(Kind(T, n))
  PROVE  IsStruct(T, [f EXCEPT ![n] = v])
BY DEF IsStruct

LEMMA InputTypes ==
  ASSUME InputInv
  PROVE  /\ type \in Types /\ IsStruct(type, before)
         /\ payload \in Seq(PayloadTokens) /\ Len(payload) \in Nat
         /\ \A i \in 1..Len(payload) : payload[i] \in PayloadTokens
<1>1. type \in Types /\ IsStruct(type, before)
  BY StructsAssumption DEF InputInv
<1>2. payload \in Seq(PayloadTokens)
  <2>1. CASE FromMap
    <3>1. Encoded(pairs) \in Seq(PayloadTokens)
      BY <2>1, StructsAssumption, MapLayout DEF FromMap
    <3>2. PICK n \in 0..Len(Encoded(pairs)) : payload = SubSeq(Encoded(pairs), 1, n)
      BY <2>1 DEF FromMap
    <3> QED BY <3>1, <3>2, PrefixType
  <2>2. CASE payload \in Others
    BY <2>2, StructsAssumption
  <2>3. CASE payload = <<>>
    BY <2>3, EmptySeq
  <2> QED BY <2>1, <2>2, <2>3 DEF InputInv
<1> QED BY <1>1, <1>2, LenProperties, ElementOfSeq

LEMMA PairsLength ==
  ASSUME InputInv
  PROVE  Len(pairs) \in Nat
<1>1. CASE FromMap
  BY <1>1, StructsAssumption, MapLayout DEF FromMap
<1>2. CASE pairs = <<>>
  BY <1>2, EmptySeq
<1> QED BY <1>1, <1>2 DEF InputInv

LEMMA StructTypeStep == StructTypeInv /\ [StructNext]_structVars => StructTypeInv'
<1> SUFFICES ASSUME StructTypeInv, [StructNext]_structVars PROVE StructTypeInv'
  OBVIOUS
<1> USE DEF StructTypeInv
<1>1. UNCHANGED input
  BY DEF StructNext, Unmarshal, UnmarshalMsg, ReadMapHeader, ReadMapKey, ReadValue, Skip,
         Return, Refuse, structVars
<1>2. InputInv'
  BY <1>1 DEF InputInv, FromMap, input
<1>3. /\ type' = type /\ payload' = payload /\ Len(payload) \in Nat /\ type \in Types
      /\ \A n \in Names(type) : Kind(type, n) \in Kinds
  BY <1>1, InputTypes, FieldKinds DEF input
<1>4. /\ taken \in 0..Len(payload) /\ left \in Nat /\ missing \in Nat
      /\ key \in Texts /\ IsStruct(type, ret)
  BY DEF StructTypeOK
<1>5. MoreToCome => /\ NextToken \in PayloadTokens /\ taken + 1 \in 0..Len(payload)
  <2>1. MoreToCome => taken + 1 \in 1..Len(payload)
    BY <1>3, <1>4 DEF MoreToCome
  <2> QED BY <2>1, InputTypes DEF NextToken
<1>6. ASSUME Refuse, IsStruct(type, ret') PROVE StructTypeInv'
  BY <1>2, <1>3, <1>4, <1>6 DEF Refuse, StructTypeOK
<1>7. ASSUME MoreToCome, Take, IsStruct(type, ret'),
             left' \in Nat, missing' \in Nat, key' \in Texts,
             step' \in {"key", "value", "skip"},
             step' = "value" => key' \in Names(type),
             step' = "skip" => missing' > 0
      PROVE  StructTypeInv'
  BY <1>2, <1>3, <1>4, <1>5, <1>7 DEF Take, StructTypeOK
<1>8. CASE Unmarshal
  BY <1>2, <1>3, <1>4, <1>8 DEF Unmarshal, StructTypeOK
<1>9. CASE ReadMapHeader
  <2>1. CASE MoreToCome /\ NextToken.kind = "map"
    <3>1. NextToken.val \in Nat
      BY <1>5, <2>1, PayloadTokenKinds
    <3> QED BY <1>4, <1>7, <1>9, <2>1, <3>1 DEF ReadMapHeader
  <2>2. CASE ~(MoreToCome /\ NextToken.kind = "map")
    BY <1>4, <1>6, <1>9, <2>2 DEF ReadMapHeader
  <2> QED BY <2>1, <2>2
<1>10. CASE ReadMapKey
  <2>1. CASE MoreToCome /\ NextToken.kind = "string"
    <3>1. NextToken.val \in Texts
      BY <1>5, <2>1, PayloadTokenKinds
    <3>2. left' \in Nat
      BY <1>4, <1>10, <2>1 DEF ReadMapKey
    <3> QED BY <1>4, <1>7, <1>10, <2>1, <3>1, <3>2 DEF ReadMapKey
  <2>2. CASE ~(MoreToCome /\ NextToken.kind = "string")
    BY <1>4, <1>6, <1>10, <2>2 DEF ReadMapKey
  <2> QED BY <2>1, <2>2
<1>11. CASE ReadValue
  <2>1. key \in Names(type) /\ Kind(type, key) \in Kinds
    BY <1>3, <1>11 DEF ReadValue
  <2>2. CASE MoreToCome /\ Fits(Kind(type, key), NextToken)
    <3>1. IsStruct(type, ret')
      BY <1>4, <1>5, <1>11, <2>1, <2>2, FittingValues, SetFieldOfStruct DEF ReadValue
    <3> QED BY <1>4, <1>7, <1>11, <2>2, <3>1 DEF ReadValue
  <2>3. CASE ~(MoreToCome /\ Fits(Kind(type, key), NextToken))
    <3>1. IsStruct(type, ret')
      BY <1>4, <1>11, <2>1, <2>3, FittingValues, SetFieldOfStruct DEF ReadValue
    <3> QED BY <1>6, <1>11, <2>3, <3>1 DEF ReadValue
  <2> QED BY <2>2, <2>3
<1>12. CASE Skip
  <2>1. CASE MoreToCome
    <3>1. missing' \in Nat
      BY <1>4, <1>5, <1>12, <2>1, PayloadTokenKinds DEF Skip
    <3> QED BY <1>4, <1>7, <1>12, <2>1, <3>1 DEF Skip
  <2>2. CASE ~MoreToCome
    BY <1>4, <1>6, <1>12, <2>2 DEF Skip
  <2> QED BY <2>1, <2>2
<1>13. CASE Return
  BY <1>2, <1>3, <1>4, <1>13 DEF Return, StructTypeOK
<1>14. CASE UNCHANGED structVars
  BY <1>2, <1>3, <1>4, <1>14 DEF structVars, StructTypeOK
<1> QED BY <1>8, <1>9, <1>10, <1>11, <1>12, <1>13, <1>14 DEF StructNext, UnmarshalMsg

LEMMA InitialTypes == StructInit => StructTypeInv
<1> SUFFICES ASSUME StructInit PROVE StructTypeInv
  OBVIOUS
<1>1. InputInv
  BY DEF StructInit, InputInv, FromMap
<1>2. IsStruct(type, before) /\ Len(payload) \in Nat /\ EmptyText \in Texts
  BY <1>1, InputTypes, StructsAssumption
<1> QED BY <1>1, <1>2 DEF StructInit, StructTypeInv, StructTypeOK

(* Whatever the structs, whatever arrives: every variable stays in its     *)
(* range, each field of the struct in that of its type, an integer of any  *)
(* width on the wire included.                                             *)
THEOREM FieldsHoldTheirTypes == StructSpec => []StructTypeOK
<1>1. StructInit => StructTypeInv
  BY InitialTypes
<1>2. StructTypeInv => StructTypeOK
  BY DEF StructTypeInv
<1> QED BY <1>1, <1>2, StructTypeStep, PTL DEF StructSpec

-----------------------------------------------------------------------------
(* Structs: the place in the map *)

(* How many pairs have been begun. *)
Begun == Len(pairs) - left

(* The first n pairs are decoded, and could be. *)
DecodedUpTo(n) == ret = After(n) /\ \A i \in 1..n : ~Stops(i)

(* The key of the last of them has been read. *)
InPair ==
  /\ Begun >= 1 /\ pairs[Begun].key = Str(key)
  /\ DecodedUpTo(Begun - 1)

(* So has a part of its value, which misses something. *)
InValue ==
  LET v == pairs[Begun].value
  IN  \E o \in [0..Len(v) -> 0..Len(v)], j \in 0..(Len(v) - 1) :
        /\ Opens(o, v) /\ missing = o[j]
        /\ taken = EndOf(pairs, Begun - 1) + 1 + j

PlaceInv ==
  /\ step \in {"call", "header"} => taken = 0 /\ ret = before
  /\ step = "header" => given = "raw" /\ payload # <<>>
  /\ step \in {"key", "value", "skip"} => FromMap /\ payload # <<>> /\ left <= Len(pairs)
  /\ step = "key" => taken = EndOf(pairs, Begun) /\ DecodedUpTo(Begun)
  /\ step = "value" => InPair /\ taken = EndOf(pairs, Begun - 1) + 1
  /\ step = "skip" => InPair /\ InValue /\ key \notin Names(type)
  /\ DecodesWhatItNames
  /\ RefusedForCause

(* What has arrived of a map is what has been sent of it. *)
LEMMA PayloadLayout ==
  ASSUME FromMap
  PROVE  /\ IsMap(pairs) /\ Len(pairs) \in Nat
         /\ Len(payload) \in Nat /\ Len(payload) <= Len(Encoded(pairs))
         /\ \A i \in 1..Len(payload) : payload[i] = Encoded(pairs)[i]
         /\ Len(payload) = Len(Encoded(pairs)) => payload = Encoded(pairs)
<1>1. IsMap(pairs)
  BY StructsAssumption DEF FromMap
<1>2. Encoded(pairs) \in Seq(PayloadTokens) /\ Len(pairs) \in Nat
  BY <1>1, MapLayout
<1>3. PICK n \in 0..Len(Encoded(pairs)) : payload = SubSeq(Encoded(pairs), 1, n)
  BY DEF FromMap
<1>4. Len(payload) = n /\ \A i \in 1..n : payload[i] = Encoded(pairs)[i]
  BY <1>2, <1>3, PrefixType
<1>5. n = Len(Encoded(pairs)) => payload = Encoded(pairs)
  BY <1>2, <1>3, SubSeqFull
<1>6. Len(Encoded(pairs)) \in Nat
  BY <1>2, LenProperties
<1> QED BY <1>1, <1>2, <1>3, <1>4, <1>5, <1>6

(* The next token is the one that comes next in the map; the payload breaks*)
(* off in the pair at hand if there is none.                               *)
LEMMA NextInMap ==
  ASSUME FromMap, NEW k \in 1..Len(pairs),
         NEW i \in 0..Len(pairs[k].value), taken = EndOf(pairs, k-1) + i, taken <= Len(payload)
  PROVE  /\ MoreToCome =>
              NextToken = IF i = 0 THEN pairs[k].key ELSE pairs[k].value[i]
         /\ ~MoreToCome => Stops(k)
<1>1. /\ Len(payload) \in Nat /\ \A j \in 1..Len(payload) : payload[j] = Encoded(pairs)[j]
      /\ IsMap(pairs) /\ Len(pairs) \in Nat
  BY PayloadLayout
<1>2. /\ EndOf(pairs, k-1) \in Nat /\ Len(pairs[k].value) \in Nat
      /\ EndOf(pairs, k) = EndOf(pairs, k-1) + 1 + Len(pairs[k].value)
      /\ Encoded(pairs)[EndOf(pairs, k-1) + 1] = pairs[k].key
      /\ \A j \in 1..Len(pairs[k].value) :
           Encoded(pairs)[EndOf(pairs, k-1) + 1 + j] = pairs[k].value[j]
  <2>1. k - 1 \in 0..Len(pairs)
    BY <1>1
  <2> QED BY <1>1, <2>1, MapLayout
<1>3. Encoded(pairs)[taken + 1] = IF i = 0 THEN pairs[k].key ELSE pairs[k].value[i]
  <2>1. CASE i = 0
    BY <1>2, <2>1
  <2>2. CASE i # 0
    <3>1. i \in 1..Len(pairs[k].value) /\ taken + 1 = EndOf(pairs, k-1) + 1 + i
      BY <1>2, <2>2
    <3> QED BY <1>2, <2>2, <3>1
  <2> QED BY <2>1, <2>2
<1>4. taken \in Nat
  BY <1>2
<1>5. ASSUME MoreToCome PROVE NextToken = Encoded(pairs)[taken + 1]
  <2>1. taken + 1 \in 1..Len(payload)
    BY <1>1, <1>4, <1>5 DEF MoreToCome
  <2> QED BY <1>1, <2>1 DEF NextToken
<1>6. ASSUME ~MoreToCome PROVE Stops(k)
  BY <1>1, <1>2, <1>4, <1>6 DEF MoreToCome, Stops
<1> QED BY <1>3, <1>5, <1>6

(* A pair that has been read to its end is no cause to stop. *)
LEMMA NoStop ==
  ASSUME FromMap, NEW k \in 1..Len(pairs), Readable(pairs[k]), EndOf(pairs, k) <= Len(payload)
  PROVE  ~Stops(k)
<1>1. Len(payload) \in Nat /\ EndOf(pairs, k) \in Nat
  <2>1. k \in 0..Len(pairs)
    BY PayloadLayout
  <2> QED BY <2>1, PayloadLayout, MapLayout
<1> QED BY <1>1 DEF Stops

(* The struct after a pair that names a field, and after one that does not.*)
LEMMA AfterPair ==
  ASSUME NEW k \in Nat \ {0}
  PROVE  /\ \A n \in Names(type) :
              pairs[k].key = Str(n)
                => After(k) = [After(k-1) EXCEPT ![n] = pairs[k].value[1].val]
         /\ (\A n \in Names(type) : pairs[k].key # Str(n)) => After(k) = After(k-1)
<1>1. After(k) = [n \in Names(type) |->
                    IF pairs[k].key = Str(n) THEN pairs[k].value[1].val ELSE After(k-1)[n]]
  BY AfterOne
<1>2. After(k-1) = [n \in Names(type) |-> After(k-1)[n]]
  BY DEF After
<1>3. \A n, m : Str(n) = Str(m) => n = m
  BY DEF Str, Token
<1> DEFINE b == After(k-1)
<1> HIDE DEF b
<1>4. /\ After(k) = [n \in Names(type) |->
                       IF pairs[k].key = Str(n) THEN pairs[k].value[1].val ELSE b[n]]
      /\ b = [n \in Names(type) |-> b[n]]
  BY <1>1, <1>2 DEF b
<1>5. ASSUME NEW n \in Names(type), pairs[k].key = Str(n)
      PROVE  After(k) = [b EXCEPT ![n] = pairs[k].value[1].val]
  BY <1>3, <1>4, <1>5
<1>6. ASSUME \A n \in Names(type) : pairs[k].key # Str(n) PROVE After(k) = b
  BY <1>4, <1>6
<1> QED BY <1>5, <1>6 DEF b

(* What is said of the input stays said. *)
LEMMA SameInput ==
  ASSUME UNCHANGED input
  PROVE  /\ type' = type /\ before' = before /\ given' = given
         /\ pairs' = pairs /\ payload' = payload
         /\ FromMap' = FromMap
         /\ \A n : Stops(n)' = Stops(n)
         /\ \A n : After(n)' = After(n)
BY DEF input, FromMap, Stops, Readable, After

LEMMA PlaceStep == StructTypeInv /\ PlaceInv /\ [StructNext]_structVars => PlaceInv'
<1> SUFFICES ASSUME StructTypeInv, PlaceInv, [StructNext]_structVars PROVE PlaceInv'
  OBVIOUS
<1>1. /\ InputInv /\ taken \in 0..Len(payload) /\ left \in Nat /\ missing \in Nat
      /\ step = "value" => key \in Names(type)
  BY DEF StructTypeInv, StructTypeOK
<1>2. UNCHANGED input
  BY DEF StructNext, Unmarshal, UnmarshalMsg, ReadMapHeader, ReadMapKey, ReadValue, Skip,
         Return, Refuse, structVars
<1>3. /\ type' = type /\ before' = before /\ given' = given
      /\ pairs' = pairs /\ payload' = payload
      /\ FromMap' = FromMap
      /\ \A n : Stops(n)' = Stops(n)
      /\ \A n : After(n)' = After(n)
  BY <1>2, SameInput
<1>4. /\ Len(payload) \in Nat
      /\ \A i \in 1..Len(payload) : payload[i] \in PayloadTokens
      /\ type \in Types /\ \A n \in Names(type) : Kind(type, n) \in Kinds
  BY <1>1, InputTypes, FieldKinds
<1>5. ASSUME FromMap
      PROVE  /\ IsMap(pairs) /\ Len(pairs) \in Nat /\ EndOf(pairs, 0) = 1
             /\ Len(payload) <= Len(Encoded(pairs))
             /\ Len(payload) = Len(Encoded(pairs)) => payload = Encoded(pairs)
             /\ Len(Encoded(pairs)) = EndOf(pairs, Len(pairs))
             /\ \A n \in 0..Len(pairs) : EndOf(pairs, n) \in Nat
             /\ \A n \in 1..Len(pairs) :
                  /\ Len(pairs[n].value) \in Nat /\ OneObject(pairs[n].value)
                  /\ Len(pairs[n].value) >= 1
                  /\ Holds(pairs[n].value[1]) = 0 => Len(pairs[n].value) = 1
                  /\ EndOf(pairs, n) = EndOf(pairs, n-1) + 1 + Len(pairs[n].value)
  BY <1>5, PayloadLayout, MapLayout, ObjectTokens
(* A refusal in pair k, with the pairs before it decoded. *)
<1>6. ASSUME Refuse, NEW k \in 1..Len(pairs), Stops(k), \A i \in 1..(k-1) : ~Stops(i),
             \/ ret' = After(k-1)
             \/ \E n \in Names(type) :
                  pairs[k].key = Str(n) /\ ret' = [After(k-1) EXCEPT ![n] = Zero(Kind(type, n))]
      PROVE  PlaceInv'
  <2>1. step' = "failed"
    BY <1>6 DEF Refuse
  <2>2. RefusedForCause'
    BY <1>3, <1>6, <2>1 DEF RefusedForCause
  <2> QED BY <2>1, <2>2 DEF PlaceInv, DecodesWhatItNames
(* Pair k has been decoded. *)
<1>7. ASSUME FromMap, payload # <<>>, step' = "key", left' = left, left <= Len(pairs),
             Begun >= 1, \A i \in 1..(Begun - 1) : ~Stops(i), Readable(pairs[Begun]),
             taken' = EndOf(pairs, Begun), taken' <= Len(payload), ret' = After(Begun)
      PROVE  PlaceInv'
  <2>1. Begun' = Begun /\ Begun \in 1..Len(pairs)
    BY <1>1, <1>3, <1>5, <1>7 DEF Begun
  <2>2. ~Stops(Begun)
    BY <1>7, <2>1, NoStop
  <2>3. DecodedUpTo(Begun)'
    <3>1. \A i \in 1..Begun : ~Stops(i)
      BY <1>7, <2>1, <2>2
    <3> HIDE DEF Begun
    <3> QED BY <1>3, <1>7, <2>1, <3>1 DEF DecodedUpTo
  <2>4. taken' = EndOf(pairs', Begun')
    BY <1>3, <1>7, <2>1
  <2> QED BY <1>3, <1>7, <2>3, <2>4 DEF PlaceInv, DecodesWhatItNames, RefusedForCause
<1>8. CASE Unmarshal
  <2>1. /\ step = "call" /\ ret' = ret /\ ret = before /\ taken' = taken /\ taken = 0
        /\ step' = IF type = Plain \/ given = "other" THEN "failed"
                   ELSE IF payload = <<>> THEN "done" ELSE "header"
    BY <1>8 DEF Unmarshal, PlaceInv
  <2>2. given = "raw" \/ payload = <<>>
    BY <1>1 DEF InputInv, FromMap
  <2>3. DecodesWhatItNames' /\ RefusedForCause'
    BY <1>3, <2>1 DEF DecodesWhatItNames, RefusedForCause
  <2> QED BY <1>3, <2>1, <2>2, <2>3 DEF PlaceInv
<1>9. CASE ReadMapHeader
  <2>1. /\ step = "header" /\ ret' = ret /\ ret = before /\ taken = 0
        /\ given = "raw" /\ payload # <<>>
    BY <1>9 DEF ReadMapHeader, PlaceInv
  <2>2. MoreToCome /\ NextToken = payload[1]
    BY <1>4, <2>1, InputTypes, EmptySeq, <1>1 DEF MoreToCome, NextToken
  <2>3. CASE NextToken.kind = "map"
    <3>1. FromMap
      BY <1>1, <2>1, <2>2, <2>3, StructsAssumption DEF InputInv
    <3>2. NextToken = Map(Len(pairs))
      <4>1. 1 \in 1..Len(payload)
        BY <1>4, <2>1, <2>2 DEF MoreToCome
      <4> QED BY <2>2, <3>1, <4>1, PayloadLayout, MapLayout
    <3>3. left' = Len(pairs) /\ taken' = 1 /\ step' = "key"
      BY <2>1, <2>2, <2>3, <3>2, <1>9 DEF ReadMapHeader, Take, Map, Token
    <3>4. Begun' = 0
      BY <1>3, <1>5, <3>1, <3>3 DEF Begun
    <3>5. before = After(0)
      <4>1. IsStruct(type, before)
        BY <1>1, InputTypes
      <4> QED BY <4>1 DEF After, IsStruct
    <3>6. DecodedUpTo(Begun)'
      BY <1>3, <2>1, <3>4, <3>5 DEF DecodedUpTo
    <3>7. taken' = EndOf(pairs', Begun') /\ left' <= Len(pairs')
      BY <1>3, <1>5, <3>1, <3>3, <3>4
    <3> QED BY <1>3, <2>1, <3>1, <3>3, <3>6, <3>7 DEF PlaceInv, DecodesWhatItNames, RefusedForCause
  <2>4. CASE NextToken.kind # "map"
    <3>1. step' = "failed"
      BY <1>9, <2>4 DEF ReadMapHeader, Refuse
    <3>2. RefusedForCause'
      BY <1>3, <2>1, <2>2, <2>4, <3>1 DEF RefusedForCause
    <3> QED BY <3>1, <3>2 DEF PlaceInv, DecodesWhatItNames
  <2> QED BY <2>3, <2>4
<1>10. CASE ReadMapKey
  <2>1. /\ step = "key" /\ left > 0 /\ ret' = ret /\ FromMap /\ payload # <<>>
        /\ left <= Len(pairs) /\ taken = EndOf(pairs, Begun) /\ DecodedUpTo(Begun)
    BY <1>10 DEF ReadMapKey, PlaceInv
  <2>2. PICK k \in 1..Len(pairs) : k - 1 = Begun
    <3>1. Begun + 1 \in 1..Len(pairs) /\ (Begun + 1) - 1 = Begun
      BY <1>1, <1>5, <2>1 DEF Begun
    <3> QED BY <3>1
  <2>3. EndOf(pairs, k-1) \in Nat /\ taken = EndOf(pairs, k-1) + 0
    BY <1>5, <2>1, <2>2
  <2>4. ret = After(k-1) /\ \A i \in 1..(k-1) : ~Stops(i)
    BY <2>1, <2>2 DEF DecodedUpTo
  <2>5. /\ MoreToCome => NextToken = pairs[k].key
        /\ ~MoreToCome => Stops(k)
    <3>1. 0 \in 0..Len(pairs[k].value)
      BY <1>5, <2>1, <2>2
    <3> QED BY <1>1, <2>1, <2>2, <2>3, <3>1, NextInMap
  <2>6. CASE MoreToCome /\ NextToken.kind = "string"
    <3>1. /\ taken' = taken + 1 /\ left' = left - 1 /\ key' = NextToken.val /\ missing' = 1
          /\ step' = IF key' \in Names(type) THEN "value" ELSE "skip"
      BY <1>10, <2>6 DEF ReadMapKey, Take
    <3>2. Begun' = k
      <4>1. Len(pairs) \in Nat /\ left' = left - 1 /\ pairs' = pairs
        BY <1>3, <1>5, <2>1, <3>1
      <4> QED BY <1>1, <2>2, <4>1 DEF Begun
    <3>3. pairs[k].key = Str(key')
      <4>1. NextToken \in PayloadTokens
        BY <1>1, <1>4, <2>6 DEF MoreToCome, NextToken
      <4>2. NextToken = [kind |-> "string", val |-> NextToken.val]
        BY <2>6, <4>1 DEF PayloadTokens, TokensOf, Nil, Token
      <4> QED BY <2>5, <2>6, <3>1, <4>2 DEF Str, Token
    <3>4. InPair'
      <4>1. DecodedUpTo(k-1)'
        BY <1>3, <2>1, <2>4 DEF DecodedUpTo
      <4> QED BY <1>3, <2>2, <3>2, <3>3, <4>1 DEF InPair
    <3>5. taken' = EndOf(pairs', Begun' - 1) + 1
      BY <1>3, <2>3, <3>1, <3>2
    <3>6. InValue'
      <4> DEFINE v == pairs[k].value
      <4>1. OneObject(v) /\ Len(v) \in Nat /\ Len(v) >= 1
        BY <1>5, <2>1, <2>2
      <4> HIDE DEF v
      <4>2. PICK o \in [0..Len(v) -> 0..Len(v)] : Opens(o, v)
        BY <4>1 DEF OneObject
      <4>3. 0 \in 0..(Len(v) - 1) /\ missing' = o[0] /\ taken' = EndOf(pairs, k - 1) + 1 + 0
        BY <2>3, <3>1, <4>1, <4>2 DEF Opens
      <4>4. pairs'[Begun'].value = v /\ EndOf(pairs', Begun' - 1) = EndOf(pairs, k - 1)
        BY <1>3, <3>2 DEF v
      <4> QED BY <4>2, <4>3, <4>4 DEF InValue
    <3>7. left' <= Len(pairs')
      BY <1>1, <1>3, <1>5, <2>1, <3>1
    <3> QED BY <1>3, <2>1, <3>1, <3>4, <3>5, <3>6, <3>7
            DEF PlaceInv, DecodesWhatItNames, RefusedForCause
  <2>7. CASE ~(MoreToCome /\ NextToken.kind = "string")
    <3>1. Refuse
      BY <1>10, <2>7 DEF ReadMapKey
    <3>2. Stops(k)
      BY <2>5, <2>7 DEF Stops, Readable
    <3> QED BY <1>6, <2>1, <2>2, <2>4, <3>1, <3>2
  <2> QED BY <2>6, <2>7
<1>11. ASSUME ReadValue \/ Skip
       PROVE  /\ FromMap /\ payload # <<>> /\ left <= Len(pairs) /\ Begun \in 1..Len(pairs)
              /\ pairs[Begun].key = Str(key)
              /\ ret = After(Begun - 1) /\ \A i \in 1..(Begun - 1) : ~Stops(i)
              /\ EndOf(pairs, Begun - 1) \in Nat
              /\ EndOf(pairs, Begun) = EndOf(pairs, Begun - 1) + 1 + Len(pairs[Begun].value)
              /\ Len(pairs[Begun].value) \in Nat
  <2>1. step \in {"value", "skip"}
    BY <1>11 DEF ReadValue, Skip
  <2>2. FromMap /\ payload # <<>> /\ left <= Len(pairs) /\ InPair
    BY <2>1 DEF PlaceInv
  <2>3. Begun \in 1..Len(pairs) /\ Begun - 1 \in 0..Len(pairs)
    BY <1>1, <1>5, <2>2 DEF Begun, InPair
  <2> QED BY <1>5, <2>2, <2>3 DEF InPair, DecodedUpTo
<1>12. CASE ReadValue
  <2> DEFINE k == Begun
             v == pairs[k].value
  <2>1. step = "value" /\ taken = EndOf(pairs, k-1) + 1 /\ key \in Names(type)
    BY <1>1, <1>12 DEF ReadValue, PlaceInv
  <2>2. /\ k \in 1..Len(pairs) /\ OneObject(v) /\ Len(v) \in Nat /\ Len(v) >= 1
        /\ Holds(v[1]) = 0 => Len(v) = 1
    BY <1>5, <1>11, <1>12
  <2> HIDE DEF v
  <2>3. /\ MoreToCome => NextToken = v[1]
        /\ ~MoreToCome => Stops(k)
    <3>1. 1 \in 0..Len(v)
      BY <2>2
    <3> QED BY <1>1, <1>11, <1>12, <2>1, <3>1, NextInMap DEF v
  <2>4. Str(key).kind = "string" /\ Str(key).val = key
    BY DEF Str, Token
  <2>5. CASE MoreToCome /\ Fits(Kind(type, key), NextToken)
    <3>1. Holds(NextToken) = 0
      <4>1. NextToken \in PayloadTokens
        BY <1>1, <1>4, <2>5 DEF MoreToCome, NextToken
      <4> QED BY <1>4, <2>1, <2>5, <4>1, FittingValues
    <3>2. Len(v) = 1
      BY <2>2, <2>3, <2>5, <3>1
    <3>3. /\ taken' = taken + 1 /\ step' = "key" /\ left' = left
          /\ ret' = [ret EXCEPT ![key] = NextToken.val]
      BY <1>12, <2>5 DEF ReadValue, Take
    <3>4. Readable(pairs[k])
      BY <1>11, <1>12, <2>3, <2>4, <2>5 DEF Readable, v
    <3>5. ret' = After(k)
      <4>1. k \in Nat \ {0}
        BY <2>2
      <4> HIDE DEF k
      <4> QED BY <1>11, <1>12, <2>1, <2>3, <2>5, <3>3, <4>1, AfterPair DEF v, k
    <3>6. taken' = EndOf(pairs, k)
      BY <1>11, <1>12, <2>1, <3>2, <3>3 DEF v
    <3>7. taken' <= Len(payload)
      BY <1>1, <1>4, <2>5, <3>3 DEF MoreToCome
    <3> QED BY <1>7, <1>11, <1>12, <2>2, <3>3, <3>4, <3>5, <3>6, <3>7
  <2>6. CASE ~(MoreToCome /\ Fits(Kind(type, key), NextToken))
    <3>1. Refuse /\ ret' = [After(k-1) EXCEPT ![key] = Zero(Kind(type, key))]
      BY <1>11, <1>12, <2>6 DEF ReadValue
    <3>2. Stops(k)
      BY <1>11, <1>12, <2>1, <2>3, <2>4, <2>6 DEF Stops, Readable, v
    <3> QED BY <1>6, <1>11, <1>12, <2>1, <2>2, <3>1, <3>2
  <2> QED BY <2>5, <2>6
<1>13. CASE Skip
  <2> DEFINE k == Begun
             v == pairs[k].value
  <2>1. step = "skip" /\ key \notin Names(type) /\ InValue
    BY <1>13 DEF Skip, PlaceInv
  <2>2. k \in 1..Len(pairs) /\ Len(v) \in Nat /\ ret' = ret
    BY <1>11, <1>13 DEF Skip
  <2>3. PICK o \in [0..Len(v) -> 0..Len(v)], j \in 0..(Len(v) - 1) :
          Opens(o, v) /\ missing = o[j] /\ taken = EndOf(pairs, k-1) + 1 + j
    BY <2>1 DEF InValue
  <2> HIDE DEF v
  <2>4. /\ MoreToCome => NextToken = v[j+1]
        /\ ~MoreToCome => Stops(k)
    <3>1. j + 1 \in 0..Len(v) /\ j + 1 # 0 /\ taken = EndOf(pairs, k-1) + (j + 1)
      BY <1>11, <1>13, <2>2, <2>3
    <3> QED BY <1>1, <1>11, <1>13, <3>1, NextInMap DEF v
  <2>5. CASE MoreToCome
    <3>1. /\ taken' = taken + 1 /\ missing' = missing - 1 + Holds(NextToken)
          /\ step' = IF missing' = 0 THEN "key" ELSE "skip"
          /\ left' = left /\ key' = key
      BY <1>13, <2>5 DEF Skip, Take
    <3>2. j + 1 \in 1..Len(v) /\ (j + 1) - 1 = j
      BY <2>2, <2>3
    <3>3. missing' = o[j+1]
      <4>1. o[j+1] = o[j] - 1 + Holds(v[j+1])
        BY <2>3, <3>2 DEF Opens
      <4> QED BY <2>3, <2>4, <2>5, <3>1, <4>1
    <3>4. taken' = EndOf(pairs, k-1) + 1 + (j + 1) /\ taken' <= Len(payload)
      <4>1. EndOf(pairs, k-1) \in Nat
        BY <1>11, <1>13
      <4>2. taken < Len(payload)
        BY <2>5 DEF MoreToCome
      <4>3. j \in Nat /\ taken \in Nat
        BY <1>1, <1>4, <2>2
      <4> HIDE DEF k
      <4>4. taken' = EndOf(pairs, k-1) + 1 + (j + 1)
        BY <2>3, <3>1, <4>1, <4>3
      <4>5. taken' <= Len(payload)
        BY <1>4, <3>1, <4>2, <4>3
      <4> QED BY <4>4, <4>5
    <3>5. CASE missing' = 0
      <4>1. j + 1 = Len(v)
        <5>1. ASSUME j + 1 # Len(v) PROVE FALSE
          <6>1. j + 2 \in 1..Len(v) /\ (j + 2) - 1 = j + 1
            BY <2>2, <2>3, <5>1
          <6>2. o[j+1] > 0
            BY <2>3, <6>1 DEF Opens
          <6> QED BY <3>3, <3>5, <6>2
        <5> QED BY <5>1
      <4>2. taken' = EndOf(pairs, k)
        BY <1>11, <1>13, <3>4, <4>1 DEF v
      <4>3. Readable(pairs[k])
        BY <1>11, <1>13, <2>1 DEF Readable, Str, Token
      <4>4. After(k) = After(k-1)
        <5>1. \A n \in Names(type) : pairs[k].key # Str(n)
          BY <1>11, <1>13, <2>1 DEF Str, Token
        <5>2. k \in Nat \ {0}
          BY <2>2
        <5> HIDE DEF k
        <5> QED BY <5>1, <5>2, AfterPair
      <4> QED BY <1>7, <1>11, <1>13, <2>2, <3>1, <3>4, <3>5, <4>2, <4>3, <4>4
    <3>6. CASE missing' # 0
      <4>1. j + 1 # Len(v)
        BY <2>3, <3>3, <3>6 DEF Opens
      <4>2. j + 1 \in 0..(Len(v) - 1)
        BY <2>2, <2>3, <4>1
      <4>3. Begun' = k /\ pairs'[Begun'].value = v
        BY <1>3, <3>1 DEF Begun, v
      <4>4. InValue'
        BY <1>3, <2>3, <3>3, <3>4, <4>2, <4>3 DEF InValue
      <4>5. InPair'
        <5>1. Begun' >= 1 /\ pairs'[Begun'].key = Str(key')
          BY <1>3, <1>11, <1>13, <3>1, <4>3
        <5>2. DecodedUpTo(Begun - 1)'
          BY <1>3, <1>11, <1>13, <2>2, <4>3 DEF DecodedUpTo
        <5> QED BY <5>1, <5>2 DEF InPair
      <4> QED BY <1>3, <1>11, <1>13, <2>1, <3>1, <3>6, <4>4, <4>5
              DEF PlaceInv, DecodesWhatItNames, RefusedForCause
    <3> QED BY <3>5, <3>6
  <2>6. CASE ~MoreToCome
    <3>1. Refuse
      BY <1>13, <2>6 DEF Skip
    <3> QED BY <1>6, <1>11, <1>13, <2>2, <2>4, <2>6, <3>1
  <2> QED BY <2>5, <2>6
<1>14. CASE Return
  <2>1. /\ step = "key" /\ left = 0 /\ step' = "done" /\ taken' = taken /\ ret' = ret
        /\ FromMap /\ payload # <<>> /\ taken = EndOf(pairs, Begun) /\ ret = After(Begun)
    BY <1>14 DEF Return, PlaceInv, DecodedUpTo
  <2>2. Begun = Len(pairs)
    BY <1>5, <2>1 DEF Begun
  <2>3. taken = Len(payload) /\ payload = Encoded(pairs)
    BY <1>1, <1>4, <1>5, <2>1, <2>2
  <2>4. DecodesWhatItNames'
    BY <1>3, <2>1, <2>2, <2>3 DEF DecodesWhatItNames
  <2> QED BY <2>1, <2>4 DEF PlaceInv, RefusedForCause
<1>15. CASE UNCHANGED structVars
  <2>1. UNCHANGED <<step, taken, left, key, missing, ret>>
    BY <1>15 DEF structVars
  <2>2. Begun' = Begun /\ \A n : DecodedUpTo(n)' = DecodedUpTo(n)
    BY <1>3, <2>1 DEF Begun, DecodedUpTo
  <2>3. InPair' = InPair /\ InValue' = InValue
    BY <1>3, <2>1, <2>2 DEF InPair, InValue
  <2>4. DecodesWhatItNames' = DecodesWhatItNames /\ RefusedForCause' = RefusedForCause
    BY <1>3, <2>1 DEF DecodesWhatItNames, RefusedForCause
  <2> QED BY <1>3, <2>1, <2>2, <2>3, <2>4 DEF PlaceInv
<1> QED BY <1>8, <1>9, <1>10, <1>12, <1>13, <1>14, <1>15 DEF StructNext, UnmarshalMsg

LEMMA PlaceInductive == StructSpec => [](StructTypeInv /\ PlaceInv)
<1>1. StructInit => StructTypeInv
  BY InitialTypes
<1>2. StructInit => PlaceInv
  BY DEF StructInit, PlaceInv, DecodesWhatItNames, RefusedForCause
<1> QED BY <1>1, <1>2, StructTypeStep, PlaceStep, PTL DEF StructSpec

(* Whatever the structs, however long the payload and however deep its     *)
(* values: a payload that is decoded has been read to its end and leaves   *)
(* every field as it says, and those it does not name as they were.        *)
THEOREM DecodedAsNamed == StructSpec => []DecodesWhatItNames
<1>1. PlaceInv => DecodesWhatItNames
  BY DEF PlaceInv
<1> QED BY <1>1, PlaceInductive, PTL

(* In the same generality: where decoding ends early, the payload was cut  *)
(* off right there or says something the struct cannot hold, and all that  *)
(* came before is decoded.                                                 *)
THEOREM NeverRefusedWithoutCause == StructSpec => []RefusedForCause
<1>1. PlaceInv => RefusedForCause
  BY DEF PlaceInv
<1> QED BY <1>1, PlaceInductive, PTL

(* A set of numbers up to k has a greatest one. *)
LEMMA GreatestElement ==
  ASSUME NEW k \in Nat, NEW U \in SUBSET (1..k), U # {}
  PROVE  Max(U) \in U
<1> DEFINE V == {n \in Nat : k - n \in U}
<1>1. V # {}
  <2>1. PICK u \in U : TRUE
    OBVIOUS
  <2>2. k - u \in Nat /\ k - (k - u) = u
    OBVIOUS
  <2> QED BY <2>2
<1>2. PICK n \in V : \A m \in V : n <= m
  <2> HIDE DEF V
  <2>1. V \in SUBSET Nat
    BY DEF V
  <2> QED BY <1>1, <2>1, LeastElement
<1>3. k - n \in U
  OBVIOUS
<1>4. ASSUME NEW u \in U PROVE k - n >= u
  <2>1. k - u \in Nat /\ k - (k - u) = u
    OBVIOUS
  <2>2. n <= k - u
    BY <1>2, <2>1
  <2> QED BY <2>1, <2>2
<1> QED BY <1>3, <1>4 DEF Max

(* What a struct is marshaled to names each of its fields. *)
LEMMA MarshaledFields ==
  ASSUME NEW g, IsStruct(type, g), pairs = MarshalMsg(type, g), Len(pairs) \in Nat
  PROVE  After(Len(pairs)) = g
<1> DEFINE F == type.fields
           naming(n) == {i \in 1..Len(pairs) : pairs[i].key = Str(n)}
<1>1. pairs = [i \in 1..Len(F) |-> [key |-> Str(F[i].name),
                                    value |-> <<TokenOf(F[i].kind, g[F[i].name])>>]]
  BY DEF MarshalMsg
<1>2. Names(type) = {F[i].name : i \in 1..Len(F)}
  BY DEF Names
<1> HIDE DEF F
<1>3. 1..Len(pairs) = 1..Len(F)
  BY <1>1
<1>4. ASSUME NEW n \in Names(type)
      PROVE  naming(n) # {} /\ pairs[Max(naming(n))].value[1].val = g[n]
  <2>1. PICK i \in 1..Len(F) : F[i].name = n
    BY <1>2
  <2>2. i \in naming(n)
    BY <1>1, <1>3, <2>1
  <2> DEFINE m == Max(naming(n))
  <2>3. naming(n) \in SUBSET (1..Len(pairs))
    OBVIOUS
  <2>4. m \in naming(n)
    <3> HIDE DEF naming
    <3> QED BY <2>2, <2>3, GreatestElement
  <2> HIDE DEF m
  <2>5. m \in 1..Len(F) /\ Str(F[m].name) = Str(n)
    BY <1>1, <1>3, <2>4
  <2>6. F[m].name = n
    BY <2>5 DEF Str, Token
  <2>7. pairs[m].value = <<TokenOf(F[m].kind, g[n])>>
    BY <1>1, <2>5, <2>6
  <2>8. TokenOf(F[m].kind, g[n]).val = g[n]
    BY DEF TokenOf, Str, Number, Token
  <2> QED BY <2>2, <2>7, <2>8 DEF m
<1>5. After(Len(pairs)) = [n \in Names(type) |->
                             IF naming(n) = {} THEN before[n]
                             ELSE pairs[Max(naming(n))].value[1].val]
  BY DEF After
<1> HIDE DEF naming
<1>6. After(Len(pairs)) = [n \in Names(type) |-> g[n]]
  BY <1>4, <1>5
<1> QED BY <1>6 DEF IsStruct

(* A struct comes out as it went in, whatever was there before: what       *)
(* MarshalMsg has written of it, UnmarshalMsg reads back to the same.      *)
THEOREM StructRoundTrip ==
  StructSpec =>
    [](step = "done" /\ payload # <<>> =>
         \A g : IsStruct(type, g) /\ pairs = MarshalMsg(type, g) => ret = g)
<1>1. StructTypeInv /\ PlaceInv =>
        (step = "done" /\ payload # <<>> =>
           \A g : IsStruct(type, g) /\ pairs = MarshalMsg(type, g) => ret = g)
  <2> SUFFICES ASSUME StructTypeInv, PlaceInv, step = "done", payload # <<>>,
                      NEW g, IsStruct(type, g), pairs = MarshalMsg(type, g)
               PROVE  ret = g
    OBVIOUS
  <2>1. ret = After(Len(pairs)) /\ payload = Encoded(pairs)
    BY DEF PlaceInv, DecodesWhatItNames
  <2>2. Len(pairs) \in Nat
    BY PairsLength DEF StructTypeInv
  <2> QED BY <2>1, <2>2, MarshaledFields
<1> QED BY <1>1, PlaceInductive, PTL

-----------------------------------------------------------------------------
(* Messages *)

USE WireAssumption

(* The tokens that have been read. *)
Got == SubSeq(frame, 1, pos)

(* What a message starts with, up to each of the payloads and the error. *)
UpToArgs(m)   == <<Array(5), Number(m.id), Str(m.fn)>>
UpToResult(m) == UpToArgs(m) \o EncodeRaw(m.args)
UpToError(m)  == UpToResult(m) \o EncodeRaw(m.result)

(* What has been read is the beginning of what z would be encoded to. *)
GotInv ==
  CASE at = "header"   -> pos = 0
    [] at = "id"       -> Got = <<Array(5)>>
    [] at = "fn"       -> Got = <<Array(5), Number(z.id)>>
    [] at = "args"     -> Got = UpToArgs(z) \o raw
    [] at = "result"   -> Got = UpToResult(z) \o raw
    [] at = "error"    -> Got = UpToError(z)
    [] at = "errorMsg" -> Got = UpToError(z) \o <<Array(1)>>
    [] at = "done"     -> Got = EncodeMsg(z)
    [] OTHER           -> TRUE

(* The payload being read is the one at hand so far, and as many objects   *)
(* are open as that takes.                                                 *)
Reading(part) ==
  LET p == EncodeRaw(part)
  IN  /\ Len(raw) < Len(p)
      /\ raw = SubSeq(p, 1, Len(raw))
      /\ \E o \in [0..Len(p) -> Nat] : Opens(o, p) /\ open = o[Len(raw)]

(* These fields are what they were in the message that was sent. *)
Decoded(fields) == \A f \in fields : z[f] = Normal(sent)[f]

(* s is how f starts. *)
StartsWith(f, s) == Len(s) <= Len(f) /\ \A i \in 1..Len(s) : f[i] = s[i]

(* A message that arrives whole is decoded as far as the decoder has come. *)
WholeInv ==
  damage \in {"none", "more"} /\ at # "idle" =>
    /\ sent \in Sendable
    /\ StartsWith(frame, EncodeMsg(sent))
    /\ CASE at = "header"   -> TRUE
         [] at = "id"       -> TRUE
         [] at = "fn"       -> Decoded({"id"})
         [] at = "args"     -> Decoded({"id", "fn"}) /\ Reading(sent.args)
         [] at = "result"   -> Decoded({"id", "fn", "args"}) /\ Reading(sent.result)
         [] at = "error"    -> Decoded({"id", "fn", "args", "result"})
         [] at = "errorMsg" -> /\ Decoded({"id", "fn", "args", "result"})
                               /\ sent.err # NoError
         [] at = "done"     -> z = Normal(sent)
         [] OTHER           -> FALSE

-----------------------------------------------------------------------------
(* Tokens and payloads *)

(* What kinds of tokens there are, and how many objects each is made of. *)
LEMMA TokenKinds ==
  ASSUME NEW t \in Tokens
  PROVE  /\ Holds(t) \in Nat
         /\ t.kind = "number" => t.val \in Int /\ t = Number(t.val)
         /\ t.kind = "string" => t.val \in Strings /\ t = Str(t.val)
BY DEF Tokens, TokensOf, Holds, Nil, Number, Str, Token

(* The tokens a message is written with. *)
LEMMA SomeTokens ==
  /\ Nil \in Tokens
  /\ \A n \in Nat : Array(n) \in Tokens
  /\ \A n \in Int : Number(n) \in Tokens
  /\ \A s \in Strings : Str(s) \in Tokens
BY DEF Tokens, TokensOf, Nil, Array, Number, Str, Token

(* The kinds of the tokens tell them apart. *)
LEMMA TokensDiffer ==
  ASSUME NEW n, NEW s
  PROVE  /\ Array(n).kind = "array" /\ Number(n).kind = "number" /\ Number(n).val = n
         /\ Str(s).kind = "string" /\ Str(s).val = s /\ Nil.kind = "nil"
BY DEF Nil, Array, Number, Str, Token

(* On the wire a payload is never empty. *)
LEMMA EncodeRawType ==
  ASSUME NEW p \in Seq(Tokens)
  PROVE  EncodeRaw(p) \in Seq(Tokens) /\ Len(EncodeRaw(p)) > 0
<1>1. CASE p = <<>>
  BY <1>1, SomeTokens DEF EncodeRaw
<1>2. CASE p # <<>>
  BY <1>2, EmptySeq DEF EncodeRaw
<1> QED BY <1>1, <1>2

(* What is read as a payload is what encodes to it. *)
LEMMA DecodedRawInverse ==
  ASSUME NEW p \in Seq(Tokens), p # <<>>
  PROVE  /\ DecodedRaw(p) \in Seq(Tokens)
         /\ EncodeRaw(DecodedRaw(p)) = p
<1>1. CASE p = <<Nil>>
  BY <1>1, EmptySeq DEF EncodeRaw, DecodedRaw
<1>2. CASE p # <<Nil>>
  BY <1>2 DEF EncodeRaw, DecodedRaw
<1> QED BY <1>1, <1>2

(* A message is encoded to tokens, as many as its parts have. *)
LEMMA EncodeMsgType ==
  ASSUME NEW m \in MessageType
  PROVE  /\ UpToArgs(m) \in Seq(Tokens) /\ UpToResult(m) \in Seq(Tokens)
         /\ UpToError(m) \in Seq(Tokens) /\ EncodeError(m.err) \in Seq(Tokens)
         /\ EncodeMsg(m) = UpToError(m) \o EncodeError(m.err)
         /\ EncodeMsg(m) \in Seq(Tokens)
<1>1. UpToArgs(m) \in Seq(Tokens)
  BY SomeTokens DEF MessageType, UpToArgs
<1>2. EncodeRaw(m.args) \in Seq(Tokens) /\ EncodeRaw(m.result) \in Seq(Tokens)
  BY EncodeRawType DEF MessageType
<1>3. UpToResult(m) \in Seq(Tokens)
  BY <1>1, <1>2, ConcatProperties DEF UpToResult
<1>4. UpToError(m) \in Seq(Tokens)
  BY <1>2, <1>3, ConcatProperties DEF UpToError
<1>5. EncodeError(m.err) \in Seq(Tokens)
  BY SomeTokens DEF MessageType, EncodeError
<1>6. EncodeMsg(m) = UpToError(m) \o EncodeError(m.err)
  BY DEF EncodeMsg, UpToError, UpToResult, UpToArgs
<1> QED BY <1>1, <1>3, <1>4, <1>5, <1>6, ConcatProperties

(* s \o t is s and then t. *)
LEMMA ConcatStarts ==
  ASSUME NEW s \in Seq(Tokens), NEW t \in Seq(Tokens)
  PROVE  /\ StartsWith(s \o t, s)
         /\ Len(s \o t) = Len(s) + Len(t)
         /\ \A j \in 1..Len(t) : (s \o t)[Len(s) + j] = t[j]
<1>1. Len(s) \in Nat /\ Len(t) \in Nat
  BY LenProperties
<1>2. ASSUME NEW j \in 1..Len(t) PROVE (s \o t)[Len(s) + j] = t[j]
  <2>1. Len(s) + j \in 1..(Len(s) + Len(t)) /\ ~(Len(s) + j <= Len(s))
    BY <1>1
  <2> QED BY <1>1, <2>1, ConcatProperties
<1> QED BY <1>1, <1>2, ConcatProperties DEF StartsWith

(* A token more of the frame. *)
LEMMA ReadOne ==
  ASSUME frame \in Seq(Tokens), pos \in 0..Len(frame), More
  PROVE  /\ Peek \in Tokens
         /\ pos + 1 \in 0..Len(frame)
         /\ Got \in Seq(Tokens) /\ Len(Got) = pos
         /\ SubSeq(frame, 1, pos + 1) = Append(Got, Peek)
<1>1. Peek \in Tokens /\ pos + 1 \in 0..Len(frame) /\ pos + 1 \in 1..Len(frame)
  BY ElementOfSeq DEF More, Peek
<1>2. Got \in Seq(Tokens) /\ Len(Got) = pos
  BY SubSeqProperties DEF Got
<1>3. SubSeq(frame, 1, pos + 1) = Append(Got, Peek)
  BY <1>1, SubSeqRecursiveSecond DEF Got, Peek
<1> QED BY <1>1, <1>2, <1>3

-----------------------------------------------------------------------------
(* Types *)

(* What arrives is tokens, and starts with the message when it is whole. *)
LEMMA Arrivals ==
  ASSUME NEW m \in Sendable,
         ArriveWhole(m) \/ ArriveWithMore(m) \/ ArriveCut(m) \/ ArriveChanged(m)
  PROVE  \E what \in {"none", "more", "cut", "changed"}, tokens \in Seq(Tokens) :
           /\ Arrive(m, what, tokens)
           /\ what \in {"none", "more"} => StartsWith(tokens, EncodeMsg(m))
<1>1. EncodeMsg(m) \in Seq(Tokens)
  BY EncodeMsgType
<1>2. CASE ArriveWhole(m)
  BY <1>1, <1>2 DEF ArriveWhole, StartsWith
<1>3. CASE ArriveWithMore(m)
  <2>1. PICK n \in Sendable : Arrive(m, "more", EncodeMsg(m) \o EncodeMsg(n))
    BY <1>3 DEF ArriveWithMore
  <2>2. EncodeMsg(n) \in Seq(Tokens)
    BY EncodeMsgType
  <2>3. /\ EncodeMsg(m) \o EncodeMsg(n) \in Seq(Tokens)
        /\ StartsWith(EncodeMsg(m) \o EncodeMsg(n), EncodeMsg(m))
    BY <1>1, <2>2, ConcatStarts, ConcatProperties
  <2> QED BY <2>1, <2>2, <2>3
<1>4. CASE ArriveCut(m)
  <2>1. PICK n \in 0..(Len(EncodeMsg(m)) - 1) : Arrive(m, "cut", SubSeq(EncodeMsg(m), 1, n))
    BY <1>4 DEF ArriveCut
  <2>2. SubSeq(EncodeMsg(m), 1, n) \in Seq(Tokens)
    BY <1>1, LenProperties, ElementOfSeq, SubSeqProperties
  <2> QED BY <2>1, <2>2
<1>5. CASE ArriveChanged(m)
  <2>1. PICK i \in 1..Len(EncodeMsg(m)), t \in Junk :
          Arrive(m, "changed", [EncodeMsg(m) EXCEPT ![i] = t])
    BY <1>5 DEF ArriveChanged
  <2>2. [EncodeMsg(m) EXCEPT ![i] = t] \in Seq(Tokens)
    BY <1>1, ExceptSeq
  <2> QED BY <2>1, <2>2
<1> QED BY <1>2, <1>3, <1>4, <1>5

(* A field is set to something in its range. *)
LEMMA SetField ==
  ASSUME NEW m \in MessageType
  PROVE  /\ \A v \in Nat : [m EXCEPT !.id = v] \in MessageType
         /\ \A v \in Strings : [m EXCEPT !.fn = v] \in MessageType
         /\ \A v \in Strings \cup {NoError} : [m EXCEPT !.err = v] \in MessageType
         /\ \A v \in Seq(Tokens), field \in {"args", "result"} :
              [m EXCEPT ![field] = v] \in MessageType
BY DEF MessageType

(* One step per action. *)
LEMMA TypeInductive ==
  ASSUME TypeOK, [Next]_vars
  PROVE  TypeOK'
<1> USE DEF TypeOK
<1>1. ASSUME NEW m \in Sendable,
             ArriveWhole(m) \/ ArriveWithMore(m) \/ ArriveCut(m) \/ ArriveChanged(m)
      PROVE  TypeOK'
  <2>1. PICK what \in {"none", "more", "cut", "changed"}, tokens \in Seq(Tokens) :
          Arrive(m, what, tokens)
    BY <1>1, Arrivals
  <2> QED BY <2>1, LenProperties DEF Arrive
<1>2. CASE DecodeHeader
  BY <1>2, ReadOne DEF DecodeHeader, ReadArrayHeader, Read, Fail, arrival
<1>3. CASE DecodeID
  <2>1. More => Peek \in Tokens /\ pos + 1 \in 0..Len(frame)
    BY ReadOne
  <2>2. More /\ Peek.kind = "number" => Peek.val \in Int
    BY <2>1, TokenKinds
  <2>3. PICK v \in Nat : z' = [z EXCEPT !.id = v]
    <3>1. CASE More /\ Peek.kind = "number" /\ Peek.val >= 0
      <4>1. Peek.val \in Nat
        BY <2>2, <3>1
      <4> QED BY <1>3, <3>1, <4>1 DEF DecodeID
    <3>2. CASE ~(More /\ Peek.kind = "number" /\ Peek.val >= 0)
      BY <1>3, <3>2 DEF DecodeID
    <3> QED BY <3>1, <3>2
  <2>4. z' \in MessageType
    BY <2>3, SetField
  <2>5. UNCHANGED <<arrival, raw, open>>
    BY <1>3 DEF DecodeID, Fail
  <2>6. (at' = "fn" /\ More /\ pos' = pos + 1) \/ (at' = "failed" /\ pos' = pos)
    BY <1>3 DEF DecodeID, Read, Fail
  <2> QED BY <2>1, <2>4, <2>5, <2>6 DEF arrival
<1>4. CASE DecodeFunc
  <2>1. More => Peek \in Tokens /\ pos + 1 \in 0..Len(frame)
    BY ReadOne
  <2>2. More /\ Peek.kind = "string" => Peek.val \in Strings
    BY <2>1, TokenKinds
  <2>3. <<>> \in Seq(Tokens)
    BY EmptySeq
  <2>4. z' \in MessageType
    BY <1>4, <2>2, SetField DEF DecodeFunc
  <2>5. raw' \in Seq(Tokens) /\ open' \in Nat /\ pos' \in 0..Len(frame)
    <3>1. CASE More /\ Peek.kind = "string"
      <4>1. raw' = <<>> /\ open' = 1 /\ pos' = pos + 1
        BY <1>4, <3>1 DEF DecodeFunc, Read
      <4> QED BY <2>1, <2>3, <3>1, <4>1
    <3>2. CASE ~(More /\ Peek.kind = "string")
      BY <1>4, <3>2 DEF DecodeFunc, Fail
    <3> QED BY <3>1, <3>2
  <2>6. UNCHANGED arrival /\ at' \in {"args", "failed"}
    BY <1>4 DEF DecodeFunc, Fail
  <2> QED BY <2>4, <2>5, <2>6 DEF arrival
<1>5. ASSUME NEW field \in {"args", "result"}, NEW then \in {"result", "error"},
             DecodeRaw(field, then)
      PROVE  TypeOK'
  <2>1. CASE ~More
    BY <1>5, <2>1, SetField DEF DecodeRaw, Fail, arrival
  <2>2. CASE More
    <3>1. Peek \in Tokens /\ pos + 1 \in 0..Len(frame) /\ Holds(Peek) \in Nat
      BY <2>2, ReadOne, TokenKinds
    <3>2. Append(raw, Peek) \in Seq(Tokens) /\ Append(raw, Peek) # <<>>
      BY <3>1, AppendProperties
    <3>3. DecodedRaw(Append(raw, Peek)) \in Seq(Tokens) /\ <<>> \in Seq(Tokens)
      BY <3>2, DecodedRawInverse, EmptySeq
    <3>4. StillOpen(Peek) \in Int
      BY <3>1 DEF StillOpen
    <3>5. z' \in MessageType
      BY <1>5, <2>2, <3>3, SetField DEF DecodeRaw
    <3>6. raw' \in Seq(Tokens) /\ open' \in Nat /\ pos' \in 0..Len(frame)
      <4>1. CASE StillOpen(Peek) > 0
        BY <1>5, <2>2, <3>1, <3>2, <3>4, <4>1 DEF DecodeRaw, Read
      <4>2. CASE ~(StillOpen(Peek) > 0)
        <5>1. raw' = <<>> /\ open' = 1 /\ pos' = pos + 1
          BY <1>5, <2>2, <4>2 DEF DecodeRaw, Read
        <5> QED BY <3>1, <3>3, <5>1
      <4> QED BY <4>1, <4>2
    <3>7. UNCHANGED arrival /\ at' \in {at, "result", "error"}
      BY <1>5, <2>2 DEF DecodeRaw
    <3> QED BY <3>5, <3>6, <3>7 DEF arrival
  <2> QED BY <2>1, <2>2
<1>6. CASE DecodeErrorNil
  BY <1>6, ReadOne DEF DecodeErrorNil, Read, arrival, MessageType
<1>7. CASE DecodeErrorHeader
  BY <1>7, ReadOne DEF DecodeErrorHeader, Read, Fail, arrival, MessageType
<1>8. CASE DecodeErrorMsg
  <2>1. More => Peek \in Tokens /\ pos + 1 \in 0..Len(frame)
    BY ReadOne
  <2>2. More /\ Peek.kind = "string" => Peek.val \in Strings
    BY <2>1, TokenKinds
  <2> QED BY <1>8, <2>1, <2>2 DEF DecodeErrorMsg, Read, Fail, arrival, MessageType
<1>9. CASE FromWire
  BY <1>9, EmptySeq DEF FromWire, arrival, MessageType
<1>10. CASE UNCHANGED vars
  BY <1>10 DEF vars, arrival
<1> QED BY <1>1, <1>2, <1>3, <1>4, <1>5, <1>6, <1>7, <1>8, <1>9, <1>10 DEF Next, Decode

(* Nothing has arrived. *)
LEMMA TypeInit == Init => TypeOK
BY EmptySeq DEF Init, Empty, TypeOK, MessageType

(* For messages of any size and any tokens in the place of others, every   *)
(* variable keeps to its range, and the decoder to the frame.              *)
THEOREM TypeCorrect == Spec => []TypeOK
BY TypeInit, TypeInductive, PTL DEF Spec

-----------------------------------------------------------------------------
(* What has been read *)

(* A step that reads a token. *)
LEMMA GotGrows ==
  ASSUME TypeOK, More, Read, UNCHANGED arrival
  PROVE  Got' = Append(Got, Peek) /\ Got \in Seq(Tokens) /\ Peek \in Tokens
<1>1. frame' = frame /\ pos' = pos + 1
  BY DEF Read, arrival
<1> QED BY <1>1, ReadOne DEF TypeOK, Got

(* A token behind one or two others. *)
LEMMA ShortAppend ==
  ASSUME NEW a \in Tokens, NEW b \in Tokens, NEW c \in Tokens
  PROVE  Append(<<a>>, b) = <<a, b>> /\ Append(<<a, b>>, c) = <<a, b, c>>
<1>1. <<a>> \in Seq(Tokens) /\ <<a, b>> \in Seq(Tokens) /\ <<a, b, c>> \in Seq(Tokens)
  OBVIOUS
<1>2. Append(<<a>>, b) = <<a, b>>
  <2>1. /\ Append(<<a>>, b) \in Seq(Tokens) /\ Len(Append(<<a>>, b)) = 2
        /\ Append(<<a>>, b)[1] = a /\ Append(<<a>>, b)[2] = b
    BY <1>1, AppendProperties
  <2>2. \A i \in 1..2 : Append(<<a>>, b)[i] = <<a, b>>[i]
    BY <2>1
  <2> QED BY <1>1, <2>1, <2>2, SeqEqual
<1>3. Append(<<a, b>>, c) = <<a, b, c>>
  <2>1. /\ Append(<<a, b>>, c) \in Seq(Tokens) /\ Len(Append(<<a, b>>, c)) = 3
        /\ Append(<<a, b>>, c)[1] = a /\ Append(<<a, b>>, c)[2] = b
        /\ Append(<<a, b>>, c)[3] = c
    BY <1>1, AppendProperties
  <2>2. \A i \in 1..3 : Append(<<a, b>>, c)[i] = <<a, b, c>>[i]
    BY <2>1
  <2> QED BY <1>1, <2>1, <2>2, SeqEqual
<1> QED BY <1>2, <1>3

(* Behind what has been read of a message, the token goes on with the rest.*)
LEMMA AppendToRest ==
  ASSUME NEW s \in Seq(Tokens), NEW t \in Seq(Tokens), NEW e \in Tokens
  PROVE  Append(s \o t, e) = s \o Append(t, e)
<1>1. s \o t \in Seq(Tokens) /\ <<e>> \in Seq(Tokens)
  BY ConcatProperties
<1>2. Append(s \o t, e) = (s \o t) \o <<e>> /\ Append(t, e) = t \o <<e>>
  BY <1>1, AppendIsConcat
<1> QED BY <1>1, <1>2, ConcatAssociative

(* One step per action. *)
LEMMA GotInductive ==
  ASSUME TypeOK, GotInv, [Next]_vars
  PROVE  GotInv'
<1>t. TypeOK'
  BY TypeInductive
<1>z. z \in MessageType /\ z' \in MessageType /\ raw \in Seq(Tokens)
  BY <1>t DEF TypeOK
<1>1. ASSUME NEW m \in Sendable,
             ArriveWhole(m) \/ ArriveWithMore(m) \/ ArriveCut(m) \/ ArriveChanged(m)
      PROVE  GotInv'
  <2>1. at' = "header" /\ pos' = 0
    BY <1>1 DEF ArriveWhole, ArriveWithMore, ArriveCut, ArriveChanged, Arrive
  <2> QED BY <2>1 DEF GotInv
<1>2. CASE DecodeHeader
  <2>1. CASE at' = "failed"
    BY <2>1 DEF GotInv
  <2>2. CASE at' # "failed"
    <3>1. at = "header" /\ at' = "id" /\ More /\ Read /\ UNCHANGED arrival /\ Peek = Array(5)
      BY <1>2, <2>2 DEF DecodeHeader, ReadArrayHeader, Fail
    <3>2. Got = <<>>
      BY <3>1, SubSeqEmpty DEF GotInv, Got
    <3>3. Got' = <<Array(5)>>
      BY <3>1, <3>2, GotGrows
    <3> QED BY <3>1, <3>3 DEF GotInv
  <2> QED BY <2>1, <2>2
<1>3. CASE DecodeID
  <2>1. CASE at' = "failed"
    BY <2>1 DEF GotInv
  <2>2. CASE at' # "failed"
    <3>1. /\ at = "id" /\ at' = "fn" /\ More /\ Read /\ UNCHANGED arrival
          /\ Peek.kind = "number" /\ z' = [z EXCEPT !.id = Peek.val]
      BY <1>3, <2>2 DEF DecodeID, Fail
    <3>2. Got = <<Array(5)>> /\ Got' = Append(Got, Peek) /\ Peek = Number(Peek.val)
      BY <3>1, GotGrows, TokenKinds DEF GotInv
    <3>3. z'.id = Peek.val
      BY <1>z, <3>1 DEF MessageType
    <3>4. Got' = <<Array(5), Number(z'.id)>>
      <4>1. Peek \in Tokens /\ Array(5) \in Tokens
        BY <3>1, GotGrows, SomeTokens
      <4> QED BY <3>2, <3>3, <4>1, ShortAppend
    <3> QED BY <3>1, <3>4 DEF GotInv
  <2> QED BY <2>1, <2>2
<1>4. CASE DecodeFunc
  <2>1. CASE at' = "failed"
    BY <2>1 DEF GotInv
  <2>2. CASE at' # "failed"
    <3>1. /\ at = "fn" /\ at' = "args" /\ More /\ Read /\ UNCHANGED arrival
          /\ Peek.kind = "string" /\ z' = [z EXCEPT !.fn = Peek.val] /\ raw' = <<>>
      BY <1>4, <2>2 DEF DecodeFunc, Fail
    <3>2. /\ Got = <<Array(5), Number(z.id)>> /\ Got' = Append(Got, Peek)
          /\ Peek = Str(Peek.val)
      BY <3>1, GotGrows, TokenKinds DEF GotInv
    <3>3. z'.id = z.id /\ z'.fn = Peek.val
      BY <1>z, <3>1 DEF MessageType
    <3>4. Got' = UpToArgs(z')
      <4>1. Peek \in Tokens /\ Array(5) \in Tokens /\ Number(z.id) \in Tokens
        BY <1>z, <3>1, GotGrows, SomeTokens DEF MessageType
      <4>2. UpToArgs(z') = <<Array(5), Number(z.id), Peek>>
        BY <3>2, <3>3 DEF UpToArgs
      <4>3. Append(<<Array(5), Number(z.id)>>, Peek) = <<Array(5), Number(z.id), Peek>>
        BY <4>1, ShortAppend
      <4> QED BY <3>2, <4>2, <4>3
    <3>5. UpToArgs(z') \o raw' = UpToArgs(z')
      BY <1>z, <3>1, EncodeMsgType, ConcatEmptySeq
    <3> QED BY <3>1, <3>4, <3>5 DEF GotInv
  <2> QED BY <2>1, <2>2
<1>5. ASSUME NEW field \in {"args", "result"}, NEW then \in {"result", "error"},
             then = IF field = "args" THEN "result" ELSE "error",
             DecodeRaw(field, then)
      PROVE  GotInv'
  <2> DEFINE ahead == IF field = "args" THEN UpToArgs(z) ELSE UpToResult(z)
  <2>1. CASE at' = "failed"
    BY <2>1 DEF GotInv
  <2>2. CASE at' # "failed"
    <3>1. at = field /\ More /\ Read /\ UNCHANGED arrival
      BY <1>5, <2>2 DEF DecodeRaw, Fail
    <3>2. Got = ahead \o raw /\ ahead \in Seq(Tokens)
      BY <1>z, <3>1, EncodeMsgType DEF GotInv
    <3>3. /\ Peek \in Tokens /\ Got' = ahead \o Append(raw, Peek)
          /\ Append(raw, Peek) \in Seq(Tokens) /\ Append(raw, Peek) # <<>>
      <4>1. Peek \in Tokens /\ Got' = Append(Got, Peek)
        BY <3>1, GotGrows
      <4>2. Append(ahead \o raw, Peek) = ahead \o Append(raw, Peek)
        BY <1>z, <3>2, <4>1, AppendToRest
      <4>3. Append(raw, Peek) \in Seq(Tokens) /\ Append(raw, Peek) # <<>>
        BY <1>z, <4>1, AppendProperties
      <4> QED BY <3>2, <4>1, <4>2, <4>3
    <3>4. CASE StillOpen(Peek) > 0
      <4>1. at' = at /\ z' = z /\ raw' = Append(raw, Peek)
        BY <1>5, <3>1, <3>4 DEF DecodeRaw
      <4> QED BY <3>1, <3>3, <4>1 DEF GotInv
    <3>5. CASE ~(StillOpen(Peek) > 0)
      <4>1. at' = then /\ z' = [z EXCEPT ![field] = DecodedRaw(Append(raw, Peek))] /\ raw' = <<>>
        BY <1>5, <3>1, <3>5 DEF DecodeRaw
      <4>2. EncodeRaw(z'[field]) = Append(raw, Peek)
        <5>1. z'[field] = DecodedRaw(Append(raw, Peek))
          BY <1>z, <4>1 DEF MessageType
        <5> QED BY <3>3, <5>1, DecodedRawInverse
      <4>3. CASE field = "args"
        <5>1. UpToArgs(z') = UpToArgs(z)
          BY <1>z, <4>1, <4>3 DEF UpToArgs, MessageType
        <5>2. Got' = UpToResult(z')
          BY <3>3, <4>2, <4>3, <5>1 DEF UpToResult
        <5>3. UpToResult(z') \o raw' = UpToResult(z')
          BY <1>z, <4>1, EncodeMsgType, ConcatEmptySeq
        <5> QED BY <1>5, <4>1, <4>3, <5>2, <5>3 DEF GotInv
      <4>4. CASE field = "result"
        <5>1. UpToResult(z') = UpToResult(z)
          BY <1>z, <4>1, <4>4 DEF UpToResult, UpToArgs, MessageType
        <5>2. Got' = UpToError(z')
          BY <3>3, <4>2, <4>4, <5>1 DEF UpToError
        <5> QED BY <1>5, <4>1, <4>4, <5>2 DEF GotInv
      <4> QED BY <4>3, <4>4
    <3> QED BY <3>4, <3>5
  <2> QED BY <2>1, <2>2
<1>6. CASE DecodeErrorNil
  <2>1. /\ at = "error" /\ at' = "done" /\ More /\ Read /\ UNCHANGED arrival /\ Peek = Nil
        /\ z' = [z EXCEPT !.err = NoError]
    BY <1>6 DEF DecodeErrorNil
  <2>2. Got' = UpToError(z) \o <<Nil>>
    BY <1>z, <2>1, GotGrows, EncodeMsgType, AppendIsConcat DEF GotInv
  <2>3. UpToError(z') = UpToError(z) /\ z'.err = NoError
    BY <1>z, <2>1 DEF UpToError, UpToResult, UpToArgs, MessageType
  <2>4. Got' = EncodeMsg(z')
    BY <1>z, <2>2, <2>3, EncodeMsgType DEF EncodeError
  <2> QED BY <2>1, <2>4 DEF GotInv
<1>7. CASE DecodeErrorHeader
  <2>1. CASE at' = "failed"
    BY <2>1 DEF GotInv
  <2>2. CASE at' # "failed"
    <3>1. /\ at = "error" /\ at' = "errorMsg" /\ More /\ Read /\ UNCHANGED arrival
          /\ Peek = Array(1)
          /\ z' = IF z.err = NoError THEN [z EXCEPT !.err = EmptyString] ELSE z
      BY <1>7, <2>2 DEF DecodeErrorHeader, Fail
    <3>2. Got' = UpToError(z) \o <<Array(1)>>
      BY <1>z, <3>1, GotGrows, EncodeMsgType, AppendIsConcat DEF GotInv
    <3>3. UpToError(z') = UpToError(z)
      BY <1>z, <3>1 DEF UpToError, UpToResult, UpToArgs, MessageType
    <3> QED BY <3>1, <3>2, <3>3 DEF GotInv
  <2> QED BY <2>1, <2>2
<1>8. CASE DecodeErrorMsg
  <2>1. CASE at' = "failed"
    BY <2>1 DEF GotInv
  <2>2. CASE at' # "failed"
    <3>1. /\ at = "errorMsg" /\ at' = "done" /\ More /\ Read /\ UNCHANGED arrival
          /\ Peek.kind = "string" /\ z' = [z EXCEPT !.err = Peek.val]
      BY <1>8, <2>2 DEF DecodeErrorMsg, Fail
    <3>2. Peek \in Tokens /\ Peek.val \in Strings /\ Peek = Str(Peek.val)
      BY <3>1, GotGrows, TokenKinds
    <3>3. UpToError(z) \in Seq(Tokens) /\ <<Array(1)>> \in Seq(Tokens)
      BY <1>z, EncodeMsgType, SomeTokens
    <3>4. Got' = UpToError(z) \o Append(<<Array(1)>>, Peek)
      <4>1. Got = UpToError(z) \o <<Array(1)>> /\ Got' = Append(Got, Peek)
        BY <3>1, GotGrows DEF GotInv
      <4> QED BY <3>2, <3>3, <4>1, AppendToRest
    <3>5. Append(<<Array(1)>>, Peek) = <<Array(1), Peek>>
      BY <3>2, SomeTokens, ShortAppend
    <3>6. UpToError(z') = UpToError(z) /\ z'.err = Peek.val
      BY <1>z, <3>1 DEF UpToError, UpToResult, UpToArgs, MessageType
    <3>7. Got' = EncodeMsg(z')
      BY <1>z, <3>2, <3>4, <3>5, <3>6, EncodeMsgType DEF EncodeError
    <3> QED BY <3>1, <3>7 DEF GotInv
  <2> QED BY <2>1, <2>2
<1>9. CASE FromWire
  BY <1>9 DEF FromWire, GotInv
<1>10. CASE UNCHANGED vars
  BY <1>10 DEF vars, arrival, GotInv, Got
<1> QED BY <1>1, <1>2, <1>3, <1>4, <1>5, <1>6, <1>7, <1>8, <1>9, <1>10 DEF Next, Decode

(* For messages of any size, cut off anywhere or with any token in the     *)
(* place of another: what is accepted encodes to the tokens that were read.*)
THEOREM AcceptsWhatWasThere == Spec => []SurvivesRoundTrip
<1>1. Init => GotInv
  BY DEF Init, GotInv
<1>2. GotInv => SurvivesRoundTrip
  BY DEF GotInv, Got, SurvivesRoundTrip
<1> QED BY <1>1, <1>2, GotInductive, TypeCorrect, PTL DEF Spec

-----------------------------------------------------------------------------
(* Messages that arrive whole *)

(* Where the parts of a message are in a frame that starts with it. *)
LEMMA Layout ==
  ASSUME NEW m \in MessageType, NEW f \in Seq(Tokens), StartsWith(f, EncodeMsg(m))
  PROVE  /\ Len(UpToArgs(m)) = 3
         /\ f[1] = Array(5) /\ f[2] = Number(m.id) /\ f[3] = Str(m.fn)
         /\ Len(UpToResult(m)) = 3 + Len(EncodeRaw(m.args))
         /\ Len(UpToError(m)) = Len(UpToResult(m)) + Len(EncodeRaw(m.result))
         /\ Len(f) >= Len(UpToError(m)) + Len(EncodeError(m.err))
         /\ \A j \in 1..Len(EncodeRaw(m.args)) : f[3 + j] = EncodeRaw(m.args)[j]
         /\ \A j \in 1..Len(EncodeRaw(m.result)) :
              f[Len(UpToResult(m)) + j] = EncodeRaw(m.result)[j]
         /\ \A j \in 1..Len(EncodeError(m.err)) :
              f[Len(UpToError(m)) + j] = EncodeError(m.err)[j]
<1> DEFINE a == EncodeRaw(m.args)
           r == EncodeRaw(m.result)
           e == EncodeError(m.err)
<1>1. /\ a \in Seq(Tokens) /\ r \in Seq(Tokens) /\ e \in Seq(Tokens)
      /\ UpToArgs(m) \in Seq(Tokens) /\ UpToResult(m) \in Seq(Tokens)
      /\ UpToError(m) \in Seq(Tokens) /\ EncodeMsg(m) = UpToError(m) \o e
  BY EncodeRawType, EncodeMsgType DEF MessageType
<1>2. /\ UpToResult(m) = UpToArgs(m) \o a
      /\ UpToError(m) = UpToResult(m) \o r
  BY DEF UpToResult, UpToError
<1>3. /\ Len(UpToArgs(m)) = 3
      /\ UpToArgs(m)[1] = Array(5) /\ UpToArgs(m)[2] = Number(m.id) /\ UpToArgs(m)[3] = Str(m.fn)
  BY DEF UpToArgs
<1> HIDE DEF a, r, e
<1>4. Len(a) \in Nat /\ Len(r) \in Nat /\ Len(e) \in Nat
  BY <1>1, LenProperties
<1>5. /\ StartsWith(UpToResult(m), UpToArgs(m)) /\ Len(UpToResult(m)) = 3 + Len(a)
      /\ \A j \in 1..Len(a) : UpToResult(m)[3 + j] = a[j]
  <2>1. /\ StartsWith(UpToArgs(m) \o a, UpToArgs(m))
        /\ Len(UpToArgs(m) \o a) = Len(UpToArgs(m)) + Len(a)
        /\ \A j \in 1..Len(a) : (UpToArgs(m) \o a)[Len(UpToArgs(m)) + j] = a[j]
    BY <1>1, ConcatStarts
  <2> QED BY <1>2, <1>3, <2>1
<1>6. /\ StartsWith(UpToError(m), UpToResult(m))
      /\ Len(UpToError(m)) = Len(UpToResult(m)) + Len(r)
      /\ \A j \in 1..Len(r) : UpToError(m)[Len(UpToResult(m)) + j] = r[j]
  <2>1. /\ StartsWith(UpToResult(m) \o r, UpToResult(m))
        /\ Len(UpToResult(m) \o r) = Len(UpToResult(m)) + Len(r)
        /\ \A j \in 1..Len(r) : (UpToResult(m) \o r)[Len(UpToResult(m)) + j] = r[j]
    BY <1>1, ConcatStarts
  <2> QED BY <1>2, <2>1
<1>7. /\ StartsWith(EncodeMsg(m), UpToError(m))
      /\ Len(EncodeMsg(m)) = Len(UpToError(m)) + Len(e)
      /\ \A j \in 1..Len(e) : EncodeMsg(m)[Len(UpToError(m)) + j] = e[j]
  BY <1>1, ConcatStarts
<1>8. /\ StartsWith(f, UpToError(m)) /\ StartsWith(f, UpToResult(m)) /\ StartsWith(f, UpToArgs(m))
      /\ Len(f) >= Len(EncodeMsg(m))
  BY <1>3, <1>4, <1>5, <1>6, <1>7 DEF StartsWith
<1>9. f[1] = Array(5) /\ f[2] = Number(m.id) /\ f[3] = Str(m.fn)
  BY <1>3, <1>8 DEF StartsWith
<1>10. ASSUME NEW j \in 1..Len(a) PROVE f[3 + j] = a[j]
  BY <1>4, <1>5, <1>8 DEF StartsWith
<1>11. ASSUME NEW j \in 1..Len(r) PROVE f[Len(UpToResult(m)) + j] = r[j]
  BY <1>4, <1>5, <1>6, <1>8 DEF StartsWith
<1>12. ASSUME NEW j \in 1..Len(e) PROVE f[Len(UpToError(m)) + j] = e[j]
  BY <1>4, <1>5, <1>6, <1>7, <1>8 DEF StartsWith
<1> QED BY <1>3, <1>5, <1>6, <1>7, <1>8, <1>9, <1>10, <1>11, <1>12 DEF a, r, e

(* Absent and nil payloads look the same on the wire. *)
LEMMA NormalEncodesAlike ==
  ASSUME NEW p \in Seq(Tokens)
  PROVE  EncodeRaw(DecodedRaw(p)) = EncodeRaw(p)
BY EmptySeq DEF EncodeRaw, DecodedRaw

(* On the wire a payload is one object. *)
LEMMA PayloadOpens ==
  ASSUME NEW m \in Sendable, NEW p \in {m.args, m.result}
  PROVE  \E o \in [0..Len(EncodeRaw(p)) -> Nat] : Opens(o, EncodeRaw(p))
<1>1. CASE p = <<>>
  <2> DEFINE o == [i \in 0..1 |-> 1 - i]
  <2>1. EncodeRaw(p) = <<Nil>> /\ Len(<<Nil>>) = 1 /\ <<Nil>>[1] = Nil
    BY <1>1 DEF EncodeRaw
  <2>2. Holds(Nil) = 0
    BY DEF Holds, Nil, Token
  <2>3. o \in [0..1 -> Nat]
    OBVIOUS
  <2>4. Opens(o, <<Nil>>)
    BY <2>1, <2>2 DEF Opens
  <2> QED BY <2>1, <2>3, <2>4
<1>2. CASE p # <<>>
  <2>1. PICK o \in [0..Len(p) -> 0..Len(p)] : Opens(o, p)
    BY <1>2 DEF OneObject
  <2>2. o \in [0..Len(p) -> Nat]
    OBVIOUS
  <2> QED BY <1>2, <2>1, <2>2 DEF EncodeRaw
<1> QED BY <1>1, <1>2

(* A token more of the payload at hand leaves objects open if and only if  *)
(* it is not the last.                                                     *)
LEMMA ReadingGoesOn ==
  ASSUME NEW p \in Seq(Tokens), NEW t, raw \in Seq(Tokens),
         Reading(p), t = EncodeRaw(p)[Len(raw) + 1]
  PROVE  /\ StillOpen(t) > 0 /\ raw' = Append(raw, t) /\ open' = StillOpen(t)
              => Reading(p)'
         /\ ~(StillOpen(t) > 0) => Append(raw, t) = EncodeRaw(p)
<1> DEFINE e == EncodeRaw(p)
           n == Len(raw)
<1>1. e \in Seq(Tokens) /\ Len(e) \in Nat /\ n \in Nat /\ n < Len(e) /\ raw = SubSeq(e, 1, n)
  BY EncodeRawType, LenProperties DEF Reading
<1>2. PICK o \in [0..Len(e) -> Nat] : Opens(o, e) /\ open = o[n]
  BY DEF Reading
<1> HIDE DEF e
<1>3. n + 1 \in 1..Len(e) /\ t = e[n + 1]
  BY <1>1 DEF e
<1>4. t \in Tokens
  BY <1>1, <1>3, ElementOfSeq
<1>5. StillOpen(t) = o[n + 1]
  BY <1>1, <1>2, <1>3 DEF Opens, StillOpen
<1>6. Append(raw, t) = SubSeq(e, 1, n + 1) /\ Len(Append(raw, t)) = n + 1
  <2>1. SubSeq(e, 1, n + 1) = SubSeq(e, 1, n) \o <<e[n + 1]>>
    BY <1>1, <1>3, SubSeqRecursiveSecond
  <2>2. Append(raw, t) = raw \o <<t>> /\ Len(Append(raw, t)) = n + 1
    BY <1>4, AppendIsConcat, AppendProperties
  <2> QED BY <1>1, <1>3, <2>1, <2>2
<1>7. ASSUME StillOpen(t) > 0, raw' = Append(raw, t), open' = StillOpen(t)
      PROVE  Reading(p)'
  <2>1. n + 1 # Len(e)
    BY <1>2, <1>5, <1>7 DEF Opens
  <2>2. Len(raw') = n + 1 /\ n + 1 < Len(e) /\ raw' = SubSeq(e, 1, n + 1)
    BY <1>1, <1>3, <1>6, <1>7, <2>1
  <2>3. Opens(o, e) /\ open' = o[n + 1]
    BY <1>2, <1>5, <1>7
  <2> QED BY <2>2, <2>3 DEF Reading, e
<1>8. ASSUME ~(StillOpen(t) > 0)
      PROVE  Append(raw, t) = e
  <2>1. n + 1 = Len(e)
    <3>1. CASE n + 1 < Len(e)
      <4>1. n + 2 \in 1..Len(e) /\ (n + 2) - 1 = n + 1
        BY <1>1, <3>1
      <4>2. o[n + 1] > 0
        BY <1>2, <4>1 DEF Opens
      <4> QED BY <1>5, <1>8, <4>2
    <3> QED BY <1>1, <1>3, <3>1
  <2> QED BY <1>1, <1>6, <2>1, SubSeqFull
<1> QED BY <1>7, <1>8 DEF e

(* Before the first token of a payload one object is open, the payload. *)
LEMMA ReadingStarts ==
  ASSUME NEW p \in Seq(Tokens), raw' = <<>>, open' = 1,
         \E o \in [0..Len(EncodeRaw(p)) -> Nat] : Opens(o, EncodeRaw(p))
  PROVE  Reading(p)'
<1>1. EncodeRaw(p) \in Seq(Tokens) /\ Len(EncodeRaw(p)) > 0
  BY EncodeRawType
<1>2. SubSeq(EncodeRaw(p), 1, 0) = <<>> /\ Len(<<>>) = 0
  BY SubSeqEmpty
<1>3. PICK o \in [0..Len(EncodeRaw(p)) -> Nat] : Opens(o, EncodeRaw(p))
  OBVIOUS
<1>4. o[0] = 1
  BY <1>3 DEF Opens
<1> QED BY <1>1, <1>2, <1>3, <1>4 DEF Reading

(* z is what was sent in these fields. *)
LEMMA SameSoFar ==
  ASSUME NEW m \in MessageType, z \in MessageType, sent = m
  PROVE  /\ Decoded({"id", "fn", "args"}) => UpToResult(z) = UpToResult(m)
         /\ Decoded({"id", "fn", "args", "result"}) => UpToError(z) = UpToError(m)
<1>1. /\ EncodeRaw(DecodedRaw(m.args)) = EncodeRaw(m.args)
      /\ EncodeRaw(DecodedRaw(m.result)) = EncodeRaw(m.result)
  BY NormalEncodesAlike DEF MessageType
<1>2. /\ Normal(m).id = m.id /\ Normal(m).fn = m.fn
      /\ Normal(m).args = DecodedRaw(m.args) /\ Normal(m).result = DecodedRaw(m.result)
  BY DEF Normal, MessageType
<1>3. ASSUME Decoded({"id", "fn", "args"}) PROVE UpToResult(z) = UpToResult(m)
  <2>1. z.id = m.id /\ z.fn = m.fn /\ z.args = DecodedRaw(m.args)
    BY <1>2, <1>3 DEF Decoded
  <2> QED BY <1>1, <2>1 DEF UpToResult, UpToArgs
<1>4. ASSUME Decoded({"id", "fn", "args", "result"}) PROVE UpToError(z) = UpToError(m)
  <2>1. /\ z.id = m.id /\ z.fn = m.fn /\ z.args = DecodedRaw(m.args)
        /\ z.result = DecodedRaw(m.result)
    BY <1>2, <1>4 DEF Decoded
  <2> QED BY <1>1, <2>1 DEF UpToError, UpToResult, UpToArgs
<1> QED BY <1>3, <1>4

(* One step per action. *)
LEMMA WholeInductive ==
  ASSUME TypeOK, GotInv, WholeInv, [Next]_vars
  PROVE  WholeInv'
<1>1. ASSUME NEW m \in Sendable,
             ArriveWhole(m) \/ ArriveWithMore(m) \/ ArriveCut(m) \/ ArriveChanged(m)
      PROVE  WholeInv'
  <2>1. PICK what \in {"none", "more", "cut", "changed"}, tokens \in Seq(Tokens) :
          /\ Arrive(m, what, tokens)
          /\ what \in {"none", "more"} => StartsWith(tokens, EncodeMsg(m))
    BY <1>1, Arrivals
  <2>2. sent' = m /\ damage' = what /\ frame' = tokens /\ at' = "header"
    BY <2>1 DEF Arrive
  <2> QED BY <2>1, <2>2 DEF WholeInv
<1>2. ASSUME Decode, damage \in {"none", "more"}
      PROVE  WholeInv'
  <2>1. /\ at \in {"header", "id", "fn", "args", "result", "error", "errorMsg"}
        /\ UNCHANGED arrival
    BY <1>2 DEF Decode, DecodeHeader, ReadArrayHeader, DecodeID, DecodeFunc, DecodeRaw,
                DecodeErrorNil, DecodeErrorHeader, DecodeErrorMsg, Fail
  <2>2. PICK m \in Sendable : m = sent /\ StartsWith(frame, EncodeMsg(m))
    BY <1>2, <2>1 DEF WholeInv
  <2>3. m \in MessageType /\ sent' = m /\ frame' = frame /\ damage' = damage
        /\ m.args \in Seq(Tokens) /\ m.result \in Seq(Tokens)
    BY <2>1, <2>2 DEF arrival, MessageType
  <2>4. /\ z \in MessageType /\ frame \in Seq(Tokens) /\ raw \in Seq(Tokens)
        /\ pos \in 0..Len(frame) /\ Len(Got) = pos /\ Got \in Seq(Tokens)
    BY SubSeqProperties, ElementOfSeq, LenProperties DEF TypeOK, Got
  <2>5. /\ Len(UpToArgs(m)) = 3
        /\ frame[1] = Array(5) /\ frame[2] = Number(m.id) /\ frame[3] = Str(m.fn)
        /\ Len(UpToResult(m)) = 3 + Len(EncodeRaw(m.args))
        /\ Len(UpToError(m)) = Len(UpToResult(m)) + Len(EncodeRaw(m.result))
        /\ Len(frame) >= Len(UpToError(m)) + Len(EncodeError(m.err))
    BY <2>2, <2>3, <2>4, Layout
  <2>6. /\ \A j \in 1..Len(EncodeRaw(m.args)) : frame[3 + j] = EncodeRaw(m.args)[j]
        /\ \A j \in 1..Len(EncodeRaw(m.result)) :
             frame[Len(UpToResult(m)) + j] = EncodeRaw(m.result)[j]
        /\ \A j \in 1..Len(EncodeError(m.err)) :
             frame[Len(UpToError(m)) + j] = EncodeError(m.err)[j]
    BY <2>2, <2>3, <2>4, Layout
  <2>7. /\ EncodeRaw(m.args) \in Seq(Tokens) /\ Len(EncodeRaw(m.args)) \in Nat \ {0}
        /\ EncodeRaw(m.result) \in Seq(Tokens) /\ Len(EncodeRaw(m.result)) \in Nat \ {0}
        /\ UpToResult(m) \in Seq(Tokens) /\ Len(UpToResult(m)) \in Nat
        /\ UpToError(m) \in Seq(Tokens) /\ Len(UpToError(m)) \in Nat
        /\ Len(EncodeError(m.err)) \in Nat /\ Len(EncodeError(m.err)) >= 1
    <3>1. Len(EncodeError(m.err)) \in Nat /\ Len(EncodeError(m.err)) >= 1
      BY DEF EncodeError
    <3>2. /\ EncodeRaw(m.args) \in Seq(Tokens) /\ Len(EncodeRaw(m.args)) > 0
          /\ EncodeRaw(m.result) \in Seq(Tokens) /\ Len(EncodeRaw(m.result)) > 0
          /\ UpToResult(m) \in Seq(Tokens) /\ UpToError(m) \in Seq(Tokens)
      BY <2>3, EncodeRawType, EncodeMsgType
    <3> QED BY <3>1, <3>2, LenProperties
  <2>8. /\ Normal(m).id = m.id /\ Normal(m).fn = m.fn
        /\ Normal(m).args = DecodedRaw(m.args) /\ Normal(m).result = DecodedRaw(m.result)
        /\ Normal(m).err = m.err
    BY <2>3 DEF Normal, MessageType
  <2>9. CASE DecodeHeader
    <3>1. at = "header" /\ More /\ Peek = Array(5)
      BY <2>4, <2>5, <2>7, <2>9 DEF DecodeHeader, ReadArrayHeader, GotInv, More, Peek
    <3>2. at' = "id"
      BY <2>9, <3>1 DEF DecodeHeader, ReadArrayHeader
    <3> QED BY <2>2, <2>3, <3>2 DEF WholeInv
  <2>10. CASE DecodeID
    <3>1. at = "id" /\ pos = 1
      BY <2>4, <2>10 DEF DecodeID, GotInv
    <3>2. More /\ Peek = Number(m.id)
      BY <2>5, <2>7, <3>1 DEF More, Peek
    <3>3. Peek.kind = "number" /\ Peek.val = m.id /\ m.id >= 0
      BY <2>3, <3>2, TokensDiffer DEF MessageType
    <3>4. at' = "fn" /\ z' = [z EXCEPT !.id = m.id]
      BY <2>10, <3>2, <3>3 DEF DecodeID
    <3>5. z'.id = m.id
      BY <2>4, <3>4 DEF MessageType
    <3>6. Decoded({"id"})'
      BY <2>3, <2>8, <3>5 DEF Decoded
    <3> QED BY <2>2, <2>3, <3>4, <3>6 DEF WholeInv
  <2>11. CASE DecodeFunc
    <3>1. at = "fn" /\ pos = 2 /\ Decoded({"id"})
      <4>1. at = "fn" /\ Got = <<Array(5), Number(z.id)>>
        BY <2>11 DEF DecodeFunc, GotInv
      <4>2. Decoded({"id"})
        BY <1>2, <4>1 DEF WholeInv
      <4> QED BY <2>4, <4>1, <4>2
    <3>2. More /\ Peek = Str(m.fn)
      BY <2>5, <2>7, <3>1 DEF More, Peek
    <3>3. Peek.kind = "string" /\ Peek.val = m.fn
      BY <3>2, TokensDiffer
    <3>4. at' = "args" /\ z' = [z EXCEPT !.fn = m.fn] /\ raw' = <<>> /\ open' = 1
      BY <2>11, <3>2, <3>3 DEF DecodeFunc
    <3>5. z'.id = m.id /\ z'.fn = m.fn
      BY <2>2, <2>4, <2>8, <3>1, <3>4 DEF MessageType, Decoded
    <3>6. Decoded({"id", "fn"})'
      BY <2>3, <2>8, <3>5 DEF Decoded
    <3>7. Reading(m.args)'
      BY <2>3, <2>7, <3>4, PayloadOpens, ReadingStarts
    <3> QED BY <2>2, <2>3, <3>4, <3>6, <3>7 DEF WholeInv
  <2>12. CASE DecodeRaw("args", "result")
    <3>1. at = "args" /\ Decoded({"id", "fn"}) /\ Reading(m.args)
      BY <1>2, <2>2, <2>12 DEF DecodeRaw, WholeInv
    <3>2. z.id = m.id /\ z.fn = m.fn
      BY <2>2, <2>8, <3>1 DEF Decoded
    <3>3. pos = 3 + Len(raw) /\ Len(raw) \in Nat /\ Len(raw) < Len(EncodeRaw(m.args))
      <4>1. Got = UpToArgs(z) \o raw /\ UpToArgs(z) = UpToArgs(m)
        BY <3>1, <3>2 DEF GotInv, UpToArgs
      <4>2. UpToArgs(m) \in Seq(Tokens)
        BY <2>3, EncodeMsgType
      <4>3. Len(UpToArgs(m) \o raw) = Len(UpToArgs(m)) + Len(raw) /\ Len(raw) \in Nat
        BY <2>4, <4>2, ConcatProperties, LenProperties
      <4> QED BY <2>4, <2>5, <3>1, <4>1, <4>3 DEF Reading
    <3>4. More /\ Peek = EncodeRaw(m.args)[Len(raw) + 1]
      <4>1. Len(raw) + 1 \in 1..Len(EncodeRaw(m.args)) /\ 3 + (Len(raw) + 1) = pos + 1
        BY <2>7, <3>3
      <4>2. frame[pos + 1] = EncodeRaw(m.args)[Len(raw) + 1]
        <5>1. frame[3 + (Len(raw) + 1)] = EncodeRaw(m.args)[Len(raw) + 1]
          BY <2>6, <4>1
        <5> QED BY <4>1, <5>1
      <4>3. Len(EncodeError(m.err)) >= 1 /\ Len(frame) \in Nat
        BY <2>4, <2>7, LenProperties
      <4>4. pos < Len(frame)
        BY <2>5, <2>7, <3>3, <4>3
      <4> QED BY <4>2, <4>4 DEF More, Peek
    <3>5. CASE StillOpen(Peek) > 0
      <4>1. at' = at /\ z' = z /\ raw' = Append(raw, Peek) /\ open' = StillOpen(Peek)
        BY <2>12, <3>4, <3>5 DEF DecodeRaw
      <4>2. Reading(m.args)'
        BY <2>3, <2>4, <3>1, <3>4, <3>5, <4>1, ReadingGoesOn
      <4>3. Decoded({"id", "fn"})'
        BY <2>3, <2>8, <3>2, <4>1 DEF Decoded
      <4> QED BY <2>2, <2>3, <3>1, <4>1, <4>2, <4>3 DEF WholeInv
    <3>6. CASE ~(StillOpen(Peek) > 0)
      <4>1. /\ at' = "result" /\ z' = [z EXCEPT !.args = DecodedRaw(Append(raw, Peek))]
            /\ raw' = <<>> /\ open' = 1
        BY <2>12, <3>4, <3>6 DEF DecodeRaw
      <4>2. DecodedRaw(Append(raw, Peek)) = DecodedRaw(m.args)
        BY <2>3, <2>4, <3>1, <3>4, <3>6, ReadingGoesOn, NormalEncodesAlike DEF DecodedRaw, EncodeRaw
      <4>3. z'.id = m.id /\ z'.fn = m.fn /\ z'.args = DecodedRaw(m.args)
        BY <2>4, <3>2, <4>1, <4>2 DEF MessageType
      <4>4. Decoded({"id", "fn", "args"})'
        BY <2>3, <2>8, <4>3 DEF Decoded
      <4>5. Reading(m.result)'
        BY <2>3, <2>7, <4>1, PayloadOpens, ReadingStarts
      <4> QED BY <2>2, <2>3, <4>1, <4>4, <4>5 DEF WholeInv
    <3> QED BY <3>5, <3>6
  <2>13. CASE DecodeRaw("result", "error")
    <3>1. at = "result" /\ Decoded({"id", "fn", "args"}) /\ Reading(m.result)
      BY <1>2, <2>2, <2>13 DEF DecodeRaw, WholeInv
    <3>2. z.id = m.id /\ z.fn = m.fn /\ z.args = DecodedRaw(m.args)
      BY <2>2, <2>8, <3>1 DEF Decoded
    <3>3. /\ pos = Len(UpToResult(m)) + Len(raw)
          /\ Len(raw) \in Nat /\ Len(raw) < Len(EncodeRaw(m.result))
      <4>1. Got = UpToResult(z) \o raw /\ UpToResult(z) = UpToResult(m)
        BY <2>2, <2>3, <2>4, <3>1, SameSoFar DEF GotInv
      <4> QED BY <2>4, <2>7, <3>1, <4>1, ConcatProperties, LenProperties DEF Reading
    <3>4. More /\ Peek = EncodeRaw(m.result)[Len(raw) + 1]
      <4>1. /\ Len(raw) + 1 \in 1..Len(EncodeRaw(m.result))
            /\ Len(UpToResult(m)) + (Len(raw) + 1) = pos + 1
        BY <2>5, <2>7, <3>3
      <4>2. frame[pos + 1] = EncodeRaw(m.result)[Len(raw) + 1]
        <5>1. frame[Len(UpToResult(m)) + (Len(raw) + 1)] = EncodeRaw(m.result)[Len(raw) + 1]
          BY <2>6, <4>1
        <5> QED BY <4>1, <5>1
      <4>3. Len(EncodeError(m.err)) >= 1 /\ Len(frame) \in Nat
        BY <2>4, <2>7, LenProperties
      <4>4. pos < Len(frame)
        BY <2>5, <2>7, <3>3, <4>3
      <4> QED BY <4>2, <4>4 DEF More, Peek
    <3>5. CASE StillOpen(Peek) > 0
      <4>1. at' = at /\ z' = z /\ raw' = Append(raw, Peek) /\ open' = StillOpen(Peek)
        BY <2>13, <3>4, <3>5 DEF DecodeRaw
      <4>2. Reading(m.result)'
        BY <2>3, <2>4, <3>1, <3>4, <3>5, <4>1, ReadingGoesOn
      <4>3. Decoded({"id", "fn", "args"})'
        BY <2>3, <2>8, <3>2, <4>1 DEF Decoded
      <4> QED BY <2>2, <2>3, <3>1, <4>1, <4>2, <4>3 DEF WholeInv
    <3>6. CASE ~(StillOpen(Peek) > 0)
      <4>1. at' = "error" /\ z' = [z EXCEPT !.result = DecodedRaw(Append(raw, Peek))]
        BY <2>13, <3>4, <3>6 DEF DecodeRaw
      <4>2. DecodedRaw(Append(raw, Peek)) = DecodedRaw(m.result)
        BY <2>3, <2>4, <3>1, <3>4, <3>6, ReadingGoesOn, NormalEncodesAlike DEF DecodedRaw, EncodeRaw
      <4>3. /\ z'.id = m.id /\ z'.fn = m.fn /\ z'.args = DecodedRaw(m.args)
            /\ z'.result = DecodedRaw(m.result)
        BY <2>4, <3>2, <4>1, <4>2 DEF MessageType
      <4>4. Decoded({"id", "fn", "args", "result"})'
        BY <2>3, <2>8, <4>3 DEF Decoded
      <4> QED BY <2>2, <2>3, <4>1, <4>4 DEF WholeInv
    <3> QED BY <3>5, <3>6
  <2>14. ASSUME DecodeErrorNil \/ DecodeErrorHeader
         PROVE  WholeInv'
    <3>1. at = "error" /\ Decoded({"id", "fn", "args", "result"})
      BY <1>2, <2>14 DEF DecodeErrorNil, DecodeErrorHeader, WholeInv
    <3>2. /\ z.id = m.id /\ z.fn = m.fn /\ z.args = DecodedRaw(m.args)
          /\ z.result = DecodedRaw(m.result)
      BY <2>2, <2>8, <3>1 DEF Decoded
    <3>3. pos = Len(UpToError(m)) /\ pos \in Nat
      BY <2>2, <2>3, <2>4, <3>1, SameSoFar DEF GotInv
    <3>4. More /\ Peek = EncodeError(m.err)[1]
      <4>1. 1 \in 1..Len(EncodeError(m.err))
        BY <2>7
      <4> QED BY <2>4, <2>5, <2>6, <2>7, <3>3, <4>1 DEF More, Peek
    <3>5. CASE m.err = NoError
      <4>1. Peek = Nil
        BY <3>4, <3>5 DEF EncodeError
      <4>2. at' = "done" /\ z' = [z EXCEPT !.err = NoError]
        BY <2>14, <3>4, <4>1 DEF DecodeErrorNil, DecodeErrorHeader
      <4>3. z' = Normal(m)
        BY <2>3, <2>4, <3>2, <3>5, <4>2 DEF Normal, MessageType
      <4> QED BY <2>2, <2>3, <4>2, <4>3 DEF WholeInv
    <3>6. CASE m.err # NoError
      <4>1. Peek = Array(1) /\ Peek # Nil
        BY <3>4, <3>6, TokensDiffer DEF EncodeError
      <4>2. at' = "errorMsg" /\ z' = IF z.err = NoError THEN [z EXCEPT !.err = EmptyString] ELSE z
        BY <2>14, <3>4, <4>1 DEF DecodeErrorNil, DecodeErrorHeader
      <4>3. /\ z'.id = m.id /\ z'.fn = m.fn /\ z'.args = DecodedRaw(m.args)
            /\ z'.result = DecodedRaw(m.result)
        BY <2>4, <3>2, <4>2 DEF MessageType
      <4>4. Decoded({"id", "fn", "args", "result"})'
        BY <2>3, <2>8, <4>3 DEF Decoded
      <4> QED BY <2>2, <2>3, <3>6, <4>2, <4>4 DEF WholeInv
    <3> QED BY <3>5, <3>6
  <2>15. CASE DecodeErrorMsg
    <3>1. /\ at = "errorMsg" /\ Decoded({"id", "fn", "args", "result"}) /\ m.err # NoError
      BY <1>2, <2>2, <2>15 DEF DecodeErrorMsg, WholeInv
    <3>2. /\ z.id = m.id /\ z.fn = m.fn /\ z.args = DecodedRaw(m.args)
          /\ z.result = DecodedRaw(m.result)
      BY <2>2, <2>8, <3>1 DEF Decoded
    <3>3. pos = Len(UpToError(m)) + 1
      <4>1. Got = UpToError(m) \o <<Array(1)>>
        BY <2>2, <2>3, <2>4, <3>1, SameSoFar DEF GotInv
      <4>2. <<Array(1)>> \in Seq(Tokens) /\ Len(<<Array(1)>>) = 1
        BY SomeTokens
      <4> QED BY <2>4, <2>7, <4>1, <4>2, ConcatProperties
    <3>4. More /\ Peek = Str(m.err)
      <4>1. EncodeError(m.err) = <<Array(1), Str(m.err)>> /\ Len(EncodeError(m.err)) = 2
        BY <3>1 DEF EncodeError
      <4>2. 2 \in 1..Len(EncodeError(m.err)) /\ Len(UpToError(m)) + 2 = pos + 1
        BY <2>7, <3>3, <4>1, LenProperties
      <4>3. Peek = EncodeError(m.err)[2]
        BY <2>6, <4>2 DEF Peek
      <4> QED BY <2>4, <2>5, <2>7, <3>3, <4>1, <4>3, LenProperties DEF More
    <3>5. Peek.kind = "string" /\ Peek.val = m.err
      BY <3>4, TokensDiffer
    <3>6. at' = "done" /\ z' = [z EXCEPT !.err = m.err]
      BY <2>15, <3>4, <3>5 DEF DecodeErrorMsg
    <3>7. z' = Normal(m)
      BY <2>3, <2>4, <3>2, <3>6 DEF Normal, MessageType
    <3> QED BY <2>2, <2>3, <3>6, <3>7 DEF WholeInv
  <2> QED BY <1>2, <2>9, <2>10, <2>11, <2>12, <2>13, <2>14, <2>15 DEF Decode
<1>3. ASSUME Decode, damage \notin {"none", "more"}
      PROVE  WholeInv'
  <2>1. damage' = damage
    BY <1>3 DEF Decode, DecodeHeader, ReadArrayHeader, DecodeID, DecodeFunc, DecodeRaw,
                DecodeErrorNil, DecodeErrorHeader, DecodeErrorMsg, Fail, arrival
  <2> QED BY <1>3, <2>1 DEF WholeInv
<1>4. CASE FromWire
  BY <1>4 DEF FromWire, WholeInv
<1>5. CASE UNCHANGED vars
  BY <1>5 DEF vars, arrival, WholeInv, Decoded, Reading
<1> QED BY <1>1, <1>2, <1>3, <1>4, <1>5 DEF Next

(* For messages of any size, with any payloads, over any number of frames, *)
(* damaged ones among them: a message that arrives whole comes out as it   *)
(* was sent, whatever message, whole or half, the decoder had before.      *)
THEOREM DecodesWhatWasSent == Spec => []RoundTrip
<1>1. Init => GotInv /\ WholeInv
  BY DEF Init, GotInv, WholeInv
<1>2. TypeOK /\ GotInv /\ WholeInv => RoundTrip
  <2> SUFFICES ASSUME TypeOK, GotInv, WholeInv, damage \in {"none", "more"}
               PROVE  /\ at # "failed"
                      /\ at = "done" => z = Normal(sent) /\ pos = Len(EncodeMsg(sent))
    BY DEF RoundTrip
  <2>1. at # "failed"
    BY DEF WholeInv
  <2>2. ASSUME at = "done" PROVE z = Normal(sent) /\ pos = Len(EncodeMsg(sent))
    <3>1. PICK m \in Sendable : m = sent
      BY <2>2 DEF WholeInv
    <3>2. z = Normal(m) /\ m \in MessageType
      BY <2>2, <3>1 DEF WholeInv
    <3>3. Decoded({"id", "fn", "args", "result"}) /\ z.err = m.err
      BY <3>1, <3>2 DEF Decoded, Normal, MessageType
    <3>4. UpToError(z) = UpToError(m) /\ z \in MessageType
      BY <3>1, <3>2, <3>3, SameSoFar DEF TypeOK
    <3>5. Got = EncodeMsg(m)
      BY <2>2, <3>2, <3>3, <3>4, EncodeMsgType DEF GotInv
    <3>6. Len(Got) = pos
      BY SubSeqProperties, ElementOfSeq, LenProperties DEF TypeOK, Got
    <3> QED BY <3>1, <3>2, <3>5, <3>6
  <2> QED BY <2>1, <2>2
<1> QED BY <1>1, <1>2, GotInductive, WholeInductive, TypeCorrect, PTL DEF Spec

=============================================================================
