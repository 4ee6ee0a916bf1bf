-------------------------- MODULE SelectionsProofs --------------------------
(***************************************************************************)
(* The laws of Selected.  The theorems of the library about induction are  *)
(* about a predicate; here it is over sets, of numbers and of sequences,   *)
(* which comes to the same and which every prover can use.                 *)
(***************************************************************************)
EXTENDS Selections, SequenceTheorems, WellFoundedInduction, TLAPS

-----------------------------------------------------------------------------
(* Induction *)

(* A set of numbers has a least one. *)
LEMMA LeastElement ==
  ASSUME NEW U \in SUBSET Nat, U # {}
  PROVE  \E n \in U : \A m \in U : n <= m
<1> DEFINE R == {p \in Nat \X Nat : p[1] < p[2]}
<1>1. IsWellFoundedOn(R, Nat)
  BY NatLessThanWellFounded DEF OpToRel
<1>2. PICK x \in U : \A y \in U : ~(<<y, x>> \in R)
  BY <1>1, WFMin
<1>3. ASSUME NEW y \in U PROVE x <= y
  <2>1. <<y, x>> \in Nat \X Nat
    OBVIOUS
  <2>2. ~(y < x)
    BY <1>2, <2>1
  <2> QED BY <2>2
<1> QED BY <1>3

(* A set with 0 and the successor of each of its elements has all numbers. *)
LEMMA SetInduction ==
  ASSUME NEW U \in SUBSET Nat, 0 \in U, \A n \in U : n + 1 \in U
  PROVE  U = Nat
<1> DEFINE V == Nat \ U
<1> SUFFICES ASSUME V # {} PROVE FALSE
  OBVIOUS
<1>1. PICK n \in V : \A m \in V : n <= m
  BY LeastElement
<1>2. n # 0 /\ n - 1 \in Nat /\ n - 1 \notin V
  BY <1>1
<1> QED BY <1>1, <1>2

(* A set of sequences with the empty one and every one that is longer by an*)
(* element than one of its own has all sequences.                          *)
LEMMA SequenceInduction ==
  ASSUME NEW S, NEW V \in SUBSET Seq(S), <<>> \in V,
         \A s \in V, x \in S : Append(s, x) \in V
  PROVE  V = Seq(S)
<1> DEFINE U == {n \in Nat : \A s \in Seq(S) : Len(s) = n => s \in V}
<1>1. 0 \in U
  <2>1. ASSUME NEW s \in Seq(S), Len(s) = 0 PROVE s = <<>>
    BY <2>1, EmptySeq
  <2> QED BY <2>1
<1>2. ASSUME NEW n \in U PROVE n + 1 \in U
  <2>1. ASSUME NEW s \in Seq(S), Len(s) = n + 1 PROVE s \in V
    <3>1. s # <<>>
      BY <2>1, EmptySeq
    <3>2. PICK t \in Seq(S), x \in S : s = Append(t, x)
      BY <3>1, SequenceEmptyOrAppend
    <3>3. Len(s) = Len(t) + 1 /\ Len(t) \in Nat
      BY <3>2, AppendProperties, LenProperties
    <3>4. t \in V
      BY <2>1, <3>3
    <3> QED BY <3>2, <3>4
  <2> QED BY <2>1
<1>3. U = Nat
  BY <1>1, <1>2, SetInduction
<1>4. \A s \in Seq(S) : Len(s) \in Nat
  BY LenProperties
<1> QED BY <1>3, <1>4

-----------------------------------------------------------------------------
(* Sequences *)

(* Appending to what follows is appending to both together. *)
LEMMA AppendOfConcat ==
  ASSUME NEW S, NEW s \in Seq(S), NEW R, NEW t \in Seq(R), NEW x
  PROVE  s \o Append(t, x) = Append(s \o t, x)
<1> DEFINE Q == S \cup R \cup {x}
<1>1. s \in Seq(Q) /\ t \in Seq(Q) /\ x \in Q /\ <<x>> \in Seq(Q)
  BY SeqMonotonic
<1> HIDE DEF Q
<1>2. Append(t, x) = t \o <<x>>
  BY <1>1, AppendIsConcat
<1>3. s \o t \in Seq(Q)
  BY <1>1, ConcatProperties
<1>4. Append(s \o t, x) = (s \o t) \o <<x>>
  BY <1>1, <1>3, AppendIsConcat
<1>5. (s \o t) \o <<x>> = s \o (t \o <<x>>)
  BY <1>1, ConcatAssociative
<1> QED BY <1>2, <1>4, <1>5

(* What a longer sequence has in it. *)
LEMMA AppendMembers ==
  ASSUME NEW S, NEW s \in Seq(S), NEW y \in S, NEW x
  PROVE  (\E i \in 1..Len(Append(s, y)) : Append(s, y)[i] = x)
           <=> ((\E i \in 1..Len(s) : s[i] = x) \/ y = x)
<1>1. /\ Len(s) \in Nat /\ Len(Append(s, y)) = Len(s) + 1
      /\ Append(s, y)[Len(s) + 1] = y
      /\ \A i \in 1..Len(s) : Append(s, y)[i] = s[i]
  BY AppendProperties, LenProperties
<1>2. Len(s) + 1 \in 1..(Len(s) + 1) /\ \A i \in 1..Len(s) : i \in 1..(Len(s) + 1)
  BY <1>1
<1>3. \A i \in 1..(Len(s) + 1) : i \in 1..Len(s) \/ i = Len(s) + 1
  BY <1>1
<1> QED BY <1>1, <1>2, <1>3

(* The same, for what an element may be. *)
LEMMA AppendMember ==
  ASSUME NEW S, NEW s \in Seq(S), NEW y \in S, NEW Y
  PROVE  (\E i \in 1..Len(Append(s, y)) : Append(s, y)[i] \in Y)
           <=> ((\E i \in 1..Len(s) : s[i] \in Y) \/ y \in Y)
<1>1. /\ Len(s) \in Nat /\ Len(Append(s, y)) = Len(s) + 1
      /\ Append(s, y)[Len(s) + 1] = y
      /\ \A i \in 1..Len(s) : Append(s, y)[i] = s[i]
  BY AppendProperties, LenProperties
<1>2. Len(s) + 1 \in 1..(Len(s) + 1) /\ \A i \in 1..Len(s) : i \in 1..(Len(s) + 1)
  BY <1>1
<1>3. \A i \in 1..(Len(s) + 1) : i \in 1..Len(s) \/ i = Len(s) + 1
  BY <1>1
<1> QED BY <1>1, <1>2, <1>3

(* A sequence is its first element and the rest. *)
LEMMA HeadThenTail ==
  ASSUME NEW S, NEW s \in Seq(S), s # <<>>
  PROVE  /\ Head(s) \in S /\ Tail(s) \in Seq(S)
         /\ s = <<Head(s)>> \o Tail(s)
         /\ Head(s) = s[1]
<1>1. Len(s) \in Nat \ {0}
  BY EmptySeq
<1>2. Head(s) \in S /\ Tail(s) \in Seq(S)
  BY HeadTailProperties
<1>3. Head(s) = s[1]
  OBVIOUS
<1>4. SubSeq(s, 1, Len(s)) = <<s[1]>> \o SubSeq(s, 2, Len(s))
  <2>1. 1 \in 1..Len(s) /\ Len(s) \in 1..Len(s) /\ 1 + 1 = 2
    BY <1>1
  <2> QED BY <2>1, SubSeqRecursiveFirst
<1>5. SubSeq(s, 1, Len(s)) = s /\ Tail(s) = SubSeq(s, 2, Len(s))
  BY SubSeqFull, TailIsSubSeq
<1> QED BY <1>2, <1>3, <1>4, <1>5

(* One element and then others. *)
LEMMA HeadOfConcat ==
  ASSUME NEW S, NEW x \in S, NEW t \in Seq(S)
  PROVE  /\ <<x>> \o t # <<>>
         /\ Head(<<x>> \o t) = x
         /\ Tail(<<x>> \o t) = t
<1>1. <<x>> \in Seq(S) /\ Len(<<x>>) = 1 /\ <<x>>[1] = x
  OBVIOUS
<1>2. Len(t) \in Nat
  BY LenProperties
<1> DEFINE u == <<x>> \o t
<1>3. /\ u \in Seq(S) /\ Len(u) = 1 + Len(t) /\ u[1] = x
      /\ \A i \in 2..(1 + Len(t)) : u[i] = t[i - 1]
  <2>1. /\ u \in Seq(S) /\ Len(u) = Len(<<x>>) + Len(t)
        /\ \A i \in 1..(Len(<<x>>) + Len(t)) :
             u[i] = IF i <= Len(<<x>>) THEN <<x>>[i] ELSE t[i - Len(<<x>>)]
    BY <1>1, ConcatProperties
  <2> HIDE DEF u
  <2> QED BY <1>1, <1>2, <2>1
<1> HIDE DEF u
<1>4. u # <<>>
  BY <1>2, <1>3, EmptySeq
<1>5. Head(u) = x
  BY <1>3, <1>4
<1>6. /\ Tail(u) \in Seq(S) /\ Len(Tail(u)) = Len(u) - 1
      /\ \A i \in 1..Len(Tail(u)) : Tail(u)[i] = u[i + 1]
  BY <1>3, <1>4, HeadTailProperties
<1>7. Len(Tail(u)) = Len(t) /\ \A i \in 1..Len(Tail(u)) : Tail(u)[i] = t[i]
  BY <1>2, <1>3, <1>6
<1>8. Tail(u) = t
  BY <1>6, <1>7, SeqEqual
<1> QED BY <1>4, <1>5, <1>8 DEF u

-----------------------------------------------------------------------------
(* The recursion *)

(* f tells what is selected from each beginning of s. *)
IsSelection(f, s, h, k) ==
  f = [n \in 0..k |->
         IF n = 0 THEN <<>>
         ELSE IF s[n] \in DOMAIN h THEN Append(f[n-1], h[s[n]])
         ELSE f[n-1]]

(* What Selected defines by recursion exists. *)
LEMMA SelectionExists ==
  ASSUME NEW s, NEW h, NEW k \in Nat
  PROVE  \E f : IsSelection(f, s, h, k)
<1> DEFINE U == {j \in Nat : \E f : IsSelection(f, s, h, j)}
<1>1. 0 \in U
  <2>1. IsSelection([n \in 0..0 |-> <<>>], s, h, 0)
    BY DEF IsSelection
  <2> QED BY <2>1
<1>2. ASSUME NEW j \in U PROVE j + 1 \in U
  <2>1. PICK f : IsSelection(f, s, h, j)
    OBVIOUS
  <2> DEFINE g == [n \in 0..(j+1) |->
                     IF n = 0 THEN <<>>
                     ELSE IF s[n] \in DOMAIN h THEN Append(f[n-1], h[s[n]]) ELSE f[n-1]]
  <2>2. ASSUME NEW n \in 0..j PROVE g[n] = f[n]
    <3>1. n \in 0..(j+1)
      OBVIOUS
    <3>2. f[n] = IF n = 0 THEN <<>>
                 ELSE IF s[n] \in DOMAIN h THEN Append(f[n-1], h[s[n]]) ELSE f[n-1]
      BY <2>1 DEF IsSelection
    <3> QED BY <3>1, <3>2
  <2>3. ASSUME NEW n \in 1..(j+1)
        PROVE  g[n] = IF s[n] \in DOMAIN h THEN Append(g[n-1], h[s[n]]) ELSE g[n-1]
    <3>1. n - 1 \in 0..j /\ n # 0 /\ n \in 0..(j+1)
      OBVIOUS
    <3>2. g[n] = IF s[n] \in DOMAIN h THEN Append(f[n-1], h[s[n]]) ELSE f[n-1]
      BY <3>1
    <3>3. g[n-1] = f[n-1]
      BY <2>2, <3>1
    <3> HIDE DEF g
    <3> QED BY <3>2, <3>3
  <2>4. g[0] = <<>>
    OBVIOUS
  <2>5. IsSelection(g, s, h, j + 1)
    <3> HIDE DEF g
    <3>1. g = [n \in 0..(j+1) |-> g[n]]
      BY DEF g
    <3>2. \A n \in 0..(j+1) : n = 0 \/ n \in 1..(j+1)
      OBVIOUS
    <3> QED BY <2>3, <2>4, <3>1, <3>2 DEF IsSelection
  <2> QED BY <2>5
<1>3. U = Nat
  BY <1>1, <1>2, SetInduction
<1> QED BY <1>3

(* It is what Selected is. *)
LEMMA SelectedBy ==
  ASSUME NEW s, NEW h, Len(s) \in Nat
  PROVE  \E f : IsSelection(f, s, h, Len(s)) /\ Selected(s, h) = f[Len(s)]
<1> DEFINE up == CHOOSE f : IsSelection(f, s, h, Len(s))
<1>1. IsSelection(up, s, h, Len(s))
  BY SelectionExists
<1>2. Selected(s, h) = up[Len(s)]
  BY DEF Selected, IsSelection
<1> QED BY <1>1, <1>2

-----------------------------------------------------------------------------
(* Laws *)

(* Nothing is selected from nothing. *)
LEMMA SelectedEmpty == \A h : Selected(<<>>, h) = <<>>
<1> SUFFICES ASSUME NEW h PROVE Selected(<<>>, h) = <<>>
  OBVIOUS
<1>1. Len(<<>>) = 0
  BY EmptySeq
<1>2. PICK f : IsSelection(f, <<>>, h, 0) /\ Selected(<<>>, h) = f[0]
  BY <1>1, SelectedBy
<1> QED BY <1>2 DEF IsSelection

(* An element more is selected too or is not. *)
LEMMA SelectedAppend ==
  ASSUME NEW S, NEW s \in Seq(S), NEW x \in S, NEW h
  PROVE  Selected(Append(s, x), h) =
           IF x \in DOMAIN h THEN Append(Selected(s, h), h[x]) ELSE Selected(s, h)
<1> DEFINE t == Append(s, x)
           k == Len(s)
<1>1. k \in Nat /\ Len(t) = k + 1 /\ t[k+1] = x /\ \A i \in 1..k : s[i] = t[i]
  BY AppendProperties, LenProperties
<1> HIDE DEF t, k
<1>2. PICK f : IsSelection(f, s, h, k) /\ Selected(s, h) = f[k]
  BY <1>1, SelectedBy DEF k
<1>3. PICK g : IsSelection(g, t, h, k + 1) /\ Selected(t, h) = g[k+1]
  BY <1>1, SelectedBy
<1>4. \A i \in 0..k : f[i] = IF i = 0 THEN <<>>
                             ELSE IF s[i] \in DOMAIN h THEN Append(f[i-1], h[s[i]]) ELSE f[i-1]
  BY <1>2 DEF IsSelection
<1>5. \A i \in 0..(k+1) : g[i] = IF i = 0 THEN <<>>
                                 ELSE IF t[i] \in DOMAIN h THEN Append(g[i-1], h[t[i]]) ELSE g[i-1]
  BY <1>3 DEF IsSelection
<1> DEFINE U == {j \in Nat : j <= k => f[j] = g[j]}
<1>6. 0 \in U
  BY <1>1, <1>4, <1>5
<1>7. ASSUME NEW j \in U PROVE j + 1 \in U
  <2>1. CASE j + 1 > k
    BY <1>1, <2>1
  <2>2. CASE j + 1 <= k
    <3>1. f[j] = g[j] /\ s[j+1] = t[j+1]
      BY <1>1, <2>2
    <3>2. j + 1 \in 0..k /\ j + 1 \in 0..(k+1) /\ j + 1 # 0 /\ (j + 1) - 1 = j
      BY <1>1, <2>2
    <3>3. f[j+1] = IF s[j+1] \in DOMAIN h THEN Append(f[j], h[s[j+1]]) ELSE f[j]
      BY <1>4, <3>2
    <3>4. g[j+1] = IF t[j+1] \in DOMAIN h THEN Append(g[j], h[t[j+1]]) ELSE g[j]
      BY <1>5, <3>2
    <3> QED BY <3>1, <3>3, <3>4
  <2> QED BY <1>1, <2>1, <2>2
<1>8. U = Nat
  BY <1>6, <1>7, SetInduction
<1>9. f[k] = g[k]
  BY <1>1, <1>8
<1>10. k + 1 \in 0..(k+1) /\ k + 1 # 0 /\ (k + 1) - 1 = k
  BY <1>1
<1>11. g[k+1] = IF t[k+1] \in DOMAIN h THEN Append(g[k], h[t[k+1]]) ELSE g[k]
  BY <1>5, <1>10
<1> QED BY <1>1, <1>2, <1>3, <1>9, <1>11 DEF t

(* What is selected is of the kind that h makes of the elements. *)
LEMMA SelectedType ==
  ASSUME NEW S, NEW s \in Seq(S), NEW h, NEW R, \A x \in S \cap DOMAIN h : h[x] \in R
  PROVE  Selected(s, h) \in Seq(R)
<1> DEFINE V == {u \in Seq(S) : Selected(u, h) \in Seq(R)}
<1>1. <<>> \in V
  BY EmptySeq, SelectedEmpty
<1>2. ASSUME NEW u \in V, NEW x \in S PROVE Append(u, x) \in V
  <2>1. Append(u, x) \in Seq(S)
    BY AppendProperties
  <2>2. Selected(Append(u, x), h) =
          IF x \in DOMAIN h THEN Append(Selected(u, h), h[x]) ELSE Selected(u, h)
    BY SelectedAppend
  <2>3. ASSUME x \in DOMAIN h PROVE Append(Selected(u, h), h[x]) \in Seq(R)
    <3>1. h[x] \in R
      BY <2>3
    <3> QED BY <3>1, AppendProperties
  <2> QED BY <2>1, <2>2, <2>3
<1>3. V = Seq(S)
  BY <1>1, <1>2, SequenceInduction
<1> QED BY <1>3

(* What is selected from a sequence and from what follows it. *)
LEMMA SelectedConcat ==
  ASSUME NEW S, NEW s \in Seq(S), NEW t \in Seq(S), NEW h
  PROVE  Selected(s \o t, h) = Selected(s, h) \o Selected(t, h)
<1> DEFINE V == {u \in Seq(S) : Selected(s \o u, h) = Selected(s, h) \o Selected(u, h)}
           R == {h[x] : x \in S \cap DOMAIN h}
<1>0. \A u \in Seq(S) : Selected(u, h) \in Seq(R)
  <2>1. \A x \in S \cap DOMAIN h : h[x] \in R
    OBVIOUS
  <2> HIDE DEF R
  <2> QED BY <2>1, SelectedType
<1> HIDE DEF R
<1>1. <<>> \in V
  BY <1>0, EmptySeq, SelectedEmpty, ConcatEmptySeq
<1>2. ASSUME NEW u \in V, NEW x \in S PROVE Append(u, x) \in V
  <2>1. Append(u, x) \in Seq(S) /\ s \o u \in Seq(S)
    BY AppendProperties, ConcatProperties
  <2>2. s \o Append(u, x) = Append(s \o u, x)
    BY AppendOfConcat
  <2>3. Selected(s \o Append(u, x), h) =
          IF x \in DOMAIN h THEN Append(Selected(s \o u, h), h[x]) ELSE Selected(s \o u, h)
    <3> DEFINE su == s \o u
    <3>1. su \in Seq(S)
      BY <2>1
    <3> HIDE DEF su
    <3>2. Selected(Append(su, x), h) =
            IF x \in DOMAIN h THEN Append(Selected(su, h), h[x]) ELSE Selected(su, h)
      BY <3>1, SelectedAppend
    <3> QED BY <2>2, <3>2 DEF su
  <2>4. Selected(Append(u, x), h) =
          IF x \in DOMAIN h THEN Append(Selected(u, h), h[x]) ELSE Selected(u, h)
    BY SelectedAppend
  <2>5. Selected(u, h) \in Seq(R) /\ Selected(s, h) \in Seq(R)
    BY <1>0
  <2>6. Selected(s, h) \o Append(Selected(u, h), h[x])
          = Append(Selected(s, h) \o Selected(u, h), h[x])
    BY <2>5, AppendOfConcat
  <2> QED BY <2>1, <2>3, <2>4, <2>6
<1>3. V = Seq(S)
  BY <1>1, <1>2, SequenceInduction
<1> QED BY <1>3

(* y is an element of s. *)
IsIn(y, s) == \E i \in 1..Len(s) : s[i] = y

(* y is what h makes of an element of s. *)
IsMade(y, h, s) == \E i \in 1..Len(s) : s[i] \in DOMAIN h /\ h[s[i]] = y

(* What an element that h is defined for comes to is selected, and nothing *)
(* else is.                                                                *)
LEMMA SelectedMembers ==
  ASSUME NEW S, NEW s \in Seq(S), NEW h, NEW y
  PROVE  IsIn(y, Selected(s, h)) <=> IsMade(y, h, s)
<1> DEFINE R == {h[x] : x \in S \cap DOMAIN h}
           Y == {x \in S : x \in DOMAIN h /\ h[x] = y}
           Has(u) == \E i \in 1..Len(u) : u[i] \in Y
           Selects(u) == \E i \in 1..Len(u) : u[i] = y
           V == {u \in Seq(S) : Selects(Selected(u, h)) <=> Has(u)}
<1>0. \A u \in Seq(S) : Selected(u, h) \in Seq(R)
  <2>1. \A x \in S \cap DOMAIN h : h[x] \in R
    OBVIOUS
  <2> HIDE DEF R
  <2> QED BY <2>1, SelectedType
<1>1. <<>> \in V
  BY EmptySeq, SelectedEmpty
<1>2. ASSUME NEW u \in V, NEW x \in S PROVE Append(u, x) \in V
  <2>1. Append(u, x) \in Seq(S)
    BY AppendProperties
  <2>2. Has(Append(u, x)) <=> (Has(u) \/ x \in Y)
    <3>1. u \in Seq(S)
      OBVIOUS
    <3> HIDE DEF Y, V
    <3> QED BY <3>1, AppendMember
  <2>3. ASSUME x \in DOMAIN h
        PROVE  Selects(Append(Selected(u, h), h[x])) <=> (Selects(Selected(u, h)) \/ h[x] = y)
    <3> DEFINE c == Selected(u, h)
    <3>1. h[x] \in R /\ c \in Seq(R)
      BY <1>0, <2>3
    <3> HIDE DEF R, c
    <3> QED BY <3>1, AppendMembers DEF c
  <2>4. Selected(Append(u, x), h) =
          IF x \in DOMAIN h THEN Append(Selected(u, h), h[x]) ELSE Selected(u, h)
    BY SelectedAppend
  <2>5. x \in Y <=> x \in DOMAIN h /\ h[x] = y
    OBVIOUS
  <2>6. Selects(Selected(u, h)) <=> Has(u)
    OBVIOUS
  <2> HIDE DEF Has, Selects, Y
  <2>7. CASE x \in DOMAIN h
    BY <2>1, <2>2, <2>3, <2>4, <2>5, <2>6, <2>7
  <2>8. CASE x \notin DOMAIN h
    BY <2>1, <2>2, <2>4, <2>5, <2>6, <2>8
  <2> QED BY <2>7, <2>8
<1>3. V = Seq(S)
  <2> HIDE DEF Has, Selects
  <2> QED BY <1>1, <1>2, SequenceInduction
<1>4. Selects(Selected(s, h)) <=> Has(s)
  BY <1>3
<1>5. Has(s) <=> IsMade(y, h, s)
  BY ElementOfSeq DEF IsMade
<1>6. Selects(Selected(s, h)) <=> IsIn(y, Selected(s, h))
  BY DEF IsIn
<1> QED BY <1>4, <1>5, <1>6

(* Whatever is selected comes from an element. *)
LEMMA SelectedFrom ==
  ASSUME NEW S, NEW s \in Seq(S), NEW h, NEW i \in 1..Len(Selected(s, h))
  PROVE  \E j \in 1..Len(s) : s[j] \in DOMAIN h /\ h[s[j]] = Selected(s, h)[i]
<1>1. IsIn(Selected(s, h)[i], Selected(s, h))
  BY DEF IsIn
<1>2. IsMade(Selected(s, h)[i], h, s)
  BY <1>1, SelectedMembers
<1> QED BY <1>2 DEF IsMade

(* Whatever element h is defined for is selected. *)
LEMMA SelectedHas ==
  ASSUME NEW S, NEW s \in Seq(S), NEW h, NEW j \in 1..Len(s), s[j] \in DOMAIN h
  PROVE  \E i \in 1..Len(Selected(s, h)) : Selected(s, h)[i] = h[s[j]]
<1>1. IsMade(h[s[j]], h, s)
  BY DEF IsMade
<1>2. IsIn(h[s[j]], Selected(s, h))
  BY <1>1, SelectedMembers
<1> QED BY <1>2 DEF IsIn

(* What is selected, when nothing is. *)
LEMMA NothingSelected ==
  ASSUME NEW S, NEW s \in Seq(S), NEW h, \A i \in 1..Len(s) : s[i] \notin DOMAIN h
  PROVE  Selected(s, h) = <<>>
<1> DEFINE R == {h[x] : x \in S \cap DOMAIN h}
<1>1. Selected(s, h) \in Seq(R)
  <2>1. \A x \in S \cap DOMAIN h : h[x] \in R
    OBVIOUS
  <2> HIDE DEF R
  <2> QED BY <2>1, SelectedType
<1>2. SUFFICES ASSUME Selected(s, h) # <<>> PROVE FALSE
  OBVIOUS
<1>3. 1 \in 1..Len(Selected(s, h))
  BY <1>1, <1>2, EmptySeq
<1>4. \E i \in 1..Len(s) : s[i] \in DOMAIN h /\ h[s[i]] = Selected(s, h)[1]
  BY <1>3, SelectedFrom
<1> QED BY <1>4

(* A sequence without its first element. *)
LEMMA SelectedTail ==
  ASSUME NEW S, NEW s \in Seq(S), s # <<>>, NEW h
  PROVE  /\ Head(s) \in DOMAIN h =>
              /\ Selected(s, h) # <<>>
              /\ Head(Selected(s, h)) = h[Head(s)]
              /\ Tail(Selected(s, h)) = Selected(Tail(s), h)
         /\ Head(s) \notin DOMAIN h => Selected(Tail(s), h) = Selected(s, h)
<1> DEFINE x == Head(s)
           t == Tail(s)
           w == Selected(t, h)
           R == {h[y] : y \in S \cap DOMAIN h}
<1>1. x \in S /\ t \in Seq(S) /\ s = <<x>> \o t
  BY HeadThenTail
<1> HIDE DEF x, t
<1>2. Selected(s, h) = (IF x \in DOMAIN h THEN <<h[x]>> ELSE <<>>) \o w
  <2> DEFINE one == <<x>>
  <2>0. one \in Seq(S)
    BY <1>1
  <2>1. one = Append(<<>>, x) /\ s = one \o t
    BY <1>1
  <2> HIDE DEF one, R
  <2>2. Selected(one \o t, h) = Selected(one, h) \o w
    BY <1>1, <2>0, SelectedConcat
  <2>3. Selected(Append(<<>>, x), h) =
          IF x \in DOMAIN h THEN Append(Selected(<<>>, h), h[x]) ELSE Selected(<<>>, h)
    BY <1>1, EmptySeq, SelectedAppend
  <2>4. Selected(<<>>, h) = <<>> /\ Append(<<>>, h[x]) = <<h[x]>>
    BY SelectedEmpty
  <2> QED BY <2>1, <2>2, <2>3, <2>4
<1>3. w \in Seq(R)
  <2>1. \A y \in S \cap DOMAIN h : h[y] \in R
    OBVIOUS
  <2> HIDE DEF R
  <2> QED BY <1>1, <2>1, SelectedType
<1>4. CASE x \in DOMAIN h
  <2>1. h[x] \in R
    BY <1>1, <1>4
  <2> HIDE DEF w, R
  <2>2. Selected(s, h) = <<h[x]>> \o w
    BY <1>2, <1>4
  <2>3. <<h[x]>> \o w # <<>> /\ Head(<<h[x]>> \o w) = h[x] /\ Tail(<<h[x]>> \o w) = w
    BY <1>3, <2>1, HeadOfConcat
  <2> QED BY <1>4, <2>2, <2>3 DEF w, x, t
<1>5. CASE x \notin DOMAIN h
  <2> HIDE DEF w, R
  <2>1. Selected(s, h) = w
    BY <1>2, <1>3, <1>5, ConcatEmptySeq
  <2> QED BY <1>5, <2>1 DEF w, x, t
<1> QED BY <1>4, <1>5

=============================================================================
