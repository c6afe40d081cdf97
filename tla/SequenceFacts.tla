--------------------------- MODULE SequenceFacts ---------------------------
(***************************************************************************)
(* Induction over the natural numbers in a form the provers can use, a set *)
(* in place of a predicate, and what follows from it for FlattenSeq and    *)
(* FoldLeft of the community modules.                                      *)
(***************************************************************************)
EXTENDS Integers, SequencesExt, SequenceTheorems, WellFoundedInduction, TLAPS

\* A set of numbers that is not empty has a least one.
LEMMA MinIsIn ==
  ASSUME NEW S \in SUBSET Nat, S # {}
  PROVE  Min(S) \in S /\ \A m \in S : Min(S) <= m
<1> DEFINE Below == {ss \in Nat \X Nat : ss[1] < ss[2]}
<1>1. IsWellFoundedOn(Below, Nat)
  BY NatLessThanWellFounded, Zenon DEF OpToRel
<1>2. \A m, n \in Nat : m < n => <<m, n>> \in Below
  OBVIOUS
<1> HIDE DEF Below
<1>3. PICK n \in S : \A m \in S : <<m, n>> \notin Below
  BY <1>1, WFMin
<1>4. \A m \in S : ~(m < n)
  BY <1>2, <1>3
<1>5. \A m \in S : n <= m
  BY <1>4
<1> DEFINE least == CHOOSE n_ \in S : \A m \in S : n_ <= m
<1>6. least \in S /\ \A m \in S : least <= m
  BY <1>5, Zenon
<1>7. QED
  BY <1>6, Zenon DEF Min

\* What holds of 0, and of n + 1 whenever it holds of n, holds of every number.
LEMMA SetInduction ==
  ASSUME NEW T, 0 \in T, \A n \in Nat : n \in T => n + 1 \in T
  PROVE  \A n \in Nat : n \in T
<1> DEFINE Rest == {n \in Nat : n \notin T}
<1>1. SUFFICES ASSUME Rest # {} PROVE FALSE
  OBVIOUS
<1> DEFINE m == Min(Rest)
<1>2. m \in Rest /\ \A n \in Rest : m <= n
  BY <1>1, MinIsIn
<1> HIDE DEF m
<1>3. m \in Nat /\ m # 0 /\ m \notin T
  BY <1>2
<1>4. m - 1 \in Nat /\ m - 1 \notin Rest
  BY <1>2, <1>3
<1>5. m - 1 \in T /\ (m - 1) + 1 = m
  BY <1>3, <1>4
<1>6. QED
  BY <1>3, <1>4, <1>5

\* A sequence is as long as its domain.
LEMMA LengthIs ==
  ASSUME NEW S, NEW n \in Nat, NEW s \in [1..n -> S]
  PROVE  s \in Seq(S) /\ Len(s) = n
<1>1. s \in Seq(S)
  BY SeqDef
<1>2. Len(s) \in Nat /\ DOMAIN s = 1..Len(s) /\ DOMAIN s = 1..n
  BY <1>1, LenProperties
<1> DEFINE m == Len(s)
<1>3. m \in Nat /\ 1..m = 1..n
  BY <1>2
<1> HIDE DEF m
<1>4. m = n
  <2>1. m \in 0..n
    <3>1. m = 0 \/ m \in 1..m
      BY <1>3
    <3>2. QED
      BY <1>3, <3>1
  <2>2. n \in 0..m
    <3>1. n = 0 \/ n \in 1..n
      OBVIOUS
    <3>2. QED
      BY <1>3, <3>1
  <2>3. QED
    BY <1>3, <2>1, <2>2
<1>5. QED
  BY <1>1, <1>4 DEF m

-----------------------------------------------------------------------------
(* Front and Last. *)

\* A sequence is its front and its last element, which alone EXCEPT replaces.
LEMMA FrontAndLast ==
  ASSUME NEW S, NEW s \in Seq(S), s # <<>>
  PROVE  /\ Front(s) \in Seq(S) /\ Last(s) \in S
         /\ s = Append(Front(s), Last(s))
         /\ \A e \in S : [s EXCEPT ![Len(s)] = e] = Append(Front(s), e)
<1>1. Len(s) \in Nat /\ Len(s) # 0 /\ DOMAIN s = 1..Len(s)
  BY EmptySeq, LenProperties
<1> DEFINE n == Len(s)
           f == SubSeq(s, 1, n - 1)
<1>2. Last(s) \in S
  BY <1>1, ElementOfSeq DEF Last
<1>3. /\ f \in Seq(S) /\ Len(f) = n - 1
      /\ \A i \in 1..(n - 1) : f[i] = s[i]
  <2>1. \A i \in 1..(n - 1) : s[i] \in S
    BY <1>1, ElementOfSeq
  <2>2. 1 \in Int /\ n - 1 \in Int
    BY <1>1
  <2>3. /\ f \in Seq(S)
        /\ Len(f) = IF 1 <= n - 1 THEN (n - 1) - 1 + 1 ELSE 0
        /\ \A i \in 1..((n - 1) - 1 + 1) : f[i] = s[1 + i - 1]
    <3> HIDE DEF n
    <3>1. QED
      BY <2>1, <2>2, SubSeqProperties
  <2>4. n - 1 \in Nat /\ (n - 1) - 1 + 1 = n - 1
    BY <1>1
  <2>5. \A i \in 1..(n - 1) : 1 + i - 1 = i
    OBVIOUS
  <2>6. Len(f) = n - 1
    <3> HIDE DEF f, n
    <3>1. QED
      BY <2>3, <2>4
  <2>7. \A i \in 1..(n - 1) : f[i] = s[i]
    <3> HIDE DEF f, n
    <3>1. QED
      BY <2>3, <2>4, <2>5
  <2>8. QED
    BY <2>3, <2>6, <2>7
<1> HIDE DEF f
<1>4. ASSUME NEW e \in S
      PROVE  /\ Append(f, e) \in Seq(S) /\ Len(Append(f, e)) = n
             /\ \A i \in 1..n : Append(f, e)[i] = IF i = n THEN e ELSE s[i]
  <2>1. /\ Append(f, e) \in Seq(S) /\ Len(Append(f, e)) = (n - 1) + 1
        /\ \A i \in 1..(n - 1) : Append(f, e)[i] = f[i]
        /\ Append(f, e)[(n - 1) + 1] = e
    BY <1>3, AppendProperties
  <2>2. (n - 1) + 1 = n /\ \A i \in 1..n : i = n \/ i \in 1..(n - 1)
    <3>1. n \in Nat
      BY <1>1
    <3> HIDE DEF n
    <3>2. QED
      BY <3>1
  <2> HIDE DEF n
  <2>3. \A i \in 1..n : Append(f, e)[i] = IF i = n THEN e ELSE s[i]
    <3> TAKE i \in 1..n
    <3>1. CASE i = n
      BY <2>1, <2>2, <3>1
    <3>2. CASE i # n
      <4>1. i \in 1..(n - 1)
        BY <2>2, <3>2
      <4>2. QED
        BY <1>3, <2>1, <3>2, <4>1
    <3>3. QED
      BY <3>1, <3>2
  <2>4. QED
    BY <2>1, <2>2, <2>3
<1>5. s = Append(f, Last(s))
  <2>1. \A i \in 1..n : s[i] = Append(f, Last(s))[i]
    BY <1>1, <1>2, <1>4 DEF Last
  <2>2. QED
    BY <1>2, <1>4, <2>1, SeqEqual
<1>6. ASSUME NEW e \in S
      PROVE  [s EXCEPT ![n] = e] = Append(f, e)
  <2> DEFINE t == [s EXCEPT ![n] = e]
  <2>1. t \in Seq(S) /\ Len(t) = n /\ \A i \in 1..n : t[i] = IF i = n THEN e ELSE s[i]
    BY <1>1, ExceptSeq
  <2> DEFINE u == Append(f, e)
  <2>2. u \in Seq(S) /\ Len(u) = n /\ \A i \in 1..n : u[i] = IF i = n THEN e ELSE s[i]
    BY <1>4
  <2> HIDE DEF t, u, n
  <2>3. t = u
    BY <2>1, <2>2, SeqEqual
  <2>4. QED
    BY <2>3 DEF t, u
<1>7. QED
  BY <1>2, <1>3, <1>5, <1>6 DEF Front, f

\* The front of a sequence with an element added, and its last element.
LEMMA FrontOfAppend ==
  ASSUME NEW S, NEW s \in Seq(S), NEW e \in S
  PROVE  Front(Append(s, e)) = s /\ Last(Append(s, e)) = e
<1> DEFINE t == Append(s, e)
<1>1. /\ t \in Seq(S) /\ t # <<>> /\ Len(t) = Len(s) + 1 /\ Len(s) \in Nat
      /\ \A i \in 1..Len(s) : t[i] = s[i]
      /\ t[Len(s) + 1] = e
  BY AppendProperties, LenProperties
<1> HIDE DEF t
<1>2. Last(t) = e
  BY <1>1 DEF Last
<1>3. Front(t) \in Seq(S) /\ t = Append(Front(t), Last(t))
  BY <1>1, FrontAndLast
<1>4. /\ Len(Front(t)) \in Nat /\ Len(t) = Len(Front(t)) + 1
      /\ \A i \in 1..Len(Front(t)) : t[i] = Front(t)[i]
  BY <1>1, <1>2, <1>3, AppendProperties, LenProperties
<1>5. Len(Front(t)) = Len(s)
  BY <1>1, <1>4
<1>6. Front(t) = s
  BY <1>1, <1>3, <1>4, <1>5, SeqEqual
<1>7. QED
  BY <1>2, <1>6 DEF t

-----------------------------------------------------------------------------
(* FlattenSeq. *)

\* The function FlattenSeq chooses.
Joins(s, n) == CHOOSE f : f = [i \in 1..n |-> IF i = 1 THEN s[i] ELSE f[i - 1] \o s[i]]

\* It exists.
LEMMA JoinsExist ==
  ASSUME NEW s, NEW n \in Nat
  PROVE  Joins(s, n) = [i \in 1..n |-> IF i = 1 THEN s[i] ELSE Joins(s, n)[i - 1] \o s[i]]
<1> DEFINE Is(f, k) == f = [i \in 1..k |-> IF i = 1 THEN s[i] ELSE f[i - 1] \o s[i]]
           T == {k \in Nat : \E f : Is(f, k)}
<1>1. 0 \in T
  <2>1. Is([i \in 1..0 |-> s[i]], 0)
    OBVIOUS
  <2>2. QED
    BY <2>1
<1>2. ASSUME NEW k \in Nat, k \in T
      PROVE  k + 1 \in T
  <2>1. PICK f : Is(f, k)
    BY <1>2
  <2> DEFINE g == [i \in 1..(k + 1) |-> IF i = 1 THEN s[i] ELSE f[i - 1] \o s[i]]
  <2>2. ASSUME NEW i \in 1..k PROVE g[i] = f[i]
    <3> DEFINE h == [j \in 1..k |-> IF j = 1 THEN s[j] ELSE f[j - 1] \o s[j]]
    <3>1. f = h
      BY <2>1
    <3>2. h[i] = IF i = 1 THEN s[i] ELSE f[i - 1] \o s[i]
      OBVIOUS
    <3>3. g[i] = IF i = 1 THEN s[i] ELSE f[i - 1] \o s[i]
      OBVIOUS
    <3> HIDE DEF g, h
    <3>4. QED
      BY <3>1, <3>2, <3>3
  <2>3. ASSUME NEW i \in 1..(k + 1) PROVE g[i] = IF i = 1 THEN s[i] ELSE g[i - 1] \o s[i]
    <3>1. i # 1 => i - 1 \in 1..k
      OBVIOUS
    <3>2. i # 1 => g[i - 1] = f[i - 1]
      BY <3>1, <2>2
    <3>3. QED
      BY <3>2
  <2>4. Is(g, k + 1)
    <3> DEFINE h == [i \in 1..(k + 1) |-> IF i = 1 THEN s[i] ELSE g[i - 1] \o s[i]]
    <3>1. \A i \in 1..(k + 1) : g[i] = h[i]
      BY <2>3
    <3>2. QED
      BY <3>1
  <2> HIDE DEF g, Is
  <2>5. QED
    BY <2>4
<1> HIDE DEF T
<1>3. n \in T
  BY <1>1, <1>2, SetInduction
<1>4. \E f : Is(f, n)
  BY <1>3 DEF T
<1>5. Is(Joins(s, n), n)
  BY <1>4, Zenon DEF Joins
<1>6. QED
  BY <1>5

\* It depends on the sequences it joins only.
LEMMA JoinsAgree ==
  ASSUME NEW s, NEW t, NEW m \in Nat, NEW n \in Nat, NEW k \in Nat, k <= m, k <= n,
         \A i \in 1..k : s[i] = t[i], k > 0
  PROVE  Joins(s, m)[k] = Joins(t, n)[k]
<1> DEFINE F == Joins(s, m)
           G == Joins(t, n)
           T == {i \in Nat : i = 0 \/ i > k \/ F[i] = G[i]}
<1>1. /\ \A i \in 1..k : F[i] = IF i = 1 THEN s[i] ELSE F[i - 1] \o s[i]
      /\ \A i \in 1..k : G[i] = IF i = 1 THEN t[i] ELSE G[i - 1] \o t[i]
  <2> DEFINE FF == [i \in 1..m |-> IF i = 1 THEN s[i] ELSE F[i - 1] \o s[i]]
             GG == [i \in 1..n |-> IF i = 1 THEN t[i] ELSE G[i - 1] \o t[i]]
  <2>1. F = FF /\ G = GG
    BY JoinsExist
  <2> HIDE DEF F, G
  <2>2. \A i \in 1..k : FF[i] = (IF i = 1 THEN s[i] ELSE F[i - 1] \o s[i])
    OBVIOUS
  <2>3. \A i \in 1..k : GG[i] = (IF i = 1 THEN t[i] ELSE G[i - 1] \o t[i])
    OBVIOUS
  <2>4. QED
    BY <2>1, <2>2, <2>3
<1> HIDE DEF F, G
<1>2. 0 \in T
  OBVIOUS
<1>3. ASSUME NEW i \in Nat, i \in T
      PROVE  i + 1 \in T
  <2>1. CASE i + 1 > k
    BY <2>1
  <2>2. CASE i = 0 /\ i + 1 <= k
    <3>1. F[1] = s[1] /\ G[1] = t[1]
      BY <1>1, <2>2
    <3>2. QED
      BY <3>1, <2>2
  <2>3. CASE i # 0 /\ i + 1 <= k
    <3>1. F[i] = G[i]
      BY <1>3, <2>3
    <3>2. i + 1 \in 1..k /\ (i + 1) - 1 = i /\ i + 1 # 1
      BY <2>3
    <3>3. F[i + 1] = F[i] \o s[i + 1] /\ G[i + 1] = G[i] \o t[i + 1]
      BY <1>1, <3>2
    <3>4. F[i + 1] = G[i + 1]
      BY <3>1, <3>2, <3>3
    <3>5. QED
      BY <3>4
  <2>4. QED
    BY <2>1, <2>2, <2>3
<1> HIDE DEF T
<1>4. k \in T
  BY <1>2, <1>3, SetInduction
<1>5. QED
  BY <1>4 DEF T, F, G

\* FlattenSeq by its last element, and by the function above.
LEMMA FlattenByJoins ==
  ASSUME NEW R, NEW s \in Seq(R), s # <<>>
  PROVE  FlattenSeq(s) = Joins(s, Len(s))[Len(s)]
<1>1. Len(s) # 0
  BY EmptySeq, Zenon
<1>2. QED
  BY <1>1 DEF FlattenSeq, Joins

\* A sequence of sequences flattened is a sequence of their elements.
LEMMA FlattenType ==
  ASSUME NEW R, NEW s \in Seq(Seq(R))
  PROVE  FlattenSeq(s) \in Seq(R)
<1>0. Len(s) \in Nat /\ DOMAIN s = 1..Len(s)
  BY LenProperties
<1>1. CASE s = <<>>
  <2>1. FlattenSeq(s) = s
    BY <1>1, EmptySeq, Zenon DEF FlattenSeq
  <2>2. QED
    BY <1>1, <2>1, EmptySeq
<1>2. CASE s # <<>>
  <2> DEFINE F == Joins(s, Len(s))
             T == {i \in Nat : i = 0 \/ i > Len(s) \/ F[i] \in Seq(R)}
  <2>1. \A i \in 1..Len(s) : F[i] = IF i = 1 THEN s[i] ELSE F[i - 1] \o s[i]
    <3> DEFINE FF == [i \in 1..Len(s) |-> IF i = 1 THEN s[i] ELSE F[i - 1] \o s[i]]
    <3>1. F = FF
      BY <1>0, JoinsExist
    <3> HIDE DEF F
    <3>2. \A i \in 1..Len(s) : FF[i] = (IF i = 1 THEN s[i] ELSE F[i - 1] \o s[i])
      OBVIOUS
    <3>3. QED
      BY <3>1, <3>2
  <2> HIDE DEF F
  <2>2. 0 \in T
    OBVIOUS
  <2>3. ASSUME NEW i \in Nat, i \in T
        PROVE  i + 1 \in T
    <3>1. CASE i + 1 > Len(s)
      BY <3>1
    <3>2. CASE i + 1 <= Len(s)
      <4>1. i + 1 \in 1..Len(s) /\ (i + 1) - 1 = i /\ s[i + 1] \in Seq(R)
        BY <1>0, <3>2, ElementOfSeq
      <4>2. CASE i = 0
        <5>1. F[1] = s[1]
          BY <2>1, <4>1, <4>2
        <5>2. QED
          BY <4>1, <4>2, <5>1
      <4>3. CASE i # 0
        <5>1. F[i + 1] = F[i] \o s[i + 1]
          <6>1. F[i + 1] = IF i + 1 = 1 THEN s[i + 1] ELSE F[(i + 1) - 1] \o s[i + 1]
            BY <2>1, <4>1
          <6>2. i + 1 # 1
            BY <4>3
          <6>3. QED
            BY <6>1, <6>2, <4>1
        <5>2. F[i] \in Seq(R)
          BY <1>0, <2>3, <3>2, <4>3
        <5>3. F[i + 1] \in Seq(R)
          BY <4>1, <5>1, <5>2, ConcatProperties
        <5>4. QED
          BY <5>3
      <4>4. QED
        BY <4>2, <4>3
    <3>3. QED
      BY <1>0, <3>1, <3>2
  <2> HIDE DEF T
  <2>4. Len(s) \in T
    BY <1>0, <2>2, <2>3, SetInduction
  <2>5. F[Len(s)] \in Seq(R)
    BY <1>0, <1>2, <2>4, EmptySeq DEF T
  <2>6. QED
    BY <1>2, <2>5, FlattenByJoins DEF F
<1>3. QED
  BY <1>1, <1>2

\* What comes last goes last.
LEMMA FlattenLast ==
  ASSUME NEW R, NEW s \in Seq(Seq(R)), NEW r \in Seq(R)
  PROVE  FlattenSeq(Append(s, r)) = FlattenSeq(s) \o r
<1> DEFINE t == Append(s, r)
           n == Len(s)
<1>1. /\ n \in Nat /\ n + 1 \in Nat /\ n <= n + 1 /\ n <= n
      /\ t \in Seq(Seq(R)) /\ t # <<>> /\ Len(t) = n + 1
      /\ \A i \in 1..n : t[i] = s[i]
      /\ t[n + 1] = r
  BY LenProperties, AppendProperties
<1> HIDE DEF t
<1> DEFINE F == Joins(t, n + 1)
<1>2. FlattenSeq(t) = F[n + 1]
  BY <1>1, FlattenByJoins
<1>3. F[n + 1] = IF n + 1 = 1 THEN t[n + 1] ELSE F[n] \o t[n + 1]
  <2> DEFINE FF == [i \in 1..(n + 1) |-> IF i = 1 THEN t[i] ELSE F[i - 1] \o t[i]]
  <2>1. F = FF
    <3> HIDE DEF n
    <3>1. QED
      BY <1>1, JoinsExist
  <2> HIDE DEF F
  <2>2. n + 1 \in 1..(n + 1) /\ (n + 1) - 1 = n
    BY <1>1
  <2>3. FF[n + 1] = IF n + 1 = 1 THEN t[n + 1] ELSE F[n] \o t[n + 1]
    BY <2>2
  <2> HIDE DEF FF
  <2>4. QED
    BY <2>1, <2>3
<1>4. CASE s = <<>>
  <2>1. n = 0 /\ FlattenSeq(s) = s
    BY <1>4, EmptySeq DEF FlattenSeq
  <2>2. FlattenSeq(t) = r
    BY <1>1, <1>2, <1>3, <2>1
  <2>3. <<>> \o r = r
    BY ConcatEmptySeq
  <2>4. QED
    BY <1>4, <2>1, <2>2, <2>3 DEF t
<1>5. CASE s # <<>>
  <2>1. n > 0
    BY <1>1, <1>5, EmptySeq
  <2>2. F[n] = Joins(s, n)[n]
    <3> HIDE DEF n
    <3>1. QED
      BY <1>1, <2>1, JoinsAgree
  <2>3. FlattenSeq(s) = F[n]
    BY <1>5, <2>2, FlattenByJoins
  <2>4. FlattenSeq(t) = F[n] \o r
    <3> HIDE DEF F, n
    <3>1. QED
      BY <1>1, <1>2, <1>3, <2>1
  <2>5. QED
    BY <2>3, <2>4 DEF t
<1>6. QED
  BY <1>4, <1>5

-----------------------------------------------------------------------------
(* Sums: FoldLeft with +, which chooses a function on sets of positions. *)

Sum(w) == FoldLeft(+, 0, w)

Sums(w, S) ==
  CHOOSE f : f = [s \in SUBSET S |-> IF s = {} THEN 0 ELSE f[s \ {Max(s)}] + w[Max(s)]]

\* The greatest number of an interval, and of a part that reaches its end.
LEMMA MaxIsLast ==
  ASSUME NEW n \in Nat, NEW s \in SUBSET (1..(n + 1)), n + 1 \in s
  PROVE  Max(s) = n + 1
<1> DEFINE greatest == CHOOSE x \in s : \A y \in s : x >= y
<1>1. \A y \in s : n + 1 >= y
  OBVIOUS
<1>2. greatest \in s /\ \A y \in s : greatest >= y
  BY <1>1, Zenon
<1> HIDE DEF greatest
<1>3. greatest = n + 1
  BY <1>1, <1>2
<1>4. QED
  BY <1>3, Zenon DEF Max, greatest

\* The function exists.
LEMMA SumsExist ==
  ASSUME NEW w, NEW n \in Nat
  PROVE  Sums(w, 1..n) = [s \in SUBSET (1..n) |->
           IF s = {} THEN 0 ELSE Sums(w, 1..n)[s \ {Max(s)}] + w[Max(s)]]
<1> DEFINE Is(f, k) == f = [s \in SUBSET (1..k) |->
                              IF s = {} THEN 0 ELSE f[s \ {Max(s)}] + w[Max(s)]]
           T == {k \in Nat : \E f : Is(f, k)}
<1>1. 0 \in T
  <2> DEFINE f == [s \in SUBSET (1..0) |-> 0]
  <2>1. \A s \in SUBSET (1..0) : s = {}
    OBVIOUS
  <2>2. Is(f, 0)
    BY <2>1
  <2> HIDE DEF f, Is
  <2>3. QED
    BY <2>2
<1>2. ASSUME NEW k \in Nat, k \in T
      PROVE  k + 1 \in T
  <2>1. PICK f : Is(f, k)
    BY <1>2
  <2> DEFINE g == [s \in SUBSET (1..(k + 1)) |->
                     IF k + 1 \in s THEN f[s \ {k + 1}] + w[k + 1] ELSE f[s]]
             h == [s \in SUBSET (1..(k + 1)) |->
                     IF s = {} THEN 0 ELSE g[s \ {Max(s)}] + w[Max(s)]]
  <2>2. ASSUME NEW s \in SUBSET (1..(k + 1))
        PROVE  g[s] = h[s]
    <3>1. CASE k + 1 \in s
      <4>1. Max(s) = k + 1 /\ s # {}
        BY <3>1, MaxIsLast
      <4>2. s \ {k + 1} \in SUBSET (1..(k + 1)) /\ k + 1 \notin s \ {k + 1}
        OBVIOUS
      <4>3. g[s \ {k + 1}] = f[s \ {k + 1}]
        BY <4>2
      <4>4. g[s] = f[s \ {k + 1}] + w[k + 1]
        BY <3>1
      <4>5. h[s] = g[s \ {Max(s)}] + w[Max(s)]
        BY <4>1
      <4> HIDE DEF g, h
      <4>6. QED
        BY <4>1, <4>3, <4>4, <4>5
    <3>2. CASE k + 1 \notin s
      <4>1. s \in SUBSET (1..k)
        BY <3>2
      <4>2. g[s] = f[s]
        BY <3>2
      <4>3. f[s] = IF s = {} THEN 0 ELSE f[s \ {Max(s)}] + w[Max(s)]
        <5> DEFINE ff == [t \in SUBSET (1..k) |->
                            IF t = {} THEN 0 ELSE f[t \ {Max(t)}] + w[Max(t)]]
        <5>1. f = ff
          BY <2>1
        <5>2. ff[s] = IF s = {} THEN 0 ELSE f[s \ {Max(s)}] + w[Max(s)]
          BY <4>1
        <5> HIDE DEF ff
        <5>3. QED
          BY <5>1, <5>2
      <4>4. s \ {Max(s)} \in SUBSET (1..(k + 1)) /\ k + 1 \notin s \ {Max(s)}
        BY <3>2
      <4>5. g[s \ {Max(s)}] = f[s \ {Max(s)}]
        BY <4>4
      <4>6. h[s] = IF s = {} THEN 0 ELSE g[s \ {Max(s)}] + w[Max(s)]
        OBVIOUS
      <4> HIDE DEF g, h
      <4>7. QED
        BY <4>2, <4>3, <4>5, <4>6
    <3>3. QED
      BY <3>1, <3>2
  <2>3. g = h
    BY <2>2
  <2>4. Is(g, k + 1)
    BY <2>3
  <2> HIDE DEF g, Is
  <2>5. QED
    BY <2>4
<1> HIDE DEF T
<1>3. n \in T
  BY <1>1, <1>2, SetInduction
<1>4. \E f : Is(f, n)
  BY <1>3 DEF T
<1>5. Is(Sums(w, 1..n), n)
  BY <1>4, Zenon DEF Sums
<1>6. QED
  BY <1>5

\* What it is on an initial part.
LEMMA SumsStep ==
  ASSUME NEW w, NEW n \in Nat, NEW k \in Nat, k < n
  PROVE  /\ Sums(w, 1..n)[1..0] = 0
         /\ Sums(w, 1..n)[1..(k + 1)] = Sums(w, 1..n)[1..k] + w[k + 1]
<1> DEFINE F == Sums(w, 1..n)
           FF == [s \in SUBSET (1..n) |-> IF s = {} THEN 0 ELSE F[s \ {Max(s)}] + w[Max(s)]]
<1>1. F = FF
  BY SumsExist
<1> HIDE DEF F
<1>2. FF[1..0] = 0
  OBVIOUS
<1>3. /\ 1..(k + 1) \in SUBSET (1..n) /\ 1..(k + 1) # {}
      /\ k + 1 \in 1..(k + 1) /\ (1..(k + 1)) \ {k + 1} = 1..k
  <2>1. k + 1 \in 1..(k + 1)
    OBVIOUS
  <2>2. 1..(k + 1) \in SUBSET (1..n)
    OBVIOUS
  <2>3. \A i : i \in (1..(k + 1)) \ {k + 1} <=> i \in 1..k
    OBVIOUS
  <2>4. (1..(k + 1)) \ {k + 1} = 1..k
    BY <2>3
  <2>5. QED
    BY <2>1, <2>2, <2>4
<1>4. Max(1..(k + 1)) = k + 1
  BY <1>3, MaxIsLast
<1>5. FF[1..(k + 1)] = F[1..k] + w[k + 1]
  BY <1>3, <1>4
<1> HIDE DEF FF
<1>6. QED
  BY <1>1, <1>2, <1>5 DEF F

\* It depends on the numbers it adds only.
LEMMA SumsAgree ==
  ASSUME NEW v, NEW w, NEW m \in Nat, NEW n \in Nat, NEW k \in Nat, k <= m, k <= n,
         \A i \in 1..k : v[i] = w[i]
  PROVE  Sums(v, 1..m)[1..k] = Sums(w, 1..n)[1..k]
<1> DEFINE F(i) == Sums(v, 1..m)[1..i]
           G(i) == Sums(w, 1..n)[1..i]
           T == {i \in Nat : i > k \/ F(i) = G(i)}
<1>1. 0 \in T
  <2> DEFINE FF == [s \in SUBSET (1..m) |-> IF s = {} THEN 0 ELSE Sums(v, 1..m)[s \ {Max(s)}] + v[Max(s)]]
             GG == [s \in SUBSET (1..n) |-> IF s = {} THEN 0 ELSE Sums(w, 1..n)[s \ {Max(s)}] + w[Max(s)]]
  <2>1. Sums(v, 1..m) = FF /\ Sums(w, 1..n) = GG
    BY SumsExist
  <2>2. FF[1..0] = 0 /\ GG[1..0] = 0
    OBVIOUS
  <2> HIDE DEF FF, GG
  <2>3. QED
    BY <2>1, <2>2
<1>2. ASSUME NEW i \in Nat, i \in T
      PROVE  i + 1 \in T
  <2>1. CASE i + 1 > k
    BY <2>1
  <2>2. CASE i + 1 <= k
    <3>1. i < m /\ i < n /\ i + 1 \in 1..k /\ ~(i > k)
      BY <2>2
    <3>2. F(i + 1) = F(i) + v[i + 1] /\ G(i + 1) = G(i) + w[i + 1]
      BY <3>1, SumsStep
    <3>3. F(i) = G(i)
      BY <1>2, <3>1
    <3> HIDE DEF F, G
    <3>4. F(i + 1) = G(i + 1)
      BY <3>1, <3>2, <3>3
    <3>5. QED
      BY <3>4
  <2>3. QED
    BY <2>1, <2>2
<1> HIDE DEF T
<1>3. k \in T
  BY <1>1, <1>2, SetInduction
<1> HIDE DEF F, G
<1>4. F(k) = G(k)
  BY <1>3 DEF T
<1>5. QED
  BY <1>4 DEF F, G

\* The sum of all is its value on all positions.
LEMMA SumBySums ==
  ASSUME NEW S, NEW w \in Seq(S)
  PROVE  Sum(w) = Sums(w, 1..Len(w))[1..Len(w)]
<1>1. DOMAIN w = 1..Len(w)
  BY LenProperties
<1>2. Sum(w) = Sums(w, DOMAIN w)[DOMAIN w]
  BY DEF Sum, Sums, FoldLeft, MapThenFoldSet
<1>3. QED
  BY <1>1, <1>2

\* Nothing sums up to 0, and what comes last is added.
LEMMA SumLast ==
  ASSUME NEW S, NEW w \in Seq(S), NEW x \in S
  PROVE  Sum(<<>>) = 0 /\ Sum(Append(w, x)) = Sum(w) + x
<1> DEFINE v == Append(w, x)
           n == Len(w)
<1>1. /\ n \in Nat /\ n + 1 \in Nat /\ n <= n + 1 /\ n <= n /\ n < n + 1 /\ v \in Seq(S)
      /\ Len(v) = n + 1 /\ v[n + 1] = x
      /\ \A i \in 1..n : v[i] = w[i]
  BY LenProperties, AppendProperties
<1>2. Sum(<<>>) = 0
  <2>1. <<>> \in Seq(S) /\ Len(<<>>) = 0
    BY EmptySeq
  <2>2. Sum(<<>>) = Sums(<<>>, 1..0)[1..0]
    BY <2>1, SumBySums
  <2> DEFINE F == Sums(<<>>, 1..0)
             FF == [s \in SUBSET (1..0) |-> IF s = {} THEN 0 ELSE F[s \ {Max(s)}] + <<>>[Max(s)]]
  <2>3. F = FF
    BY SumsExist
  <2> HIDE DEF F
  <2>4. FF[1..0] = 0
    OBVIOUS
  <2> HIDE DEF FF
  <2>5. QED
    BY <2>2, <2>3, <2>4 DEF F
<1> HIDE DEF v, n
<1>3. Sum(v) = Sums(v, 1..(n + 1))[1..(n + 1)]
  BY <1>1, SumBySums
<1>4. Sums(v, 1..(n + 1))[1..(n + 1)] = Sums(v, 1..(n + 1))[1..n] + v[n + 1]
  BY <1>1, SumsStep
<1>5. Sums(v, 1..(n + 1))[1..n] = Sums(w, 1..n)[1..n]
  BY <1>1, SumsAgree
<1>6. Sum(w) = Sums(w, 1..n)[1..n]
  BY SumBySums DEF n
<1>7. QED
  BY <1>1, <1>2, <1>3, <1>4, <1>5, <1>6 DEF v
=============================================================================
