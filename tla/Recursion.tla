------------------------------ MODULE Recursion ------------------------------
(***************************************************************************)
(* Induction over the natural numbers, stated of a set of numbers so that  *)
(* every prover can use it, and what follows for functions that are        *)
(* defined by recursion: sequences that are joined, and functions that are *)
(* applied again and again.                                                *)
(***************************************************************************)
EXTENDS SequencesExt, WellFoundedInduction, TLAPS

-----------------------------------------------------------------------------
(***************************************************************************)
(* Induction                                                               *)
(***************************************************************************)
LEMMA Smallest ==
  ASSUME NEW S, S \subseteq Nat, S # {}
  PROVE  \E m \in S : \A k \in S : m <= k
<1>1. IsWellFoundedOn(OpToRel(<, Nat), Nat)
  BY NatLessThanWellFounded
<1>2. PICK m \in S : \A k \in S : ~(<<k, m>> \in OpToRel(<, Nat))
  BY <1>1, WFMin
<1>3. \A k \in S : ~(k < m)
  BY <1>2 DEF OpToRel
<1> QED
  BY <1>3

LEMMA Induction ==
  ASSUME NEW S, 0 \in S, \A n \in Nat : n \in S => n + 1 \in S
  PROVE  Nat \subseteq S
<1> SUFFICES ASSUME Nat \ S # {}
             PROVE  FALSE
  OBVIOUS
<1>1. PICK m \in Nat \ S : \A k \in Nat \ S : m <= k
  <2>1. Nat \ S \subseteq Nat
    OBVIOUS
  <2> QED
    BY <2>1, Smallest
<1>2. m # 0 /\ m - 1 \in Nat /\ m - 1 < m
  BY <1>1
<1>3. m - 1 \in S
  BY <1>1, <1>2
<1> QED
  BY <1>2, <1>3

-----------------------------------------------------------------------------
(***************************************************************************)
(* FlattenSeq                                                              *)
(***************************************************************************)
Flattens(ss, f, n) ==
  f = [k \in 1 .. n |-> IF k = 1 THEN ss[k] ELSE f[k - 1] \o ss[k]]

LEMMA JoinedElements ==
  ASSUME NEW S, NEW a \in Seq(S), NEW b \in Seq(S)
  PROVE  a \o b \in Seq(S) /\ Range(a \o b) = Range(a) \cup Range(b)
<1> DEFINE m == Len(a)
           n == Len(b)
           c == a \o b
<1>1. /\ m \in Nat /\ n \in Nat /\ DOMAIN a = 1 .. m /\ DOMAIN b = 1 .. n
      /\ c \in Seq(S) /\ DOMAIN c = 1 .. m + n
      /\ \A k \in 1 .. m : c[k] = a[k]
      /\ \A k \in 1 .. n : c[m + k] = b[k]
  OBVIOUS
<1> HIDE DEF m, n, c
<1>2. \A k \in DOMAIN c : k \in 1 .. m \/ \E j \in 1 .. n : k = m + j
  <2> TAKE k \in DOMAIN c
  <2>1. k \in 1 .. m \/ (k - m \in 1 .. n /\ k = m + (k - m))
    BY <1>1
  <2> QED
    BY <2>1
<1>3. \A k \in 1 .. m : k \in DOMAIN c
  BY <1>1
<1>4. \A k \in 1 .. n : m + k \in DOMAIN c
  BY <1>1
<1>5. Range(c) = Range(a) \cup Range(b)
  <2>1. ASSUME NEW x \in Range(c)
        PROVE  x \in Range(a) \cup Range(b)
    <3>1. PICK k \in DOMAIN c : c[k] = x
      BY DEF Range
    <3>2. CASE k \in 1 .. m
      BY <1>1, <3>1, <3>2 DEF Range
    <3>3. CASE \E j \in 1 .. n : k = m + j
      BY <1>1, <3>1, <3>3 DEF Range
    <3> QED
      BY <1>2, <3>2, <3>3
  <2>2. ASSUME NEW x \in Range(a) \cup Range(b)
        PROVE  x \in Range(c)
    BY <1>1, <1>3, <1>4 DEF Range
  <2> QED
    BY <2>1, <2>2
<1> QED
  BY <1>1, <1>5 DEF c

LEMMA FlattensExists ==
  ASSUME NEW ss, NEW n \in Nat
  PROVE  \E f : Flattens(ss, f, n)
<1> DEFINE S == {m \in Nat : \E f : Flattens(ss, f, m)}
<1>1. 0 \in S
  <2>1. Flattens(ss, <<>>, 0)
    BY DEF Flattens
  <2> QED
    BY <2>1
<1>2. ASSUME NEW m \in Nat, m \in S
      PROVE  m + 1 \in S
  <2>1. PICK f : Flattens(ss, f, m)
    BY <1>2
  <2> DEFINE g == [k \in 1 .. m + 1 |-> IF k = m + 1 THEN IF m = 0 THEN ss[1] ELSE f[m] \o ss[m + 1] ELSE f[k]]
  <2>2. DOMAIN f = 1 .. m /\ \A k \in 1 .. m : f[k] = IF k = 1 THEN ss[k] ELSE f[k - 1] \o ss[k]
    BY <2>1 DEF Flattens
  <2>3. ASSUME NEW k \in 1 .. m + 1
        PROVE  g[k] = IF k = 1 THEN ss[k] ELSE g[k - 1] \o ss[k]
    <3>1. k \in 1 .. m \/ k = m + 1
      OBVIOUS
    <3>2. CASE k \in 1 .. m
      <4>1. k # m + 1 /\ (k # 1 => k - 1 \in 1 .. m + 1 /\ k - 1 # m + 1)
        BY <3>2
      <4>2. g[k] = f[k] /\ (k # 1 => g[k - 1] = f[k - 1])
        BY <4>1
      <4> QED
        BY <2>2, <3>2, <4>2
    <3>3. CASE k = m + 1
      <4>1. k # 1 => k - 1 \in 1 .. m + 1 /\ k - 1 = m /\ m # m + 1
        BY <3>3
      <4> QED
        BY <3>3, <4>1
    <3> QED
      BY <3>1, <3>2, <3>3
  <2>4. g = [k \in 1 .. m + 1 |-> IF k = 1 THEN ss[k] ELSE g[k - 1] \o ss[k]]
    BY <2>3
  <2>5. Flattens(ss, g, m + 1)
    BY <2>4 DEF Flattens
  <2> QED
    BY <2>5
<1> HIDE DEF S
<1>3. Nat \subseteq S
  BY <1>1, <1>2, Induction
<1> QED
  BY <1>3 DEF S

LEMMA FlattenEquation ==
  ASSUME NEW ss, Len(ss) \in Nat \ {0}
  PROVE  \E f : Flattens(ss, f, Len(ss)) /\ FlattenSeq(ss) = f[Len(ss)]
<1> DEFINE f == CHOOSE g : g = [k \in 1 .. Len(ss) |-> IF k = 1 THEN ss[k] ELSE g[k - 1] \o ss[k]]
<1>1. \E g : Flattens(ss, g, Len(ss))
  BY FlattensExists
<1>2. Flattens(ss, f, Len(ss))
  BY <1>1 DEF Flattens
<1>3. FlattenSeq(ss) = f[Len(ss)]
  BY DEF FlattenSeq
<1> QED
  BY <1>2, <1>3

\* What a list of lists is made of is what the lists are made of.
LEMMA FlattenElements ==
  ASSUME NEW S, NEW ss \in Seq(Seq(S))
  PROVE  /\ FlattenSeq(ss) \in Seq(S)
         /\ \A x : x \in Range(FlattenSeq(ss)) <=> \E k \in DOMAIN ss : x \in Range(ss[k])
<1> DEFINE L == Len(ss)
<1>1. L \in Nat /\ DOMAIN ss = 1 .. L /\ \A k \in 1 .. L : ss[k] \in Seq(S)
  OBVIOUS
<1>2. CASE L = 0
  <2>1. ss = <<>> /\ FlattenSeq(ss) = <<>>
    BY <1>2 DEF FlattenSeq
  <2>2. <<>> \in Seq(S) /\ Range(FlattenSeq(ss)) = {} /\ DOMAIN ss = {}
    BY <2>1 DEF Range
  <2> QED
    BY <2>1, <2>2
<1>3. CASE L # 0
  <2>1. PICK f : Flattens(ss, f, L) /\ FlattenSeq(ss) = f[L]
    BY <1>1, <1>3, FlattenEquation
  <2> HIDE DEF L
  <2>2. \A k \in 1 .. L : f[k] = IF k = 1 THEN ss[k] ELSE f[k - 1] \o ss[k]
    BY <2>1 DEF Flattens
  <2> DEFINE Good(n) == /\ f[n] \in Seq(S)
                        /\ \A x : x \in Range(f[n]) <=> \E k \in 1 .. n : x \in Range(ss[k])
             N == {n \in Nat : n + 1 \in 1 .. L => Good(n + 1)}
  <2>3. 0 \in N
    <3>1. f[1] = ss[1] /\ ss[1] \in Seq(S)
      BY <1>1, <1>3, <2>2
    <3>2. 1 .. 1 = {1}
      OBVIOUS
    <3>3. Good(1)
      BY <3>1, <3>2
    <3> QED
      BY <3>3
  <2>4. ASSUME NEW n \in Nat, n \in N
        PROVE  n + 1 \in N
    <3> SUFFICES ASSUME (n + 1) + 1 \in 1 .. L
                 PROVE  Good((n + 1) + 1)
      OBVIOUS
    <3>1. n + 1 \in 1 .. L /\ (n + 1) + 1 # 1 /\ ((n + 1) + 1) - 1 = n + 1
      BY <1>1
    <3>2. Good(n + 1)
      BY <2>4, <3>1
    <3> DEFINE a == f[n + 1]
               b == ss[(n + 1) + 1]
    <3>3. f[(n + 1) + 1] = a \o b /\ a \in Seq(S) /\ b \in Seq(S)
      BY <1>1, <2>2, <3>1, <3>2
    <3>4. \A x : x \in Range(a) <=> \E k \in 1 .. n + 1 : x \in Range(ss[k])
      BY <3>2
    <3> HIDE DEF Good, a, b
    <3>5. a \o b \in Seq(S) /\ Range(a \o b) = Range(a) \cup Range(b)
      BY <3>3, JoinedElements
    <3>6. \A k : k \in 1 .. (n + 1) + 1 <=> k \in 1 .. n + 1 \/ k = (n + 1) + 1
      OBVIOUS
    <3>7. ASSUME NEW x
          PROVE  x \in Range(a \o b) <=> \E k \in 1 .. (n + 1) + 1 : x \in Range(ss[k])
      BY <3>4, <3>5, <3>6 DEF b
    <3> QED
      BY <3>3, <3>5, <3>7 DEF Good
  <2> HIDE DEF N, Good
  <2>5. Nat \subseteq N
    BY <2>3, <2>4, Induction
  <2>6. Good(L)
    <3>1. L - 1 \in N /\ (L - 1) + 1 \in 1 .. L /\ (L - 1) + 1 = L
      BY <1>1, <1>3, <2>5
    <3> QED
      BY <3>1 DEF N
  <2> QED
    BY <1>1, <2>1, <2>6 DEF Good
<1> QED
  BY <1>2, <1>3

\* The function inside is the only one with its equation, so that a list and a
\* longer one have the same values where they are the same.
LEMMA FlattensOnce ==
  ASSUME NEW ss, NEW tt, NEW f, NEW g, NEW m \in Nat, NEW n \in Nat, m <= n,
         Flattens(ss, f, m), Flattens(tt, g, n), \A k \in 1 .. m : ss[k] = tt[k]
  PROVE  \A k \in 1 .. m : f[k] = g[k]
<1> DEFINE S == {k \in Nat : k + 1 \in 1 .. m => f[k + 1] = g[k + 1]}
<1>1. /\ \A k \in 1 .. m : f[k] = IF k = 1 THEN ss[k] ELSE f[k - 1] \o ss[k]
      /\ \A k \in 1 .. n : g[k] = IF k = 1 THEN tt[k] ELSE g[k - 1] \o tt[k]
  BY DEF Flattens
<1>2. 0 \in S
  <2>1. 1 \in 1 .. m => 1 \in 1 .. n
    OBVIOUS
  <2> QED
    BY <1>1, <2>1
<1>3. ASSUME NEW k \in Nat, k \in S
      PROVE  k + 1 \in S
  <2> SUFFICES ASSUME (k + 1) + 1 \in 1 .. m
               PROVE  f[(k + 1) + 1] = g[(k + 1) + 1]
    OBVIOUS
  <2> DEFINE j == (k + 1) + 1
  <2>1. k + 1 \in 1 .. m /\ j - 1 = k + 1 /\ j # 1 /\ j \in 1 .. m /\ j \in 1 .. n
    OBVIOUS
  <2>2. f[k + 1] = g[k + 1]
    BY <1>3, <2>1
  <2> HIDE DEF j
  <2> QED
    BY <1>1, <2>1, <2>2 DEF j
<1> HIDE DEF S
<1>4. Nat \subseteq S
  BY <1>2, <1>3, Induction
<1>5. ASSUME NEW k \in 1 .. m
      PROVE  f[k] = g[k]
  <2>1. k - 1 \in S /\ (k - 1) + 1 = k
    BY <1>4
  <2> QED
    BY <2>1 DEF S
<1> QED
  BY <1>5

LEMMA FlattenAppend ==
  ASSUME NEW T, NEW ss \in Seq(Seq(T)), NEW s \in Seq(T)
  PROVE  FlattenSeq(Append(ss, s)) = FlattenSeq(ss) \o s
<1> DEFINE L == Len(ss)
           tt == Append(ss, s)
<1>1. /\ L \in Nat /\ tt \in Seq(Seq(T)) /\ Len(tt) = L + 1 /\ tt[L + 1] = s
      /\ \A k \in 1 .. L : ss[k] = tt[k]
  OBVIOUS
<1>2. PICK g : Flattens(tt, g, L + 1) /\ FlattenSeq(tt) = g[L + 1]
  <2>1. Len(tt) \in Nat \ {0}
    BY <1>1
  <2> HIDE DEF tt
  <2> QED
    BY <1>1, <2>1, FlattenEquation
<1>3. g[L + 1] = IF L + 1 = 1 THEN tt[L + 1] ELSE g[(L + 1) - 1] \o tt[L + 1]
  <2>1. L + 1 \in 1 .. L + 1
    BY <1>1
  <2> HIDE DEF tt, L
  <2> QED
    BY <1>2, <2>1 DEF Flattens
<1>4. CASE L = 0
  <2>1. ss = <<>> /\ FlattenSeq(ss) = <<>>
    BY <1>4 DEF FlattenSeq
  <2>2. FlattenSeq(tt) = s
    BY <1>1, <1>2, <1>3, <1>4
  <2> QED
    BY <2>1, <2>2
<1>5. CASE L # 0
  <2>1. PICK f : Flattens(ss, f, L) /\ FlattenSeq(ss) = f[L]
    BY <1>1, <1>5, FlattenEquation
  <2>2. f[L] = g[L]
    <3>1. L \in 1 .. L /\ L + 1 \in Nat /\ L <= L + 1
      BY <1>1, <1>5
    <3> HIDE DEF tt, L
    <3>2. Flattens(ss, f, L) /\ Flattens(tt, g, L + 1) /\ L \in Nat /\ \A k \in 1 .. L : ss[k] = tt[k]
      BY <1>1, <1>2, <2>1
    <3>3. \A k \in 1 .. L : f[k] = g[k]
      BY ONLY <3>1, <3>2, FlattensOnce
    <3> QED
      BY <3>1, <3>3
  <2>3. (L + 1) - 1 = L /\ L + 1 # 1
    BY <1>1, <1>5
  <2> HIDE DEF tt, L
  <2> QED
    BY <1>1, <1>2, <1>3, <2>1, <2>2, <2>3 DEF tt
<1> QED
  BY <1>4, <1>5

LEMMA FlattenJoin ==
  ASSUME NEW T, NEW ss \in Seq(Seq(T)), NEW tt \in Seq(Seq(T))
  PROVE  FlattenSeq(ss \o tt) = FlattenSeq(ss) \o FlattenSeq(tt)
<1> DEFINE Q == Seq(Seq(T))
           N == {n \in Nat : \A uu \in Q : Len(uu) = n =>
                   FlattenSeq(ss \o uu) = FlattenSeq(ss) \o FlattenSeq(uu)}
<1>1. 0 \in N
  <2> SUFFICES ASSUME NEW uu \in Q, Len(uu) = 0
               PROVE  FlattenSeq(ss \o uu) = FlattenSeq(ss) \o FlattenSeq(uu)
    OBVIOUS
  <2>1. uu = <<>> /\ ss \o uu = ss
    OBVIOUS
  <2>2. FlattenSeq(uu) = <<>>
    BY <2>1 DEF FlattenSeq
  <2>3. FlattenSeq(ss) \in Seq(T)
    BY FlattenElements
  <2> QED
    BY <2>1, <2>2, <2>3
<1>2. ASSUME NEW n \in Nat, n \in N
      PROVE  n + 1 \in N
  <2> SUFFICES ASSUME NEW uu \in Q, Len(uu) = n + 1
               PROVE  FlattenSeq(ss \o uu) = FlattenSeq(ss) \o FlattenSeq(uu)
    OBVIOUS
  <2> DEFINE vv == SubSeq(uu, 1, n)
             v  == uu[n + 1]
  <2>1. vv \in Q /\ Len(vv) = n /\ v \in Seq(T) /\ uu = Append(vv, v)
    OBVIOUS
  <2>2. FlattenSeq(ss \o vv) = FlattenSeq(ss) \o FlattenSeq(vv)
    BY <1>2, <2>1
  <2>3. ss \o uu = Append(ss \o vv, v) /\ ss \o vv \in Q
    <3> HIDE DEF vv, v
    <3> QED
      BY <2>1
  <2> HIDE DEF vv, v
  <2>4. FlattenSeq(Append(ss \o vv, v)) = FlattenSeq(ss \o vv) \o v
    BY <2>1, <2>3, FlattenAppend
  <2>5. FlattenSeq(Append(vv, v)) = FlattenSeq(vv) \o v
    BY <2>1, FlattenAppend
  <2>6. FlattenSeq(ss) \in Seq(T) /\ FlattenSeq(vv) \in Seq(T)
    BY <2>1, FlattenElements
  <2> HIDE DEF Q
  <2>7. FlattenSeq(ss \o uu) = (FlattenSeq(ss) \o FlattenSeq(vv)) \o v
    BY <2>2, <2>3, <2>4
  <2>8. (FlattenSeq(ss) \o FlattenSeq(vv)) \o v = FlattenSeq(ss) \o (FlattenSeq(vv) \o v)
    BY <2>1, <2>6
  <2>9. FlattenSeq(uu) = FlattenSeq(vv) \o v
    BY <2>1, <2>5
  <2> QED
    BY <2>7, <2>8, <2>9
<1> HIDE DEF N
<1>3. Nat \subseteq N
  BY <1>1, <1>2, Induction
<1>4. Len(tt) \in N
  BY <1>3
<1> QED
  BY <1>4 DEF N

-----------------------------------------------------------------------------
(***************************************************************************)
(* Iteration                                                               *)
(***************************************************************************)
Iterates(x, f, g, n) == g = [k \in 0 .. n |-> IF k = 0 THEN x ELSE f[g[k - 1]]]

LEMMA IteratesExists ==
  ASSUME NEW x, NEW f, NEW n \in Nat
  PROVE  \E g : Iterates(x, f, g, n)
<1> DEFINE S == {m \in Nat : \E g : Iterates(x, f, g, m)}
<1>1. 0 \in S
  <2>1. \A k \in 0 .. 0 : k = 0
    OBVIOUS
  <2> DEFINE g == [k \in 0 .. 0 |-> x]
  <2>2. g = [k \in 0 .. 0 |-> IF k = 0 THEN x ELSE f[g[k - 1]]]
    BY <2>1
  <2> QED
    BY <2>2 DEF Iterates
<1>2. ASSUME NEW m \in Nat, m \in S
      PROVE  m + 1 \in S
  <2>1. PICK g : Iterates(x, f, g, m)
    BY <1>2
  <2> DEFINE h == [k \in 0 .. m + 1 |-> IF k = m + 1 THEN f[g[m]] ELSE g[k]]
  <2>2. \A k \in 0 .. m : g[k] = IF k = 0 THEN x ELSE f[g[k - 1]]
    BY <2>1 DEF Iterates
  <2>3. ASSUME NEW k \in 0 .. m + 1
        PROVE  h[k] = IF k = 0 THEN x ELSE f[h[k - 1]]
    <3>1. CASE k \in 0 .. m
      <4>1. k # m + 1 /\ (k # 0 => k - 1 \in 0 .. m + 1 /\ k - 1 # m + 1)
        BY <3>1
      <4>2. h[k] = g[k] /\ (k # 0 => h[k - 1] = g[k - 1])
        BY <4>1
      <4> QED
        BY <2>2, <3>1, <4>2
    <3>2. CASE k = m + 1
      <4>1. k # 0 /\ k - 1 \in 0 .. m + 1 /\ k - 1 = m /\ m # m + 1
        BY <3>2
      <4> QED
        BY <3>2, <4>1
    <3> QED
      BY <3>1, <3>2
  <2>4. h = [k \in 0 .. m + 1 |-> IF k = 0 THEN x ELSE f[h[k - 1]]]
    BY <2>3
  <2> HIDE DEF h
  <2>5. Iterates(x, f, h, m + 1)
    BY <2>4 DEF Iterates
  <2> QED
    BY <2>5
<1> HIDE DEF S
<1>3. Nat \subseteq S
  BY <1>1, <1>2, Induction
<1> QED
  BY <1>3 DEF S

LEMMA IteratesOnce ==
  ASSUME NEW x, NEW f, NEW g, NEW h, NEW m \in Nat, NEW n \in Nat, m <= n,
         Iterates(x, f, g, m), Iterates(x, f, h, n)
  PROVE  \A k \in 0 .. m : g[k] = h[k]
<1> DEFINE S == {k \in Nat : k \in 0 .. m => g[k] = h[k]}
<1>1. /\ \A k \in 0 .. m : g[k] = IF k = 0 THEN x ELSE f[g[k - 1]]
      /\ \A k \in 0 .. n : h[k] = IF k = 0 THEN x ELSE f[h[k - 1]]
  BY DEF Iterates
<1>2. 0 \in S
  BY <1>1
<1>3. ASSUME NEW k \in Nat, k \in S
      PROVE  k + 1 \in S
  <2> SUFFICES ASSUME k + 1 \in 0 .. m
               PROVE  g[k + 1] = h[k + 1]
    OBVIOUS
  <2>1. k \in 0 .. m /\ (k + 1) - 1 = k /\ k + 1 # 0 /\ k + 1 \in 0 .. n
    OBVIOUS
  <2> QED
    BY <1>1, <1>3, <2>1
<1> HIDE DEF S
<1>4. Nat \subseteq S
  BY <1>2, <1>3, Induction
<1> QED
  BY <1>4 DEF S

\* A function can be applied any number of times.
AllIterates(x, f, g) == g = [k \in Nat |-> IF k = 0 THEN x ELSE f[g[k - 1]]]

LEMMA Iteration ==
  ASSUME NEW x, NEW f
  PROVE  \E g : AllIterates(x, f, g)
<1> DEFINE upto(n) == CHOOSE g : Iterates(x, f, g, n)
           h == [k \in Nat |-> upto(k)[k]]
<1>1. \A n \in Nat : Iterates(x, f, upto(n), n)
  BY IteratesExists
<1>2. ASSUME NEW k \in Nat
      PROVE  h[k] = IF k = 0 THEN x ELSE f[h[k - 1]]
  <2> HIDE DEF upto
  <2>1. upto(k)[k] = IF k = 0 THEN x ELSE f[upto(k)[k - 1]]
    <3>1. k \in 0 .. k
      OBVIOUS
    <3> QED
      BY <1>1, <3>1 DEF Iterates
  <2>2. CASE k = 0
    BY <2>1, <2>2
  <2>3. CASE k # 0
    <3>1. k - 1 \in Nat /\ k - 1 <= k /\ k - 1 \in 0 .. k - 1
      BY <2>3
    <3>2. upto(k - 1)[k - 1] = upto(k)[k - 1]
      <4>1. Iterates(x, f, upto(k - 1), k - 1) /\ Iterates(x, f, upto(k), k)
        BY <1>1, <3>1
      <4> QED
        BY <3>1, <4>1, IteratesOnce
    <3> QED
      BY <2>1, <2>3, <3>1, <3>2
  <2> QED
    BY <2>2, <2>3
<1>3. h = [k \in Nat |-> h[k]]
  OBVIOUS
<1> HIDE DEF h
<1>4. AllIterates(x, f, h)
  BY <1>2, <1>3 DEF AllIterates
<1> QED
  BY <1>4
=============================================================================
