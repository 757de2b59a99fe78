---------------------------- MODULE ParserProofs ----------------------------
(***************************************************************************)
(* What TLAPS proves of Parser.tla, for every set of texts: a program that *)
(* is let through has the scopes and the lists the later passes assume,    *)
(* and it is, token by token, what was written.  The first rests on what   *)
(* the active calls know of each other; the second on what the nodes they  *)
(* have filled in so far are written with.                                 *)
(***************************************************************************)
EXTENDS Parser, Recursion, SequenceTheorems, TLAPS

-----------------------------------------------------------------------------
(***************************************************************************)
(* Lists                                                                   *)
(***************************************************************************)
LEMMA LargerSeq ==
  ASSUME NEW s, NEW S, NEW T, s \in Seq(S), S \subseteq T
  PROVE  s \in Seq(T)
OBVIOUS

LEMMA ListOf ==
  ASSUME NEW S, NEW s \in Seq(S)
  PROVE  IsList(s)
<1>1. s \in [1 .. Len(s) -> {s[k] : k \in DOMAIN s}] /\ Len(s) \in Nat
  OBVIOUS
<1> QED
  BY <1>1, SeqDef DEF IsList

LEMMA ListLen ==
  ASSUME NEW s, IsList(s)
  PROVE  Len(s) \in Nat /\ DOMAIN s = 1 .. Len(s)
BY DEF IsList

LEMMA ListAppend ==
  ASSUME NEW s, IsList(s), NEW e
  PROVE  /\ IsList(Append(s, e)) /\ Len(Append(s, e)) = Len(s) + 1
         /\ DOMAIN Append(s, e) = 1 .. Len(s) + 1
         /\ Append(s, e)[Len(s) + 1] = e
         /\ \A k \in 1 .. Len(s) : Append(s, e)[k] = s[k]
<1> DEFINE S == {s[k] : k \in DOMAIN s} \cup {e}
<1>1. s \in Seq(S) /\ e \in S
  BY LargerSeq DEF IsList
<1> HIDE DEF S
<1>2. Append(s, e) \in Seq(S)
  BY <1>1
<1>3. IsList(Append(s, e))
  BY <1>2, ListOf
<1> QED
  BY <1>1, <1>3

LEMMA ListFront ==
  ASSUME NEW s, IsList(s), s # <<>>
  PROVE  /\ Len(s) \in Nat /\ Len(s) > 0 /\ Last(s) = s[Len(s)]
         /\ IsList(Front(s)) /\ Len(Front(s)) = Len(s) - 1
         /\ DOMAIN Front(s) = 1 .. Len(s) - 1
         /\ \A k \in 1 .. Len(s) - 1 : Front(s)[k] = s[k]
         /\ s = Append(Front(s), Last(s))
<1> DEFINE S == {s[k] : k \in DOMAIN s}
<1>1. s \in Seq(S)
  BY DEF IsList
<1> HIDE DEF S
<1>2. Len(s) \in Nat /\ Len(s) > 0
  BY <1>1
<1>3. Front(s) = SubSeq(s, 1, Len(s) - 1) /\ Last(s) = s[Len(s)]
  BY DEF Front, Last
<1> DEFINE m == Len(s) - 1
           u == SubSeq(s, 1, m)
<1>4. m \in Nat /\ Len(s) = m + 1 /\ Front(s) = u /\ Last(s) = s[m + 1]
  BY <1>2, <1>3
<1> HIDE DEF m
<1>5. u \in Seq(S) /\ Len(u) = m /\ s = Append(u, s[m + 1]) /\ \A k \in 1 .. m : u[k] = s[k]
  BY <1>1, <1>4
<1> HIDE DEF u
<1>6. DOMAIN u = 1 .. m /\ IsList(u)
  BY <1>4, <1>5, ListOf
<1> QED
  BY <1>2, <1>3, <1>4, <1>5, <1>6 DEF m

-----------------------------------------------------------------------------
(***************************************************************************)
(* Writing                                                                 *)
(***************************************************************************)
LEMMA JoinedSeq ==
  ASSUME NEW T, NEW fa \in Seq(T), NEW fb \in Seq(T), NEW fc \in Seq(T), Len(fc) = Len(fa) + Len(fb),
         \A k \in 1 .. Len(fa) : fc[k] = fa[k],
         \A k \in 1 .. Len(fb) : fc[Len(fa) + k] = fb[k]
  PROVE  fc = fa \o fb
<1> DEFINE m == Len(fa)
           n == Len(fb)
           d == fa \o fb
<1>1. /\ m \in Nat /\ n \in Nat /\ d \in Seq(T) /\ Len(d) = m + n
      /\ \A k \in 1 .. m : d[k] = fa[k]
      /\ \A k \in 1 .. n : d[m + k] = fb[k]
  OBVIOUS
<1>2. ASSUME NEW k \in 1 .. m + n
      PROVE  fc[k] = d[k]
  <2> HIDE DEF d
  <2>1. CASE k <= m
    BY <1>1, <2>1
  <2>2. CASE ~(k <= m)
    <3>1. k - m \in 1 .. n /\ m + (k - m) = k
      BY <1>1, <2>2
    <3>2. fc[m + (k - m)] = fb[k - m] /\ d[m + (k - m)] = fb[k - m]
      BY <1>1, <3>1
    <3> QED
      BY <3>1, <3>2
  <2> QED
    BY <2>1, <2>2
<1> HIDE DEF d
<1>3. fc = d
  BY <1>1, <1>2, SeqEqual
<1> QED
  BY <1>3 DEF d

LEMMA JoinedAt ==
  ASSUME NEW S, NEW a \in Seq(S), NEW b \in Seq(S)
  PROVE  /\ Len(a) \in Nat /\ Len(b) \in Nat /\ DOMAIN a = 1 .. Len(a) /\ DOMAIN b = 1 .. Len(b)
         /\ a \o b \in Seq(S) /\ Len(a \o b) = Len(a) + Len(b) /\ DOMAIN (a \o b) = 1 .. Len(a) + Len(b)
         /\ \A k \in 1 .. Len(a) : (a \o b)[k] = a[k]
         /\ \A k \in 1 .. Len(b) : (a \o b)[Len(a) + k] = b[k]
OBVIOUS

\* A set of nodes and tokens with everything that they are written with.
Closed(S) == \A x \in S : Pieces(x) \in Seq(S)

LEMMA UnfoldJoin ==
  ASSUME NEW S, Closed(S), NEW a \in Seq(S), NEW b \in Seq(S)
  PROVE  Unfold(a) \in Seq(S) /\ Unfold(a \o b) = Unfold(a) \o Unfold(b)
<1> DEFINE c == a \o b
           fa == [k \in DOMAIN a |-> Pieces(a[k])]
           fb == [k \in DOMAIN b |-> Pieces(b[k])]
           fc == [k \in DOMAIN c |-> Pieces(c[k])]
           m == Len(a)
           n == Len(b)
           T == Seq(S)
<1>1. /\ m \in Nat /\ n \in Nat /\ DOMAIN a = 1 .. m /\ DOMAIN b = 1 .. n /\ DOMAIN c = 1 .. m + n
      /\ \A k \in 1 .. m : c[k] = a[k] /\ a[k] \in S
      /\ \A k \in 1 .. n : c[m + k] = b[k] /\ b[k] \in S
      /\ \A k \in 1 .. m + n : c[k] \in S
  BY JoinedAt
<1> HIDE DEF c, m, n
<1>2. \A x \in S : Pieces(x) \in T
  BY DEF Closed
<1> HIDE DEF T
<1>3. fa \in Seq(T) /\ Len(fa) = m /\ \A k \in 1 .. m : fa[k] = Pieces(a[k])
  BY <1>1, <1>2
<1>4. fb \in Seq(T) /\ Len(fb) = n /\ \A k \in 1 .. n : fb[k] = Pieces(b[k])
  BY <1>1, <1>2
<1>5. fc \in Seq(T) /\ Len(fc) = m + n /\ \A k \in 1 .. m + n : fc[k] = Pieces(c[k])
  BY <1>1, <1>2
<1>6. Unfold(a) = FlattenSeq(fa) /\ Unfold(b) = FlattenSeq(fb) /\ Unfold(c) = FlattenSeq(fc)
  BY DEF Unfold
<1> HIDE DEF fa, fb, fc
<1>7. \A k \in 1 .. m : fc[k] = fa[k]
  BY <1>1, <1>3, <1>5
<1>8. \A k \in 1 .. n : fc[m + k] = fb[k]
  <2>1. \A k \in 1 .. n : m + k \in 1 .. m + n
    BY <1>1
  <2> QED
    BY <1>1, <1>4, <1>5, <2>1
<1>9. fc = fa \o fb
  BY <1>3, <1>4, <1>5, <1>7, <1>8, JoinedSeq
<1>10. FlattenSeq(fa) \in Seq(S) /\ FlattenSeq(fa \o fb) = FlattenSeq(fa) \o FlattenSeq(fb)
  BY <1>3, <1>4, FlattenElements, FlattenJoin DEF T
<1> QED
  BY <1>6, <1>9, <1>10 DEF c

LEMMA FlattenOne ==
  ASSUME NEW T, NEW s \in Seq(T)
  PROVE  FlattenSeq(<<s>>) = s
<1>1. <<>> \in Seq(Seq(T)) /\ Append(<<>>, s) = <<s>> /\ FlattenSeq(<<>>) = <<>>
  BY DEF FlattenSeq
<1>2. FlattenSeq(Append(<<>>, s)) = FlattenSeq(<<>>) \o s
  BY <1>1, FlattenAppend
<1> QED
  BY <1>1, <1>2

LEMMA UnfoldOne ==
  ASSUME NEW S, Closed(S), NEW t \in S
  PROVE  Unfold(<<t>>) = Pieces(t)
<1>1. Pieces(t) \in Seq(S)
  BY DEF Closed
<1>2. [k \in DOMAIN <<t>> |-> Pieces(<<t>>[k])] = <<Pieces(t)>>
  OBVIOUS
<1>3. FlattenSeq(<<Pieces(t)>>) = Pieces(t)
  BY <1>1, FlattenOne
<1> QED
  BY <1>2, <1>3 DEF Unfold

\* The recursive function inside Written exists: one level, and the next.
LEMMA WrittenLevels ==
  ASSUME NEW S, Closed(S), NEW a \in Seq(S)
  PROVE  /\ Written(a, 0) = a
         /\ \A n \in Nat : Written(a, n) \in Seq(S) /\ Written(a, n + 1) = Unfold(Written(a, n))
<1> DEFINE f == [s \in Seq(S) |-> Unfold(s)]
           level == CHOOSE g : g = [m \in Nat |-> IF m = 0 THEN a ELSE Unfold(g[m - 1])]
<1>0. \E g : AllIterates(a, f, g)
  <2> HIDE DEF f
  <2> QED
    BY Iteration
<1>1. PICK g : g = [k \in Nat |-> IF k = 0 THEN a ELSE f[g[k - 1]]]
  BY <1>0 DEF AllIterates
<1>2. \A s \in Seq(S) : Unfold(s) \in Seq(S)
  BY UnfoldJoin
<1> DEFINE N == {n \in Nat : g[n] \in Seq(S)}
<1>3. Nat \subseteq N
  <2>1. 0 \in N
    BY <1>1
  <2>2. ASSUME NEW n \in Nat, n \in N
        PROVE  n + 1 \in N
    <3>1. g[n + 1] = f[g[n]]
      BY <1>1
    <3> QED
      BY <1>2, <2>2, <3>1
  <2> HIDE DEF N
  <2> QED
    BY <2>1, <2>2, Induction
<1>4. g = [m \in Nat |-> IF m = 0 THEN a ELSE Unfold(g[m - 1])]
  <2>1. \A m \in Nat : m # 0 => m - 1 \in Nat
    OBVIOUS
  <2>2. \A m \in Nat : g[m] = IF m = 0 THEN a ELSE Unfold(g[m - 1])
    BY <1>0, <1>1, <1>3, <2>1
  <2>3. g = [m \in Nat |-> g[m]]
    BY <1>1
  <2> QED
    BY <2>2, <2>3
<1>5. level = [m \in Nat |-> IF m = 0 THEN a ELSE Unfold(level[m - 1])]
  BY <1>4
<1>6. \A n : Written(a, n) = level[n]
  BY DEF Written
<1> HIDE DEF level
<1>7. level[0] = a
  BY <1>5
<1>8. \A n \in Nat : level[n + 1] = Unfold(level[n])
  BY <1>5
<1> DEFINE L == {n \in Nat : level[n] \in Seq(S)}
<1>9. Nat \subseteq L
  <2>1. 0 \in L
    BY <1>7
  <2>2. ASSUME NEW n \in Nat, n \in L
        PROVE  n + 1 \in L
    <3>1. level[n] \in Seq(S)
      BY <2>2
    <3>2. Unfold(level[n]) \in Seq(S)
      BY <1>2, <3>1
    <3>3. level[n + 1] \in Seq(S)
      BY <1>8, <3>2
    <3> QED
      BY <3>3
  <2> HIDE DEF L
  <2> QED
    BY <2>1, <2>2, Induction
<1> QED
  BY <1>6, <1>7, <1>8, <1>9

LEMMA WrittenJoin ==
  ASSUME NEW S, Closed(S), NEW a \in Seq(S), NEW b \in Seq(S), NEW n \in Nat
  PROVE  Written(a \o b, n) = Written(a, n) \o Written(b, n)
<1> DEFINE c == a \o b
           N == {m \in Nat : Written(c, m) = Written(a, m) \o Written(b, m)}
<1>1. c \in Seq(S)
  OBVIOUS
<1> HIDE DEF c
<1>2. 0 \in N
  BY <1>1, WrittenLevels DEF c
<1>3. ASSUME NEW m \in Nat, m \in N
      PROVE  m + 1 \in N
  <2>1. Written(c, m + 1) = Unfold(Written(c, m))
    BY <1>1, WrittenLevels
  <2>2. /\ Written(a, m) \in Seq(S) /\ Written(a, m + 1) = Unfold(Written(a, m))
        /\ Written(b, m) \in Seq(S) /\ Written(b, m + 1) = Unfold(Written(b, m))
    BY WrittenLevels
  <2>3. Unfold(Written(a, m) \o Written(b, m)) = Unfold(Written(a, m)) \o Unfold(Written(b, m))
    BY <2>2, UnfoldJoin
  <2>4. Written(c, m) = Written(a, m) \o Written(b, m)
    BY <1>3
  <2>5. Written(c, m + 1) = Written(a, m + 1) \o Written(b, m + 1)
    BY <2>1, <2>2, <2>3, <2>4
  <2> QED
    BY <2>5
<1> HIDE DEF N
<1>4. n \in N
  BY <1>2, <1>3, Induction
<1> QED
  BY <1>4 DEF N, c

\* One node is what it is written with, one level further down.
LEMMA WrittenOne ==
  ASSUME NEW S, Closed(S), NEW t \in S, NEW n \in Nat
  PROVE  Written(<<t>>, n + 1) = Written(Pieces(t), n)
<1> DEFINE a == <<t>>
           p == Pieces(t)
           N == {m \in Nat : Written(a, m + 1) = Written(p, m)}
<1>1. a \in Seq(S) /\ p \in Seq(S) /\ Unfold(a) = p
  BY UnfoldOne DEF Closed
<1> HIDE DEF a, p
<1>2. 0 \in N
  <2>1. Written(a, 0 + 1) = Unfold(Written(a, 0)) /\ Written(a, 0) = a /\ Written(p, 0) = p
    BY <1>1, WrittenLevels
  <2> QED
    BY <1>1, <2>1
<1>3. ASSUME NEW m \in Nat, m \in N
      PROVE  m + 1 \in N
  <2>1. m + 1 \in Nat
    OBVIOUS
  <2>2. Written(a, (m + 1) + 1) = Unfold(Written(a, m + 1)) /\ Written(p, m + 1) = Unfold(Written(p, m))
    BY <1>1, <2>1, WrittenLevels
  <2> QED
    BY <1>3, <2>1, <2>2
<1> HIDE DEF N
<1>4. n \in N
  BY <1>2, <1>3, Induction
<1> QED
  BY <1>4 DEF N, a, p

\* Tokens are written with themselves.
IsTokens(T) == \A t \in T : t.kind = "token"

LEMMA TokensClosed ==
  ASSUME NEW T, IsTokens(T)
  PROVE  Closed(T) /\ \A t \in T : Pieces(t) = <<t>>
<1>1. \A t \in T : Pieces(t) = <<t>>
  BY DEF IsTokens, Pieces
<1>2. \A t \in T : <<t>> \in Seq(T)
  OBVIOUS
<1> QED
  BY <1>1, <1>2 DEF Closed

LEMMA TokensUnfold ==
  ASSUME NEW T, IsTokens(T), NEW w \in Seq(T)
  PROVE  Unfold(w) = w
<1> DEFINE Q == Seq(T)
           N == {m \in Nat : \A v \in Q : Len(v) = m => Unfold(v) = v}
<1>1. 0 \in N
  <2> SUFFICES ASSUME NEW v \in Q, Len(v) = 0
               PROVE  Unfold(v) = v
    OBVIOUS
  <2>1. v = <<>>
    OBVIOUS
  <2>2. [k \in DOMAIN <<>> |-> Pieces(<<>>[k])] = <<>>
    OBVIOUS
  <2> QED
    BY <2>1, <2>2 DEF Unfold, FlattenSeq
<1>2. ASSUME NEW m \in Nat, m \in N
      PROVE  m + 1 \in N
  <2> SUFFICES ASSUME NEW v \in Q, Len(v) = m + 1
               PROVE  Unfold(v) = v
    OBVIOUS
  <2> DEFINE u == SubSeq(v, 1, m)
             x == v[m + 1]
             y == <<x>>
  <2>1. u \in Seq(T) /\ Len(u) = m /\ x \in T /\ y \in Seq(T) /\ v = u \o y
    OBVIOUS
  <2>2. Unfold(u) = u
    BY <1>2, <2>1
  <2>3. Unfold(y) = Pieces(x) /\ Pieces(x) = y
    BY <2>1, TokensClosed, UnfoldOne
  <2> HIDE DEF u, x, y, Q
  <2>4. Unfold(u \o y) = Unfold(u) \o Unfold(y)
    BY <2>1, TokensClosed, UnfoldJoin
  <2> QED
    BY <2>1, <2>2, <2>3, <2>4
<1> HIDE DEF N
<1>3. Nat \subseteq N
  BY <1>1, <1>2, Induction
<1>4. Len(w) \in N
  BY <1>3
<1> QED
  BY <1>4 DEF N

LEMMA TokensWritten ==
  ASSUME NEW T, IsTokens(T), NEW w \in Seq(T), NEW n \in Nat
  PROVE  Written(w, n) = w
<1> DEFINE N == {m \in Nat : Written(w, m) = w}
<1>1. Closed(T)
  BY TokensClosed
<1>2. 0 \in N
  BY <1>1, WrittenLevels
<1>3. ASSUME NEW m \in Nat, m \in N
      PROVE  m + 1 \in N
  <2>1. Written(w, m + 1) = Unfold(Written(w, m))
    BY <1>1, WrittenLevels
  <2> QED
    BY <1>3, <2>1, TokensUnfold
<1> HIDE DEF N
<1>4. n \in N
  BY <1>2, <1>3, Induction
<1> QED
  BY <1>4 DEF N

\* The nodes and tokens of list a are written as w, with no more levels than
\* tokens, and T is what the tokens are taken from.
Spells(T, a, w) ==
  /\ w \in Seq(T)
  /\ \E S : /\ Closed(S) /\ a \in Seq(S)
            /\ \A n \in Nat : n >= Len(w) => Written(a, n) = w

LEMMA SpellsTokens ==
  ASSUME NEW T, IsTokens(T), NEW w \in Seq(T)
  PROVE  Spells(T, w, w)
BY TokensClosed, TokensWritten DEF Spells

LEMMA ClosedUnion ==
  ASSUME NEW R, NEW S, Closed(R), Closed(S)
  PROVE  Closed(R \cup S)
BY LargerSeq DEF Closed

LEMMA SpellsJoin ==
  ASSUME NEW T, NEW a, NEW b, NEW x, NEW y, Spells(T, a, x), Spells(T, b, y)
  PROVE  Spells(T, a \o b, x \o y)
<1>1. PICK Q : Closed(Q) /\ a \in Seq(Q) /\ \A n \in Nat : n >= Len(x) => Written(a, n) = x
  BY DEF Spells
<1>2. PICK R : Closed(R) /\ b \in Seq(R) /\ \A n \in Nat : n >= Len(y) => Written(b, n) = y
  BY DEF Spells
<1> DEFINE S == Q \cup R
           z == x \o y
<1>3. Closed(S) /\ a \in Seq(S) /\ b \in Seq(S)
  BY <1>1, <1>2, ClosedUnion, LargerSeq
<1>4. z \in Seq(T) /\ Len(z) = Len(x) + Len(y) /\ Len(x) \in Nat /\ Len(y) \in Nat
  BY DEF Spells
<1> HIDE DEF S
<1>5. ASSUME NEW n \in Nat, n >= Len(z)
      PROVE  Written(a \o b, n) = z
  <2>1. n >= Len(x) /\ n >= Len(y)
    BY <1>4, <1>5
  <2>2. Written(a, n) = x /\ Written(b, n) = y
    BY <1>1, <1>2, <2>1
  <2>3. Written(a \o b, n) = Written(a, n) \o Written(b, n)
    BY <1>3, WrittenJoin
  <2> QED
    BY <2>2, <2>3
<1>6. a \o b \in Seq(S)
  BY <1>3
<1> HIDE DEF z
<1> QED
  BY <1>3, <1>4, <1>5, <1>6 DEF Spells, z

LEMMA EmptyWritten ==
  ASSUME NEW n \in Nat
  PROVE  Written(<<>>, n) = <<>>
<1>1. IsTokens({}) /\ <<>> \in Seq({})
  BY DEF IsTokens
<1> QED
  BY <1>1, TokensWritten

\* Only nothing is written as nothing.
LEMMA SpellsEmpty ==
  ASSUME NEW T, NEW a, NEW w, Spells(T, a, w)
  PROVE  a = <<>> <=> w = <<>>
<1>1. PICK S : Closed(S) /\ a \in Seq(S) /\ \A n \in Nat : n >= Len(w) => Written(a, n) = w
  BY DEF Spells
<1>2. w \in Seq(T) /\ Len(w) \in Nat
  BY DEF Spells
<1>3. ASSUME a = <<>>
      PROVE  w = <<>>
  BY <1>1, <1>2, <1>3, EmptyWritten
<1>4. ASSUME w = <<>>
      PROVE  a = <<>>
  <2>1. Len(w) = 0
    BY <1>4
  <2>2. Written(a, 0) = w /\ Written(a, 0) = a
    BY <1>1, <2>1, WrittenLevels
  <2> QED
    BY <1>4, <2>2
<1> QED
  BY <1>3, <1>4

\* A node that is written with two lists of pieces, neither of them empty.
LEMMA SpellsNode ==
  ASSUME NEW T, NEW t, NEW p, NEW q, NEW x, NEW y, Pieces(t) = p \o q,
         Spells(T, p, x), Spells(T, q, y), p # <<>>, q # <<>>
  PROVE  Spells(T, <<t>>, x \o y)
<1>1. PICK Q : Closed(Q) /\ p \in Seq(Q) /\ \A n \in Nat : n >= Len(x) => Written(p, n) = x
  BY DEF Spells
<1>2. PICK R : Closed(R) /\ q \in Seq(R) /\ \A n \in Nat : n >= Len(y) => Written(q, n) = y
  BY DEF Spells
<1> DEFINE S == Q \cup R
           U == S \cup {t}
           z == x \o y
<1>3. Closed(S) /\ p \in Seq(S) /\ q \in Seq(S)
  BY <1>1, <1>2, ClosedUnion, LargerSeq
<1>4. z \in Seq(T) /\ Len(z) = Len(x) + Len(y) /\ Len(x) \in Nat /\ Len(y) \in Nat /\ Len(x) > 0 /\ Len(y) > 0
  <2>1. x # <<>> /\ y # <<>>
    BY SpellsEmpty
  <2> QED
    BY <2>1 DEF Spells
<1> HIDE DEF S
<1>5. Closed(U)
  <2>1. Pieces(t) \in Seq(S)
    BY <1>3
  <2>2. \A u \in U : Pieces(u) \in Seq(S)
    BY <1>3, <2>1 DEF Closed
  <2>3. S \subseteq U
    OBVIOUS
  <2> HIDE DEF U
  <2>4. \A u \in U : Pieces(u) \in Seq(U)
    BY <2>2, <2>3, LargerSeq
  <2> QED
    BY <2>4 DEF Closed
<1>6. t \in U /\ <<t>> \in Seq(U)
  OBVIOUS
<1> HIDE DEF U
<1>7. ASSUME NEW n \in Nat, n >= Len(z)
      PROVE  Written(<<t>>, n) = z
  <2> DEFINE m == n - 1
  <2>1. m \in Nat /\ n = m + 1 /\ m >= Len(x) /\ m >= Len(y)
    BY <1>4, <1>7
  <2> HIDE DEF m
  <2>2. Written(p, m) = x /\ Written(q, m) = y
    BY <1>1, <1>2, <2>1
  <2>3. Written(p \o q, m) = Written(p, m) \o Written(q, m)
    BY <1>3, <2>1, WrittenJoin
  <2>4. Written(<<t>>, m + 1) = Written(Pieces(t), m)
    BY <1>5, <1>6, <2>1, WrittenOne
  <2> QED
    BY <2>1, <2>2, <2>3, <2>4
<1> HIDE DEF z
<1> QED
  BY <1>4, <1>5, <1>6, <1>7 DEF Spells, z

\* A node that is written with one token.
LEMMA SpellsLeaf ==
  ASSUME NEW T, IsTokens(T), NEW e \in T, NEW t, Pieces(t) = <<e>>
  PROVE  Spells(T, <<t>>, <<e>>)
<1> DEFINE U == T \cup {t}
           w == <<e>>
<1>1. w \in Seq(T) /\ Len(w) = 1 /\ t \in U /\ <<t>> \in Seq(U) /\ T \subseteq U
  OBVIOUS
<1>2. \A u \in U : Pieces(u) \in Seq(T)
  BY <1>1, TokensClosed DEF Closed
<1> HIDE DEF U, w
<1>3. Closed(U)
  BY <1>1, <1>2, LargerSeq DEF Closed
<1>4. ASSUME NEW n \in Nat, n >= Len(w)
      PROVE  Written(<<t>>, n) = w
  <2> DEFINE m == n - 1
  <2>1. m \in Nat /\ n = m + 1
    BY <1>1, <1>4
  <2> HIDE DEF m
  <2>2. Written(<<t>>, m + 1) = Written(Pieces(t), m)
    BY <1>1, <1>3, <2>1, WrittenOne
  <2>3. Written(w, m) = w
    BY <1>1, <2>1, TokensWritten
  <2> QED
    BY <2>1, <2>2, <2>3 DEF w
<1> QED
  BY <1>1, <1>3, <1>4 DEF Spells, w

-----------------------------------------------------------------------------
(***************************************************************************)
(* Scopes                                                                  *)
(***************************************************************************)
NamesIn(block) == {block[k].name : k \in {j \in DOMAIN block : IsNamed(block[j])}}

\* A block as insert_symbol keeps it.
IsBlock(block) == IsList(block) /\ IsTree(block) /\ Accepted(block)

LEMMA EmptyBlock == IsBlock(<<>>) /\ NamesIn(<<>>) = {}
<1>1. <<>> \in Seq({}) /\ DOMAIN <<>> = {}
  OBVIOUS
<1> QED
  BY <1>1, ListOf DEF IsBlock, IsTree, Accepted, NamesIn

\* What follows from the elements of a block that ends with statement s.
LEMMA NamesAppend ==
  ASSUME NEW block, IsList(block), NEW s
  PROVE  NamesIn(Append(block, s)) = NamesIn(block) \cup (IF IsNamed(s) THEN {s.name} ELSE {})
<1> DEFINE n == Len(block)
           b == Append(block, s)
<1>1. /\ n \in Nat /\ DOMAIN block = 1 .. n /\ DOMAIN b = 1 .. n + 1
      /\ b[n + 1] = s /\ \A k \in 1 .. n : b[k] = block[k]
  BY ListAppend, ListLen
<1> HIDE DEF n, b
<1>2. \A k : k \in 1 .. n + 1 <=> k \in 1 .. n \/ k = n + 1
  BY <1>1
<1>3. ASSUME NEW x
      PROVE  x \in NamesIn(b) <=> x \in NamesIn(block) \/ (IsNamed(s) /\ x = s.name)
  BY <1>1, <1>2, <1>3 DEF NamesIn
<1> QED
  BY <1>3 DEF b

IsStatement(s) ==
  /\ IsNamed(s) => s.name # Vararg
  /\ s.kind = "function" => IsList(s.parameters) /\ IsBlock(s.block)
  /\ s.kind = "type" => IsList(s.members)

LEMMA TreeAppend ==
  ASSUME NEW block, IsBlock(block), NEW s, IsStatement(s)
  PROVE  IsTree(Append(block, s))
<1> DEFINE n == Len(block)
           b == Append(block, s)
<1>1. /\ n \in Nat /\ DOMAIN block = 1 .. n /\ DOMAIN b = 1 .. n + 1
      /\ b[n + 1] = s /\ \A k \in 1 .. n : b[k] = block[k]
  BY ListAppend, ListLen DEF IsBlock
<1> HIDE DEF n, b
<1>2. \A k : k \in 1 .. n + 1 <=> k \in 1 .. n \/ k = n + 1
  BY <1>1
<1>3. IsTree(b)
  BY <1>1, <1>2 DEF IsTree, IsStatement, IsBlock
<1> QED
  BY <1>3 DEF b

\* The statement is new to the block, and what it declares to the block and to it.
LEMMA AcceptedAppend ==
  ASSUME NEW block, IsBlock(block), NEW s, IsStatement(s),
         IsNamed(s) => s.name \notin NamesIn(block),
         s.kind = "function" => NamesIn(s.block) \cap (NamesIn(block) \cup {s.name}) = {}
  PROVE  Accepted(Append(block, s))
<1> DEFINE n == Len(block)
           b == Append(block, s)
<1>1. /\ n \in Nat /\ DOMAIN block = 1 .. n /\ DOMAIN b = 1 .. n + 1
      /\ b[n + 1] = s /\ \A k \in 1 .. n : b[k] = block[k]
  BY ListAppend, ListLen DEF IsBlock
<1> HIDE DEF n, b
<1>2. \A k : k \in 1 .. n + 1 <=> k \in 1 .. n \/ k = n + 1
  BY <1>1
<1>3. \A k \in 1 .. n : IsNamed(block[k]) => block[k].name \in NamesIn(block)
  BY <1>1 DEF NamesIn
<1>4. ASSUME NEW d \in DOMAIN b, NEW e \in DOMAIN b, IsNamed(b[d]), Names(b[e], b[d].name)
      PROVE  d = e
  <2>1. IsNamed(b[e]) /\ b[e].name = b[d].name
    BY <1>4 DEF Names
  <2>2. CASE d \in 1 .. n /\ e \in 1 .. n
    BY <1>1, <1>4, <2>2 DEF IsBlock, Accepted
  <2>3. CASE d = n + 1 \/ e = n + 1
    BY <1>1, <1>2, <1>3, <1>4, <2>1, <2>3
  <2> QED
    BY <1>1, <1>2, <2>2, <2>3
<1>5. ASSUME NEW d \in DOMAIN b, NEW k \in Locals(b, d)
      PROVE  /\ \A e \in 1 .. d : ~Names(b[e], b[d].block[k].name)
             /\ \A l \in Locals(b, d) : b[d].block[l].name = b[d].block[k].name => l = k
  <2>1. CASE d \in 1 .. n
    <3>1. b[d] = block[d] /\ Locals(b, d) = Locals(block, d) /\ d \in DOMAIN block
      BY <1>1, <2>1 DEF Locals
    <3>2. \A e \in 1 .. d : b[e] = block[e]
      BY <1>1, <2>1
    <3> QED
      BY <1>5, <3>1, <3>2 DEF IsBlock, Accepted
  <2>2. CASE d = n + 1
    <3>1. b[d] = s
      BY <1>1, <2>2
    <3>2. s.kind = "function" /\ k \in DOMAIN s.block /\ IsNamed(s.block[k])
      BY <1>5, <3>1 DEF Locals
    <3>3. IsBlock(s.block) /\ IsNamed(s)
      BY <3>2 DEF IsStatement, IsNamed
    <3>4. s.block[k].name \in NamesIn(s.block)
      BY <3>2 DEF NamesIn
    <3>5. s.block[k].name \notin NamesIn(block) /\ s.block[k].name # s.name
      BY <3>2, <3>4
    <3>6. \A e \in 1 .. d : ~Names(b[e], s.block[k].name)
      BY <1>1, <1>2, <1>3, <2>2, <3>5 DEF Names
    <3>7. \A l \in Locals(b, d) : l \in DOMAIN s.block /\ IsNamed(s.block[l])
      BY <3>1, <3>2 DEF Locals
    <3>8. \A l \in Locals(b, d) : s.block[l].name = s.block[k].name => l = k
      BY <3>2, <3>3, <3>7 DEF IsBlock, Accepted, Names
    <3> QED
      BY <3>1, <3>6, <3>8
  <2> QED
    BY <1>1, <1>2, <2>1, <2>2
<1>6. Accepted(b)
  BY <1>4, <1>5 DEF Accepted
<1> QED
  BY <1>6 DEF b

LEMMA BlockAppend ==
  ASSUME NEW block, IsBlock(block), NEW s, IsStatement(s),
         IsNamed(s) => s.name \notin NamesIn(block),
         s.kind = "function" => NamesIn(s.block) \cap (NamesIn(block) \cup {s.name}) = {}
  PROVE  IsBlock(Append(block, s))
<1>1. IsList(Append(block, s))
  BY ListAppend DEF IsBlock
<1> QED
  BY <1>1, TreeAppend, AcceptedAppend DEF IsBlock

-----------------------------------------------------------------------------
(***************************************************************************)
(* The stack of calls                                                      *)
(***************************************************************************)
IsFunction(f) ==
  /\ f = [kind |-> "function", name |-> f.name, parameters |-> f.parameters, names |-> f.names,
          return_type |-> f.return_type, is_extern |-> f.is_extern, is_entry |-> f.is_entry,
          block |-> f.block]
  /\ f.name # Vararg /\ IsList(f.parameters) /\ IsBlock(f.block)

IsType(s) ==
  /\ s = [kind |-> "type", name |-> s.name, members |-> s.members, names |-> s.names]
  /\ s.name # Vararg /\ IsList(s.members)

IsVariable(s) == s = Variable(s.type, s.name, s.value) /\ s.name # Vararg

IsExpression(e) == e.kind \in {"identifier", "function_call", "dot", "binary", "number", "string"}

\* What each parsing function fills in.
NodeOf(at, node) ==
  \/ at = "block" /\ IsBlock(node.block) /\ (IsFunction(node) \/ node = [kind |-> "program", block |-> node.block])
  \/ at \in {"parameters", "attributes"} /\ IsFunction(node) /\ node.block = <<>>
  \/ at = "members" /\ IsType(node)
  \/ at = "variable" /\ IsVariable(node)
  \/ at = "return" /\ node = Return(NoValue)
  \/ at = "statement" /\ node = NoValue
  \/ at = "arguments" /\ node = Call(node.name, node.arguments)
  \/ at = "expression" /\ (node = NoValue \/ node = Binary(node.operator, node.left, node.right))

IsFrame(f) == f = [at |-> f.at, node |-> f.node, symbols |-> f.symbols] /\ NodeOf(f.at, f.node)
              /\ (f.at = "block" => NamesIn(f.node.block) \subseteq f.symbols)

\* Which parsing function calls which.
Calls(g, f) ==
  \/ g = "block" /\ f \in {"block", "parameters", "attributes", "members", "variable", "return", "statement"}
  \/ g \in {"variable", "return", "statement", "arguments"} /\ f = "expression"
  \/ g = "expression" /\ f = "arguments"

\* The name of the function whose block is being read is a symbol already, but
\* the function no statement yet.
On(g, f) ==
  /\ Calls(g.at, f.at)
  /\ f.at = "block" => IsFunction(f.node) /\ f.node.name \in g.symbols \ NamesIn(g.node.block)

\* No name of a block is one of the names around it.
Apart(g, f) == f.at = "block" => f.symbols \cap g.symbols = {}

IsStack(st) ==
  /\ IsList(st) /\ Len(st) > 0
  /\ st[1].at = "block"
  /\ \A k \in 1 .. Len(st) : IsFrame(st[k])
  /\ \A k \in 1 .. Len(st) : k # 1 => On(st[k - 1], st[k])
  /\ \A k \in 1 .. Len(st) : \A j \in 1 .. k - 1 : Apart(st[j], st[k])

LEMMA Top ==
  ASSUME NEW st, IsStack(st)
  PROVE  /\ Last(st) = st[Len(st)] /\ IsFrame(Last(st)) /\ Len(st) \in Nat /\ Len(st) > 0
         /\ (Last(st).at # "block" => Len(st) > 1)
<1>1. st # <<>>
  BY DEF IsStack
<1> QED
  BY <1>1, ListFront DEF IsStack

LEMMA Push ==
  ASSUME NEW st, IsStack(st), NEW f, IsFrame(f), On(Last(st), f),
         \A k \in 1 .. Len(st) : Apart(st[k], f)
  PROVE  IsStack(Append(st, f)) /\ Last(Append(st, f)) = f /\ Front(Append(st, f)) = st
<1> DEFINE n == Len(st)
           t == Append(st, f)
<1>1. /\ n \in Nat /\ n > 0 /\ IsList(t) /\ Len(t) = n + 1 /\ t[n + 1] = f
      /\ \A k \in 1 .. n : t[k] = st[k]
  BY ListAppend, ListLen DEF IsStack
<1>2. Last(st) = st[n]
  BY Top
<1>3. Last(t) = f
  BY <1>1 DEF Last
<1>4. Front(t) = st
  BY DEF Front, IsStack, IsList
<1> HIDE DEF n, t
<1>5. \A k : k \in 1 .. n + 1 <=> k \in 1 .. n \/ k = n + 1
  BY <1>1
<1>6. \A k \in 1 .. n : k # 1 => k - 1 \in 1 .. n
  BY <1>1
<1>7. (n + 1) - 1 = n /\ n \in 1 .. n
  BY <1>1
<1>8. \A k \in 1 .. n : IsFrame(st[k]) /\ (k # 1 => On(st[k - 1], st[k]))
  BY DEF IsStack, n
<1>9. \A k \in 1 .. n + 1 : IsFrame(t[k])
  BY <1>1, <1>5, <1>8
<1>10. \A k \in 1 .. n + 1 : k # 1 => On(t[k - 1], t[k])
  BY <1>1, <1>2, <1>5, <1>6, <1>7, <1>8
<1>11. ASSUME NEW k \in 1 .. n + 1, NEW j \in 1 .. k - 1
       PROVE  Apart(t[j], t[k])
  <2>1. j \in 1 .. n /\ t[j] = st[j]
    BY <1>1
  <2>2. CASE k = n + 1
    BY <1>1, <2>1, <2>2 DEF n
  <2>3. CASE k \in 1 .. n
    BY <1>1, <2>1, <2>3 DEF IsStack, n
  <2> QED
    BY <1>5, <2>2, <2>3
<1>12. t[1].at = "block"
  <2>1. 1 \in 1 .. n
    BY <1>1
  <2> QED
    BY <1>1, <2>1 DEF IsStack
<1>13. IsStack(t)
  BY <1>1, <1>9, <1>10, <1>11, <1>12 DEF IsStack
<1> QED
  BY <1>3, <1>4, <1>13 DEF t

LEMMA Pop ==
  ASSUME NEW st, IsStack(st), Len(st) > 1
  PROVE  /\ IsStack(Front(st)) /\ On(Last(Front(st)), Last(st)) /\ Len(Front(st)) = Len(st) - 1
         /\ \A k \in 1 .. Len(Front(st)) : Apart(Front(st)[k], Last(st))
<1> DEFINE n == Len(st)
           t == Front(st)
<1>1. /\ n \in Nat /\ n > 1 /\ Last(st) = st[n] /\ IsList(t) /\ Len(t) = n - 1
      /\ \A k \in 1 .. n - 1 : t[k] = st[k]
  <2>1. st # <<>>
    BY DEF IsStack
  <2> QED
    BY <2>1, ListFront DEF IsStack
<1>2. t # <<>>
  BY <1>1
<1>3. Last(t) = t[n - 1]
  BY <1>1, <1>2, ListFront
<1> HIDE DEF n, t
<1>4. \A k \in 1 .. n - 1 : k \in 1 .. n /\ (k # 1 => k - 1 \in 1 .. n - 1)
  BY <1>1
<1>5. n \in 1 .. n /\ n # 1 /\ n - 1 \in 1 .. n - 1 /\ 1 \in 1 .. n - 1
  BY <1>1
<1>6. \A k \in 1 .. n : IsFrame(st[k]) /\ (k # 1 => On(st[k - 1], st[k]))
  BY DEF IsStack, n
<1>7. \A k \in 1 .. n : \A j \in 1 .. k - 1 : Apart(st[j], st[k])
  BY DEF IsStack, n
<1>8. st[1].at = "block"
  BY DEF IsStack
<1>9. \A k \in 1 .. n - 1 : IsFrame(t[k]) /\ (k # 1 => On(t[k - 1], t[k]))
  BY <1>1, <1>4, <1>6
<1>10. ASSUME NEW k \in 1 .. n - 1, NEW j \in 1 .. k - 1
       PROVE  Apart(t[j], t[k])
  <2>1. j \in 1 .. n - 1
    BY <1>1
  <2> QED
    BY <1>1, <1>4, <1>7, <2>1
<1>11. IsStack(t)
  BY <1>1, <1>5, <1>8, <1>9, <1>10 DEF IsStack
<1>12. On(Last(t), Last(st)) /\ \A k \in 1 .. Len(t) : Apart(t[k], Last(st))
  BY <1>1, <1>3, <1>5, <1>6, <1>7
<1> QED
  BY <1>1, <1>11, <1>12 DEF n, t

\* The innermost frame is changed.
LEMMA Change ==
  ASSUME NEW st, IsStack(st), NEW f, IsFrame(f), Len(st) = 1 => f.at = "block",
         Len(st) > 1 => /\ On(Last(Front(st)), f)
                        /\ \A k \in 1 .. Len(Front(st)) : Apart(Front(st)[k], f)
  PROVE  IsStack(Append(Front(st), f)) /\ Last(Append(Front(st), f)) = f
         /\ Front(Append(Front(st), f)) = Front(st)
<1>1. CASE Len(st) > 1
  BY <1>1, Pop, Push
<1>2. CASE Len(st) = 1
  <2>1. st # <<>>
    BY <1>2
  <2>2. IsList(Front(st)) /\ Len(Front(st)) = 0
    BY <1>2, <2>1, ListFront DEF IsStack
  <2>3. Front(st) = <<>>
    BY <2>2 DEF IsList
  <2>4. Append(Front(st), f) = <<f>>
    BY <2>3
  <2>5. IsList(<<f>>)
    <3>1. <<f>> \in Seq({f})
      OBVIOUS
    <3> QED
      BY <3>1, ListOf
  <2>6. Len(<<f>>) = 1 /\ <<f>>[1] = f
    OBVIOUS
  <2>7. \A k \in 1 .. 1 : k = 1 /\ 1 .. k - 1 = {}
    OBVIOUS
  <2>8. IsStack(<<f>>)
    BY <1>2, <2>5, <2>6, <2>7 DEF IsStack
  <2>9. Last(<<f>>) = f /\ Front(<<f>>) = <<>>
    BY DEF Last, Front
  <2> QED
    BY <2>3, <2>4, <2>8, <2>9
<1> QED
  BY <1>1, <1>2, Top

\* A statement joins the innermost block, and the symbols of N enter it.
LEMMA JoinFrame ==
  ASSUME NEW f, IsFrame(f), f.at = "block", NEW s, IsStatement(s), NEW N,
         IsNamed(s) => s.name \notin NamesIn(f.node.block) /\ s.name \in f.symbols \cup N,
         s.kind = "function" => NamesIn(s.block) \cap (NamesIn(f.node.block) \cup {s.name}) = {}
  PROVE  LET h == [at |-> "block", node |-> [f.node EXCEPT !.block = Append(@, s)], symbols |-> f.symbols \cup N]
         IN /\ IsFrame(h) /\ h.node.block = Append(f.node.block, s)
            /\ IsFunction(f.node) => IsFunction(h.node) /\ h.node.name = f.node.name
            /\ h.node.block # <<>>
            /\ NamesIn(h.node.block) = NamesIn(f.node.block) \cup (IF IsNamed(s) THEN {s.name} ELSE {})
<1> DEFINE node == [f.node EXCEPT !.block = Append(@, s)]
           block == Append(f.node.block, s)
<1>1. IsBlock(f.node.block) /\ (IsFunction(f.node) \/ f.node = [kind |-> "program", block |-> f.node.block])
  BY DEF IsFrame, NodeOf
<1>2. IsBlock(block)
  BY <1>1, BlockAppend
<1>3. NamesIn(block) = NamesIn(f.node.block) \cup (IF IsNamed(s) THEN {s.name} ELSE {})
  BY <1>1, NamesAppend DEF IsBlock
<1>4. block # <<>>
  <2>1. Len(block) = Len(f.node.block) + 1 /\ Len(f.node.block) \in Nat
    BY <1>1, ListAppend, ListLen DEF IsBlock
  <2> HIDE DEF block
  <2> QED
    BY <2>1
<1> HIDE DEF block
<1>5. CASE IsFunction(f.node)
  <2>1. node = [kind |-> "function", name |-> f.node.name, parameters |-> f.node.parameters, names |-> f.node.names,
                return_type |-> f.node.return_type, is_extern |-> f.node.is_extern,
                is_entry |-> f.node.is_entry, block |-> block]
    BY <1>5 DEF IsFunction, block
  <2>2. IsFunction(node) /\ node.name = f.node.name /\ node.block = block
    BY <1>2, <1>5, <2>1 DEF IsFunction
  <2> HIDE DEF node
  <2> QED
    BY <1>2, <1>3, <1>4, <2>2 DEF IsFrame, NodeOf, block, node
<1>6. CASE f.node = [kind |-> "program", block |-> f.node.block]
  <2>1. node = [kind |-> "program", block |-> block]
    BY <1>6 DEF block
  <2>2. ~IsFunction(f.node)
    BY <1>6 DEF IsFunction
  <2>3. node.block = block /\ node = [kind |-> "program", block |-> node.block]
    BY <2>1
  <2> HIDE DEF node
  <2> QED
    BY <1>2, <1>3, <1>4, <2>2, <2>3 DEF IsFrame, NodeOf, block, node
<1> QED
  BY <1>1, <1>5, <1>6

LEMMA JoinStack ==
  ASSUME NEW st, IsStack(st), Last(st).at = "block", NEW s, IsStatement(s), NEW N,
         IsNamed(s) => s.name \notin NamesIn(Last(st).node.block) /\ s.name \in Last(st).symbols \cup N,
         s.kind = "function" => NamesIn(s.block) \cap (NamesIn(Last(st).node.block) \cup {s.name}) = {},
         \A k \in 1 .. Len(st) : k # Len(st) => N \cap st[k].symbols = {}
  PROVE  IsStack(Append(Front(st), [at |-> "block",
                                    node |-> [Last(st).node EXCEPT !.block = Append(@, s)],
                                    symbols |-> Last(st).symbols \cup N]))
<1> DEFINE f == Last(st)
           h == [at |-> "block", node |-> [f.node EXCEPT !.block = Append(@, s)], symbols |-> f.symbols \cup N]
<1>1. IsFrame(f)
  BY Top
<1>2. h.at = "block" /\ h.symbols = f.symbols \cup N
  OBVIOUS
<1> HIDE DEF f
<1>3. /\ IsFrame(h) /\ NamesIn(h.node.block) = NamesIn(f.node.block) \cup (IF IsNamed(s) THEN {s.name} ELSE {})
      /\ IsFunction(f.node) => IsFunction(h.node) /\ h.node.name = f.node.name
  BY <1>1, JoinFrame DEF f
<1> HIDE DEF h
<1>4. ASSUME Len(st) > 1
      PROVE  /\ On(Last(Front(st)), h)
             /\ \A k \in 1 .. Len(Front(st)) : Apart(Front(st)[k], h)
  <2>1. /\ On(Last(Front(st)), f) /\ Len(Front(st)) = Len(st) - 1
        /\ \A k \in 1 .. Len(Front(st)) : Apart(Front(st)[k], f)
    BY <1>4, Pop DEF f
  <2>2. f.at = "block"
    BY DEF f
  <2>3. IsFunction(f.node) /\ On(Last(Front(st)), h)
    BY <1>2, <1>3, <2>1, <2>2 DEF On
  <2>4. \A k \in 1 .. Len(Front(st)) : k \in 1 .. Len(st) /\ k # Len(st) /\ Front(st)[k] = st[k]
    <3>1. st # <<>>
      BY <1>4
    <3> QED
      BY <2>1, <3>1, ListFront DEF IsStack
  <2>5. \A k \in 1 .. Len(Front(st)) : Apart(Front(st)[k], h)
    BY <1>2, <2>1, <2>2, <2>4 DEF Apart
  <2> QED
    BY <2>3, <2>5
<1>5. IsStack(Append(Front(st), h))
  BY <1>2, <1>3, <1>4, Change
<1> QED
  BY <1>5 DEF h, f

LEMMA JoinedStack ==
  ASSUME NEW st, IsStack(st), Last(st).at = "block", NEW s, IsStatement(s),
         IsNamed(s) => s.name \in Last(st).symbols \ NamesIn(Last(st).node.block),
         s.kind = "function" => NamesIn(s.block) \cap (NamesIn(Last(st).node.block) \cup {s.name}) = {}
  PROVE  IsStack(Joined(st, s))
<1> DEFINE f == Last(st)
<1>1. f = [at |-> f.at, node |-> f.node, symbols |-> f.symbols] /\ f.at = "block"
  BY Top DEF IsFrame
<1>2. IsStack(Append(Front(st), [at |-> "block", node |-> [f.node EXCEPT !.block = Append(@, s)],
                                 symbols |-> f.symbols \cup {}]))
  BY JoinStack
<1> HIDE DEF f
<1>3. [f EXCEPT !.node.block = Append(@, s)]
        = [at |-> "block", node |-> [f.node EXCEPT !.block = Append(@, s)], symbols |-> f.symbols \cup {}]
  BY <1>1
<1> QED
  BY <1>2, <1>3 DEF Joined, f

LEMMA FrameExcept ==
  ASSUME NEW f, f = [at |-> f.at, node |-> f.node, symbols |-> f.symbols], NEW x
  PROVE  /\ [f EXCEPT !.symbols = x] = [at |-> f.at, node |-> f.node, symbols |-> x]
         /\ [f EXCEPT !.node = x] = [at |-> f.at, node |-> x, symbols |-> f.symbols]
OBVIOUS

LEMMA DeclaredStack ==
  ASSUME NEW st, IsStack(st), Last(st).at = "block", NEW s, IsStatement(s), IsNamed(s),
         \A k \in 1 .. Len(st) : s.name \notin st[k].symbols,
         s.kind = "function" => s.block = <<>>
  PROVE  IsStack(Entered(Joined(st, s), s.name))
<1> DEFINE f == Last(st)
           g == [f EXCEPT !.node.block = Append(@, s)]
           h == [g EXCEPT !.symbols = @ \cup {s.name}]
           u == Front(st)
<1>1. /\ f = [at |-> f.at, node |-> f.node, symbols |-> f.symbols] /\ f.at = "block"
      /\ NamesIn(f.node.block) \subseteq f.symbols
  BY Top DEF IsFrame
<1>2. f = st[Len(st)] /\ Len(st) \in 1 .. Len(st)
  BY Top
<1>3. s.name \notin f.symbols /\ s.name \notin NamesIn(f.node.block)
  BY <1>1, <1>2
<1>4. s.kind = "function" => NamesIn(s.block) \cap (NamesIn(f.node.block) \cup {s.name}) = {}
  BY EmptyBlock
<1>5. IsStack(Append(Front(st), [at |-> "block", node |-> [f.node EXCEPT !.block = Append(@, s)],
                                 symbols |-> f.symbols \cup {s.name}]))
  BY <1>3, <1>4, JoinStack
<1> HIDE DEF f
<1>6. h = [at |-> "block", node |-> [f.node EXCEPT !.block = Append(@, s)], symbols |-> f.symbols \cup {s.name}]
  <2>1. g = [at |-> f.at, node |-> [f.node EXCEPT !.block = Append(@, s)], symbols |-> f.symbols]
    BY <1>1, FrameExcept
  <2>2. g.at = f.at /\ g.node = [f.node EXCEPT !.block = Append(@, s)] /\ g.symbols = f.symbols
    BY <2>1
  <2>3. g = [at |-> g.at, node |-> g.node, symbols |-> g.symbols]
    BY <2>1, <2>2
  <2> DEFINE S == g.symbols \cup {s.name}
  <2>4. h = [g EXCEPT !.symbols = S]
    OBVIOUS
  <2> HIDE DEF g, h, S
  <2>5. h = [at |-> g.at, node |-> g.node, symbols |-> S]
    BY <2>3, <2>4, FrameExcept
  <2> QED
    BY <1>1, <2>2, <2>5 DEF S
<1>7. IsList(u)
  <2>1. st # <<>>
    BY DEF IsStack
  <2> QED
    BY <2>1, ListFront DEF IsStack
<1> HIDE DEF g, u
<1>8. Last(Append(u, g)) = g /\ Front(Append(u, g)) = u
  <2>1. IsList(Append(u, g)) /\ Len(Append(u, g)) = Len(u) + 1 /\ Append(u, g)[Len(u) + 1] = g
    BY <1>7, ListAppend
  <2>2. Front(Append(u, g)) = u
    BY <1>7 DEF Front, IsList
  <2> QED
    BY <2>1, <2>2 DEF Last
<1>9. Joined(st, s) = Append(u, g)
  BY DEF Joined, f, g, u
<1>10. Entered(Joined(st, s), s.name) = Append(u, h)
  BY <1>8, <1>9 DEF Entered
<1> QED
  BY <1>5, <1>6, <1>10 DEF u

\* The name of a function is entered before its block is read.
LEMMA EnteredStack ==
  ASSUME NEW st, IsStack(st), Last(st).at = "block", NEW name,
         \A k \in 1 .. Len(st) : name \notin st[k].symbols
  PROVE  /\ IsStack(Entered(st, name)) /\ Last(Entered(st, name)).at = "block"
         /\ name \in Last(Entered(st, name)).symbols \ NamesIn(Last(Entered(st, name)).node.block)
<1> DEFINE f == Last(st)
           h == [f EXCEPT !.symbols = @ \cup {name}]
<1>1. IsFrame(f) /\ f = [at |-> f.at, node |-> f.node, symbols |-> f.symbols] /\ f.at = "block"
      /\ NamesIn(f.node.block) \subseteq f.symbols /\ f = st[Len(st)] /\ Len(st) \in 1 .. Len(st)
  BY Top DEF IsFrame
<1>2. name \notin NamesIn(f.node.block)
  BY <1>1
<1>3. ASSUME Len(st) > 1
      PROVE  /\ On(Last(Front(st)), f) /\ Len(Front(st)) = Len(st) - 1
             /\ \A k \in 1 .. Len(Front(st)) : Apart(Front(st)[k], f) /\ name \notin Front(st)[k].symbols
  <2>1. st # <<>>
    BY <1>3
  <2>2. Len(Front(st)) = Len(st) - 1 /\ \A k \in 1 .. Len(Front(st)) : k \in 1 .. Len(st) /\ Front(st)[k] = st[k]
    BY <1>3, <2>1, Pop, ListFront DEF IsStack
  <2> QED
    BY <1>3, <2>2, Pop
<1> HIDE DEF f
<1>4. h = [at |-> "block", node |-> f.node, symbols |-> f.symbols \cup {name}]
  <2> DEFINE S == f.symbols \cup {name}
  <2>1. h = [f EXCEPT !.symbols = S]
    OBVIOUS
  <2> HIDE DEF S, h
  <2>2. h = [at |-> f.at, node |-> f.node, symbols |-> S]
    BY <1>1, <2>1, FrameExcept
  <2> QED
    BY <1>1, <2>2 DEF S
<1>5. h.at = "block" /\ h.node = f.node /\ h.symbols = f.symbols \cup {name}
  BY <1>4
<1>6. IsFrame(h)
  BY <1>1, <1>4, <1>5 DEF IsFrame
<1> HIDE DEF h
<1>7. ASSUME Len(st) > 1
      PROVE  On(Last(Front(st)), h) /\ \A k \in 1 .. Len(Front(st)) : Apart(Front(st)[k], h)
  BY <1>1, <1>3, <1>5, <1>7 DEF On, Apart
<1>8. IsStack(Append(Front(st), h)) /\ Last(Append(Front(st), h)) = h
  BY <1>5, <1>6, <1>7, Change
<1>9. Entered(st, name) = Append(Front(st), h)
  BY DEF Entered, h, f
<1> QED
  BY <1>2, <1>5, <1>8, <1>9

-----------------------------------------------------------------------------
(***************************************************************************)
(* The invariant                                                           *)
(***************************************************************************)
\* The stack is one, the tokens are tokens, and a value is an expression.
Inv ==
  /\ IsStack(calls)
  /\ IsList(tokens) /\ \A k \in DOMAIN tokens : IsToken(tokens[k])
  /\ value # NoValue => IsExpression(value)

LEMMA InvInit == Init => Inv
<1> SUFFICES ASSUME Init
             PROVE  Inv
  OBVIOUS
<1>1. IsList(tokens) /\ \A k \in DOMAIN tokens : IsToken(tokens[k])
  BY TextsAssumption DEF Init, IsList
<1> DEFINE f == Active("block", Program)
<1>2. f = [at |-> "block", node |-> [kind |-> "program", block |-> <<>>], symbols |-> {}]
  BY DEF Active, Program
<1>3. IsFrame(f) /\ f.at = "block"
  BY <1>2, EmptyBlock DEF IsFrame, NodeOf
<1> HIDE DEF f
<1>4. IsList(<<f>>)
  <2>1. <<f>> \in Seq({f})
    OBVIOUS
  <2> QED
    BY <2>1, ListOf
<1>5. Len(<<f>>) = 1 /\ <<f>>[1] = f
  OBVIOUS
<1>6. \A k \in 1 .. 1 : k = 1 /\ 1 .. k - 1 = {}
  OBVIOUS
<1>7. IsStack(<<f>>)
  BY <1>3, <1>4, <1>5, <1>6 DEF IsStack
<1> QED
  BY <1>1, <1>7 DEF Inv, Init, f

LEMMA TokensLeft ==
  ASSUME NEW ts, IsList(ts), \A k \in DOMAIN ts : IsToken(ts[k]), NEW n \in Nat
  PROVE  LET left == SubSeq(ts, n + 1, Len(ts))
         IN IsList(left) /\ \A k \in DOMAIN left : IsToken(left[k])
<1> DEFINE S == {ts[k] : k \in DOMAIN ts}
           left == SubSeq(ts, n + 1, Len(ts))
<1>1. ts \in Seq(S) /\ \A x \in S : IsToken(x)
  BY DEF IsList
<1> HIDE DEF S
<1>2. left \in Seq(S)
  BY <1>1
<1> HIDE DEF left
<1>3. \A k \in DOMAIN left : left[k] \in S
  BY <1>2
<1> QED
  BY <1>1, <1>2, <1>3, ListOf DEF left

LEMMA Looked ==
  ASSUME Inv, NEW k \in Nat, token_lookahead(k).type # "EOF_OR_INVALID"
  PROVE  tokens[k + 1] = token_lookahead(k) /\ IsToken(tokens[k + 1])
<1>1. Invalid.type = "EOF_OR_INVALID"
  BY DEF Invalid, Token
<1>2. k < Len(tokens) /\ tokens[k + 1] = token_lookahead(k)
  BY <1>1 DEF token_lookahead
<1> QED
  BY <1>2, ListLen DEF Inv

LEMMA Exits ==
  ASSUME Inv, NEW message, Exit(message)
  PROVE  Inv'
BY DEF Inv, Exit

LEMMA Reads ==
  ASSUME Inv, NEW n \in Nat, NEW st, IsStack(st), Read(n, st)
  PROVE  Inv'
<1>1. IsList(tokens') /\ \A k \in DOMAIN tokens' : IsToken(tokens'[k])
  BY TokensLeft DEF Read, Eaten, Inv
<1> QED
  BY <1>1 DEF Inv, Read

LEMMA Gets ==
  ASSUME Inv, NEW n \in Nat, NEW node, IsExpression(node), Got(n, node)
  PROVE  Inv'
<1>1. IsList(tokens') /\ \A k \in DOMAIN tokens' : IsToken(tokens'[k])
  BY TokensLeft DEF Got, Eaten, Inv
<1> QED
  BY <1>1 DEF Inv, Got

LEMMA Expects ==
  ASSUME Inv, NEW types, Len(types) \in Nat, NEW st, Follows(types) => IsStack(st), Expect(types, st)
  PROVE  Inv'
BY Exits, Reads DEF Expect

LEMMA Declares ==
  ASSUME Inv, NEW types, Len(types) \in Nat, NEW st, NEW node,
         Follows(types) /\ ~Declared(node.name) => IsStack(Entered(Joined(st, node), node.name)),
         Declare(types, st, node)
  PROVE  Inv'
BY Exits, Reads DEF Declare

LEMMA Items ==
  ASSUME Inv, NEW n \in Nat, NEW st, IsStack(st), Item(n, st)
  PROVE  Inv'
<1>1. CASE Read(n, st)
  BY <1>1, Reads
<1>2. CASE Read(n + 1, st)
  BY <1>2, Reads
<1>3. CASE Exit("expected another token")
  BY <1>3, Exits
<1>4. Read(n, st) \/ Read(n + 1, st) \/ Exit("expected another token")
  BY DEF Item
<1> QED
  BY <1>1, <1>2, <1>3, <1>4

LEMMA NotDeclared ==
  ASSUME Inv, NEW name, ~Declared(name)
  PROVE  \A k \in 1 .. Len(calls) : name \notin calls[k].symbols
BY ListLen DEF Inv, IsStack, Declared

\* A call of a parsing function other than parse_block.
LEMMA PushNode ==
  ASSUME NEW st, IsStack(st), NEW at, NEW node, at # "block", Calls(Last(st).at, at), NodeOf(at, node)
  PROVE  LET t == Append(st, Active(at, node))
         IN IsStack(t) /\ Last(t).at = at /\ Last(t).node = node
<1> DEFINE f == Active(at, node)
<1>1. f = [at |-> at, node |-> node, symbols |-> {}] /\ f.at = at /\ f.node = node /\ f.symbols = {}
  BY DEF Active
<1> HIDE DEF f
<1>2. IsFrame(f) /\ On(Last(st), f) /\ \A k \in 1 .. Len(st) : Apart(st[k], f)
  BY <1>1 DEF IsFrame, On, Apart
<1>3. IsStack(Append(st, f)) /\ Last(Append(st, f)) = f
  BY <1>2, Push
<1> QED
  BY <1>1, <1>3 DEF f

\* The innermost call goes on with another node, or as another function.
LEMMA ChangeNode ==
  ASSUME NEW st, IsStack(st), Last(st).at # "block", NEW f, IsFrame(f), f.at # "block",
         (Calls("block", Last(st).at) /\ Calls("block", f.at)) \/ Last(st).at = f.at
  PROVE  IsStack(Append(Front(st), f)) /\ Last(Append(Front(st), f)) = f
<1>1. Len(st) > 1 /\ Len(st) \in Nat
  BY Top
<1>2. On(Last(Front(st)), Last(st))
  BY <1>1, Pop
<1>3. On(Last(Front(st)), f)
  BY <1>2 DEF On, Calls
<1>4. \A k \in 1 .. Len(Front(st)) : Apart(Front(st)[k], f)
  BY DEF Apart
<1>5. Len(st) # 1
  <2>1. \A n \in Nat : n > 1 => n # 1
    OBVIOUS
  <2> QED
    BY <1>1, <2>1
<1> QED
  BY <1>3, <1>4, <1>5, Change

LEMMA WithNode ==
  ASSUME Inv, Last(calls).at # "block", NEW node, NodeOf(Last(calls).at, node)
  PROVE  IsStack(With(node))
<1> DEFINE f == Last(calls)
           h == [f EXCEPT !.node = node]
<1>1. f = [at |-> f.at, node |-> f.node, symbols |-> f.symbols] /\ f.at # "block"
  BY Top DEF Inv, IsFrame
<1>2. NodeOf(f.at, node)
  OBVIOUS
<1> HIDE DEF f
<1>3. h = [at |-> f.at, node |-> node, symbols |-> f.symbols]
  BY <1>1, FrameExcept
<1>4. IsFrame(h) /\ h.at = f.at
  BY <1>1, <1>2, <1>3 DEF IsFrame
<1> HIDE DEF h
<1>5. IsStack(Append(Front(calls), h))
  BY <1>1, <1>4, ChangeNode DEF Inv, f
<1> QED
  BY <1>5 DEF With, h, f

LEMMA Shorter ==
  ASSUME NEW st, IsStack(st), Len(st) > 1
  PROVE  /\ IsStack(Front(st)) /\ On(Last(Front(st)), Last(st))
         /\ \A k \in 1 .. Len(Front(st)) : k \in 1 .. Len(st) /\ Front(st)[k] = st[k]
<1>1. IsStack(Front(st)) /\ On(Last(Front(st)), Last(st)) /\ Len(Front(st)) = Len(st) - 1
  BY Pop
<1>2. IsList(st) /\ st # <<>> /\ Len(st) \in Nat
  BY Top DEF IsStack
<1>3. \A k \in 1 .. Len(st) - 1 : k \in 1 .. Len(st) /\ Front(st)[k] = st[k]
  BY <1>2, ListFront
<1> QED
  BY <1>1, <1>3

\* parse_block's caller, and that of parse_binary_expression.
LEMMA Below ==
  ASSUME Inv, Last(calls).at # "block"
  PROVE  /\ IsStack(Front(calls)) /\ Calls(Last(Front(calls)).at, Last(calls).at)
         /\ \A k \in 1 .. Len(Front(calls)) : k \in 1 .. Len(calls) /\ Front(calls)[k] = calls[k]
<1>1. IsStack(calls) /\ Len(calls) > 1
  BY Top DEF Inv
<1> QED
  BY <1>1, Shorter DEF On

LEMMA BelowOuter ==
  ASSUME Inv, Last(calls).at = "expression", Caller.at # "arguments"
  PROVE  /\ IsStack(Outer) /\ Last(Outer).at = "block" /\ IsFrame(Caller)
         /\ \A k \in 1 .. Len(Outer) : k \in 1 .. Len(calls) /\ Outer[k] = calls[k]
<1> DEFINE st == Front(calls)
<1>1. /\ IsStack(st) /\ Calls(Last(st).at, "expression")
      /\ \A k \in 1 .. Len(st) : k \in 1 .. Len(calls) /\ st[k] = calls[k]
  BY Below
<1>2. Caller = Last(st) /\ Outer = Front(st)
  BY DEF Caller, Outer
<1> HIDE DEF st
<1>3. Last(st).at \in {"variable", "return", "statement"} /\ IsFrame(Last(st))
  BY <1>1, <1>2, Top DEF Calls
<1>4. Len(st) > 1
  BY <1>1, <1>3, Top
<1>5. /\ IsStack(Front(st)) /\ On(Last(Front(st)), Last(st))
      /\ \A k \in 1 .. Len(Front(st)) : k \in 1 .. Len(st) /\ Front(st)[k] = st[k]
  BY <1>1, <1>4, Shorter
<1>6. Last(Front(st)).at = "block"
  BY <1>3, <1>5 DEF On, Calls
<1> QED
  BY <1>1, <1>2, <1>3, <1>5, <1>6

-----------------------------------------------------------------------------
(***************************************************************************)
(* Every action preserves it                                               *)
(***************************************************************************)
LEMMA Two ==
  ASSUME NEW st, IsList(st), NEW f, NEW g
  PROVE  st \o <<f, g>> = Append(Append(st, f), g)
<1> DEFINE S == {st[k] : k \in DOMAIN st} \cup {f, g}
<1>1. st \in Seq(S) /\ f \in S /\ g \in S
  BY LargerSeq DEF IsList
<1> HIDE DEF S
<1> QED
  BY <1>1

\* A parsing function that reads an expression first.
LEMMA PushExpression ==
  ASSUME Inv, Last(calls).at = "block", NEW at, at \in {"variable", "return", "statement"},
         NEW node, NodeOf(at, node)
  PROVE  IsStack(calls \o <<Active(at, node), Expression>>)
<1> DEFINE st == Append(calls, Active(at, node))
<1>1. IsStack(st) /\ Last(st).at = at
  BY PushNode DEF Inv, Calls
<1> HIDE DEF st
<1>2. IsStack(Append(st, Expression))
  <2>1. NodeOf("expression", NoValue) /\ Calls(Last(st).at, "expression")
    BY <1>1 DEF NodeOf, Calls
  <2> QED
    BY <1>1, <2>1, PushNode DEF Expression
<1> HIDE DEF st
<1>3. IsList(calls)
  BY DEF Inv, IsStack
<1>4. calls \o <<Active(at, node), Expression>> = Append(st, Expression)
  BY <1>3, Two DEF st
<1> QED
  BY <1>2, <1>4

LEMMA ReturnInv ==
  ASSUME Inv, ReturnStatement
  PROVE  Inv'
<1>1. Last(calls).at = "block" /\ IsStack(calls)
  BY DEF ReturnStatement, AtStatement, In, Inv
<1>2. CASE Read(2, Joined(calls, Return(NoValue)))
  <2>1. IsStatement(Return(NoValue)) /\ ~IsNamed(Return(NoValue)) /\ Return(NoValue).kind # "function"
    BY DEF Return, IsStatement, IsNamed
  <2>2. IsStack(Joined(calls, Return(NoValue)))
    BY <1>1, <2>1, JoinedStack
  <2> QED
    BY <1>2, <2>2, Reads
<1>3. CASE Read(1, calls \o <<Active("return", Return(NoValue)), Expression>>)
  <2>1. IsStack(calls \o <<Active("return", Return(NoValue)), Expression>>)
    BY <1>1, PushExpression DEF NodeOf
  <2> QED
    BY <1>3, <2>1, Reads
<1> QED
  BY <1>2, <1>3 DEF ReturnStatement

LEMMA NamedToken ==
  ASSUME Inv, NEW k \in Nat, token_lookahead(k).type = "identifier"
  PROVE  tokens[k + 1] = Id(tokens[k + 1].value) /\ tokens[k + 1].value # Vararg /\ tokens[k + 1].value # ""
BY Looked DEF IsToken, Id

LEMMA VariableInv ==
  ASSUME Inv, VariableDeclaration
  PROVE  Inv'
<1> DEFINE v == Variable(tokens[1].value, tokens[2].value, NoValue)
<1>1. Last(calls).at = "block" /\ IsStack(calls)
  BY DEF VariableDeclaration, AtStatement, In, Inv
<1>2. token_lookahead(1).type = "identifier"
  <2>1. 2 \in DOMAIN <<"identifier", "identifier">> /\ <<"identifier", "identifier">>[2] = "identifier"
    OBVIOUS
  <2>2. token_lookahead(2 - 1).type = "identifier"
    BY <2>1 DEF VariableDeclaration, AtDeclaration, Follows
  <2> QED
    BY <2>2
<1>3. IsVariable(v) /\ IsStatement(v) /\ IsNamed(v) /\ v.kind # "function"
  <2>1. tokens[1 + 1].value # Vararg
    BY <1>2, NamedToken
  <2> QED
    BY <2>1 DEF Variable, IsVariable, IsStatement, IsNamed
<1> HIDE DEF v
<1>4. CASE Read(3, calls \o <<Active("variable", v), Expression>>)
  <2>1. IsStack(calls \o <<Active("variable", v), Expression>>)
    BY <1>1, <1>3, PushExpression DEF NodeOf
  <2> QED
    BY <1>4, <2>1, Reads
<1>5. CASE Declare(<<"identifier", "identifier", ";">>, calls, v)
  <2>1. ~Declared(v.name) => IsStack(Entered(Joined(calls, v), v.name))
    BY <1>1, <1>3, NotDeclared, DeclaredStack
  <2>2. Len(<<"identifier", "identifier", ";">>) \in Nat
    OBVIOUS
  <2> QED
    BY <1>5, <2>1, <2>2, Declares
<1> QED
  BY <1>4, <1>5 DEF VariableDeclaration, v

LEMMA ExpressionStatementInv ==
  ASSUME Inv, ExpressionStatement
  PROVE  Inv'
<1>1. IsStack(calls \o <<Active("statement", NoValue), Expression>>)
  BY PushExpression DEF NodeOf, ExpressionStatement, AtStatement, In
<1> QED
  BY <1>1, Reads DEF ExpressionStatement

LEMMA FunctionInv ==
  ASSUME Inv, FunctionDeclaration
  PROVE  Inv'
<1> DEFINE types == <<"fn", "identifier", "(">>
           f == FunctionNode(tokens[2].value)
<1>1. IsStack(calls) /\ Last(calls).at = "block"
  BY DEF FunctionDeclaration, AtStatement, In, Inv
<1>2. ASSUME Follows(types)
      PROVE  IsFunction(f) /\ f.block = <<>>
  <2>1. 2 \in DOMAIN types /\ types[2] = "identifier"
    OBVIOUS
  <2>2. token_lookahead(1).type = "identifier"
    BY <1>2, <2>1 DEF Follows
  <2>3. tokens[1 + 1].value # Vararg
    BY <2>2, NamedToken
  <2>4. IsList(<<>>)
    BY EmptyBlock DEF IsBlock
  <2> QED
    BY <2>3, <2>4, EmptyBlock DEF FunctionNode, IsFunction
<1>3. Len(types) \in Nat
  OBVIOUS
<1>4. Expect(types, Append(calls, Active("parameters", f)))
  BY DEF FunctionDeclaration
<1> HIDE DEF types, f
<1>5. Follows(types) => IsStack(Append(calls, Active("parameters", f)))
  <2>1. Calls("block", "parameters")
    BY DEF Calls
  <2>2. Follows(types) => NodeOf("parameters", f)
    BY <1>2 DEF NodeOf
  <2> QED
    BY <1>1, <2>1, <2>2, PushNode
<1> QED
  BY <1>3, <1>4, <1>5, Expects

LEMMA TypeInv ==
  ASSUME Inv, TypeDeclaration
  PROVE  Inv'
<1> DEFINE types == <<"type", "identifier", "(">>
           s == TypeNode(tokens[2].value)
<1>1. IsStack(calls) /\ Last(calls).at = "block"
  BY DEF TypeDeclaration, AtStatement, In, Inv
<1>2. ASSUME Follows(types)
      PROVE  IsType(s)
  <2>1. 2 \in DOMAIN types /\ types[2] = "identifier"
    OBVIOUS
  <2>2. token_lookahead(1).type = "identifier"
    BY <1>2, <2>1 DEF Follows
  <2>3. tokens[1 + 1].value # Vararg
    BY <2>2, NamedToken
  <2>4. IsList(<<>>)
    BY EmptyBlock DEF IsBlock
  <2> QED
    BY <2>3, <2>4 DEF TypeNode, IsType
<1>3. Len(types) \in Nat
  OBVIOUS
<1>4. Expect(types, Append(calls, Active("members", s)))
  BY DEF TypeDeclaration
<1> HIDE DEF types, s
<1>5. Follows(types) => IsStack(Append(calls, Active("members", s)))
  <2>1. Calls("block", "members")
    BY DEF Calls
  <2>2. Follows(types) => NodeOf("members", s)
    BY <1>2 DEF NodeOf
  <2> QED
    BY <1>1, <2>1, <2>2, PushNode
<1> QED
  BY <1>3, <1>4, <1>5, Expects

LEMMA FunctionExcept ==
  ASSUME NEW f, IsFunction(f), f.block = <<>>, NEW p
  PROVE  /\ LET g == [f EXCEPT !.parameters = Append(@, p)] IN IsFunction(g) /\ g.block = <<>>
         /\ LET g == [f EXCEPT !.names = p] IN IsFunction(g) /\ g.block = <<>>
         /\ LET g == [f EXCEPT !.return_type = p] IN IsFunction(g) /\ g.block = <<>>
         /\ LET g == [f EXCEPT !.is_extern = p] IN IsFunction(g) /\ g.block = <<>>
         /\ LET g == [f EXCEPT !.is_entry = p] IN IsFunction(g) /\ g.block = <<>>
<1>1. IsList(Append(f.parameters, p))
  BY ListAppend DEF IsFunction
<1>2. LET g == [f EXCEPT !.parameters = Append(@, p)] IN IsFunction(g) /\ g.block = <<>>
  BY <1>1 DEF IsFunction
<1>3. LET g == [f EXCEPT !.return_type = p] IN IsFunction(g) /\ g.block = <<>>
  BY DEF IsFunction
<1>4. LET g == [f EXCEPT !.is_extern = p] IN IsFunction(g) /\ g.block = <<>>
  BY DEF IsFunction
<1>5. LET g == [f EXCEPT !.is_entry = p] IN IsFunction(g) /\ g.block = <<>>
  BY DEF IsFunction
<1>6. LET g == [f EXCEPT !.names = p] IN IsFunction(g) /\ g.block = <<>>
  BY DEF IsFunction
<1> QED
  BY <1>2, <1>3, <1>4, <1>5, <1>6

LEMMA InSignature ==
  ASSUME Inv, Last(calls).at \in {"parameters", "attributes"}
  PROVE  IsFunction(Last(calls).node) /\ Last(calls).node.block = <<>>
BY Top DEF Inv, IsFrame, NodeOf

LEMMA ParameterInv ==
  ASSUME Inv, Parameter
  PROVE  Inv'
<1> DEFINE f == Last(calls).node
           More(type, name) == With([f EXCEPT !.parameters = Append(@, type), !.names = Append(@, name)])
<1>1. Last(calls).at = "parameters"
  BY DEF Parameter, In
<1>2. ASSUME NEW type, NEW name
      PROVE  IsStack(More(type, name))
  <2> DEFINE p == [f EXCEPT !.parameters = Append(@, type)]
             names == Append(f.names, name)
             g == [p EXCEPT !.names = names]
  <2>1. IsFunction(f) /\ f.block = <<>>
    BY <1>1, InSignature
  <2>2. More(type, name) = With(g)
    OBVIOUS
  <2> HIDE DEF f, names, More
  <2>3. IsFunction(p) /\ p.block = <<>>
    BY <2>1, FunctionExcept
  <2> HIDE DEF p
  <2>4. IsFunction(g) /\ g.block = <<>>
    BY <2>3, FunctionExcept
  <2> HIDE DEF g
  <2>5. NodeOf("parameters", g)
    BY <2>4 DEF NodeOf
  <2> QED
    BY <1>1, <2>2, <2>5, WithNode
<1>3. \/ Item(3, More(Vararg, ""))
      \/ Item(2, More(tokens[1].value, tokens[2].value))
      \/ Item(1, More(tokens[1].value, ""))
      \/ Exit("expected another token")
  BY DEF Parameter
<1> HIDE DEF More
<1>4. CASE Item(3, More(Vararg, ""))
  BY <1>2, <1>4, Items
<1>5. CASE Item(2, More(tokens[1].value, tokens[2].value))
  BY <1>2, <1>5, Items
<1>6. CASE Item(1, More(tokens[1].value, ""))
  BY <1>2, <1>6, Items
<1>7. CASE Exit("expected another token")
  BY <1>7, Exits
<1> QED
  BY <1>3, <1>4, <1>5, <1>6, <1>7

LEMMA EndParametersInv ==
  ASSUME Inv, EndParameters
  PROVE  Inv'
<1> DEFINE f == Last(calls).node
           Signature(type) == Append(Front(calls), Active("attributes", [f EXCEPT !.return_type = type]))
<1>1. Last(calls).at = "parameters"
  BY DEF EndParameters, In
<1>2. ASSUME NEW type
      PROVE  IsStack(Signature(type))
  <2> DEFINE g == [f EXCEPT !.return_type = type]
             h == Active("attributes", g)
  <2>1. IsFunction(g) /\ g.block = <<>>
    BY <1>1, InSignature, FunctionExcept
  <2> HIDE DEF g
  <2>2. h = [at |-> "attributes", node |-> g, symbols |-> {}] /\ h.at = "attributes" /\ h.node = g
    BY DEF Active
  <2>3. IsFrame(h)
    BY <2>1, <2>2 DEF IsFrame, NodeOf
  <2>4. Calls("block", "parameters") /\ Calls("block", "attributes")
    BY DEF Calls
  <2> HIDE DEF h
  <2>5. IsStack(Append(Front(calls), h))
    BY <1>1, <2>2, <2>3, <2>4, ChangeNode DEF Inv
  <2> QED
    BY <2>5 DEF h, g
<1>3. Read(2, Signature(tokens[2].value)) \/ Read(1, Signature("void"))
  BY DEF EndParameters
<1> HIDE DEF Signature
<1> QED
  BY <1>2, <1>3, Reads

LEMMA AttributeInv ==
  ASSUME Inv, Attribute
  PROVE  Inv'
<1> DEFINE f == Last(calls).node
           g == [f EXCEPT !.is_extern = TRUE]
           h == [f EXCEPT !.is_entry = TRUE]
<1>1. Last(calls).at = "attributes"
  BY DEF Attribute, In
<1>2. IsFunction(g) /\ g.block = <<>> /\ IsFunction(h) /\ h.block = <<>>
  BY <1>1, InSignature, FunctionExcept
<1>3. \/ Read(2, With(g)) \/ Read(2, With(h))
      \/ Exit("expected another token") \/ Exit("unexpected identifier for '@...'")
  BY DEF Attribute
<1> HIDE DEF g, h
<1>4. IsStack(With(g)) /\ IsStack(With(h))
  BY <1>1, <1>2, WithNode DEF NodeOf
<1> QED
  BY <1>3, <1>4, Reads, Exits

LEMMA EndSignatureInv ==
  ASSUME Inv, EndSignature
  PROVE  Inv'
<1> DEFINE f == Last(calls).node
           st == Front(calls)
           opened == Append(Entered(st, f.name), Active("block", f))
<1>1. Last(calls).at = "attributes"
  BY DEF EndSignature, In
<1>2. IsFunction(f) /\ f.block = <<>>
  BY <1>1, InSignature
<1>3. /\ IsStack(st) /\ Last(st).at = "block"
      /\ \A k \in 1 .. Len(st) : k \in 1 .. Len(calls) /\ st[k] = calls[k]
  BY <1>1, Below DEF Calls
<1>4. \/ Exit("re-declaration of symbol")
      \/ ~Declared(f.name) /\ Expect(<<";">>, Entered(Joined(st, f), f.name))
      \/ ~Declared(f.name) /\ Expect(<<"{">>, opened)
  BY DEF EndSignature
<1>5. Len(<<";">>) \in Nat /\ Len(<<"{">>) \in Nat
  OBVIOUS
<1> HIDE DEF f, st, opened
<1>6. CASE Exit("re-declaration of symbol")
  BY <1>6, Exits
<1>7. ASSUME ~Declared(f.name)
      PROVE  \A k \in 1 .. Len(st) : f.name \notin st[k].symbols
  BY <1>3, <1>7, NotDeclared
<1>8. CASE ~Declared(f.name) /\ Expect(<<";">>, Entered(Joined(st, f), f.name))
  <2>1. IsStatement(f) /\ IsNamed(f)
    BY <1>2 DEF IsFunction, IsStatement, IsNamed
  <2>2. IsStack(Entered(Joined(st, f), f.name))
    BY <1>2, <1>3, <1>7, <1>8, <2>1, DeclaredStack
  <2> QED
    BY <1>5, <1>8, <2>2, Expects
<1>9. CASE ~Declared(f.name) /\ Expect(<<"{">>, opened)
  <2> DEFINE t == Entered(st, f.name)
             b == Active("block", f)
  <2>1. IsStack(t) /\ Last(t).at = "block" /\ f.name \in Last(t).symbols \ NamesIn(Last(t).node.block)
    BY <1>3, <1>7, <1>9, EnteredStack
  <2>2. b = [at |-> "block", node |-> f, symbols |-> {}] /\ b.at = "block" /\ b.node = f /\ b.symbols = {}
    BY DEF Active
  <2> HIDE DEF t, b
  <2>3. IsFrame(b)
    BY <1>2, <2>2, EmptyBlock DEF IsFrame, NodeOf, IsFunction
  <2>4. On(Last(t), b) /\ \A k \in 1 .. Len(t) : Apart(t[k], b)
    BY <1>2, <2>1, <2>2 DEF On, Apart, Calls
  <2>5. IsStack(Append(t, b))
    BY <2>1, <2>3, <2>4, Push
  <2> QED
    BY <1>5, <1>9, <2>5, Expects DEF opened, t, b
<1> QED
  BY <1>4, <1>6, <1>8, <1>9

LEMMA CloseBlockInv ==
  ASSUME Inv, CloseBlock
  PROVE  Inv'
<1> DEFINE f == Last(calls)
           st == Front(calls)
           g == Last(st)
<1>1. IsStack(calls) /\ Len(calls) > 1 /\ f.at = "block"
  BY DEF CloseBlock, AtStatement, In, Inv
<1>2. IsStack(st) /\ On(g, f) /\ Len(st) = Len(calls) - 1 /\ \A k \in 1 .. Len(st) : Apart(st[k], f)
  BY <1>1, Pop
<1>3. IsFrame(f)
  BY <1>1, Top
<1>4. g = st[Len(st)] /\ IsFrame(g) /\ Len(st) \in 1 .. Len(st)
  BY <1>2, Top
<1> HIDE DEF f, g, st
<1>5. g.at = "block" /\ IsFunction(f.node) /\ f.node.name \in g.symbols \ NamesIn(g.node.block)
  BY <1>1, <1>2 DEF On, Calls
<1>6. f.symbols \cap g.symbols = {}
  BY <1>1, <1>2, <1>4 DEF Apart
<1>7. NamesIn(f.node.block) \subseteq f.symbols /\ NamesIn(g.node.block) \subseteq g.symbols
  BY <1>1, <1>3, <1>4, <1>5 DEF IsFrame
<1>8. NamesIn(f.node.block) \cap (NamesIn(g.node.block) \cup {f.node.name}) = {}
  BY <1>5, <1>6, <1>7
<1>9. IsStatement(f.node)
  BY <1>5 DEF IsFunction, IsStatement, IsNamed
<1>10. IsStack(Joined(st, f.node))
  BY <1>2, <1>5, <1>8, <1>9, JoinedStack DEF g
<1>11. Read(1, Joined(st, f.node))
  BY DEF CloseBlock, st, f
<1> QED
  BY <1>10, <1>11, Reads

LEMMA TypeExcept ==
  ASSUME NEW s, IsType(s), NEW p
  PROVE  IsType([s EXCEPT !.members = Append(@, p)]) /\ IsType([s EXCEPT !.names = p])
<1>1. IsList(Append(s.members, p))
  BY ListAppend DEF IsType
<1>2. IsType([s EXCEPT !.members = Append(@, p)])
  BY <1>1 DEF IsType
<1>3. IsType([s EXCEPT !.names = p])
  BY DEF IsType
<1> QED
  BY <1>2, <1>3

LEMMA MemberInv ==
  ASSUME Inv, Member
  PROVE  Inv'
<1> DEFINE s == Last(calls).node
           p == [s EXCEPT !.members = Append(@, tokens[1].value)]
           names == Append(s.names, tokens[2].value)
           g == [p EXCEPT !.names = names]
<1>1. Last(calls).at = "members" /\ IsType(s)
  BY Top DEF Member, In, Inv, IsFrame, NodeOf
<1>2. Item(2, With(g)) \/ Exit("expected another token")
  BY DEF Member
<1> HIDE DEF s, names
<1>3. IsType(p)
  BY <1>1, TypeExcept
<1> HIDE DEF p
<1>4. IsType(g)
  BY <1>3, TypeExcept
<1> HIDE DEF g
<1>5. IsStack(With(g))
  BY <1>1, <1>4, WithNode DEF NodeOf
<1> QED
  BY <1>2, <1>5, Items, Exits

LEMMA EndMembersInv ==
  ASSUME Inv, EndMembers
  PROVE  Inv'
<1> DEFINE s == Last(calls).node
           st == Front(calls)
           types == <<")", ";">>
<1>1. Last(calls).at = "members" /\ IsType(s)
  BY Top DEF EndMembers, In, Inv, IsFrame, NodeOf
<1>2. /\ IsStack(st) /\ Last(st).at = "block"
      /\ \A k \in 1 .. Len(st) : k \in 1 .. Len(calls) /\ st[k] = calls[k]
  BY <1>1, Below DEF Calls
<1>3. Declare(types, st, s) /\ Len(types) \in Nat
  BY DEF EndMembers
<1> HIDE DEF s, st, types
<1>4. IsStatement(s) /\ IsNamed(s) /\ s.kind # "function"
  BY <1>1 DEF IsType, IsStatement, IsNamed
<1>5. ASSUME ~Declared(s.name)
      PROVE  IsStack(Entered(Joined(st, s), s.name))
  <2>1. \A k \in 1 .. Len(st) : s.name \notin st[k].symbols
    BY <1>2, <1>5, NotDeclared
  <2> QED
    BY <1>2, <1>4, <2>1, DeclaredStack
<1> QED
  BY <1>3, <1>5, Declares

LEMMA ProgramInv ==
  ASSUME Inv, UnexpectedToken \/ EndOfProgram \/ NullStatement
  PROVE  Inv'
<1>1. CASE UnexpectedToken
  BY <1>1, Exits DEF UnexpectedToken
<1>2. CASE EndOfProgram
  BY <1>2 DEF EndOfProgram, Inv
<1>3. CASE NullStatement
  <2>1. IsStack(calls) /\ Last(calls).at = "block"
    BY <1>3 DEF NullStatement, AtStatement, In, Inv
  <2>2. IsStatement(NoValue) /\ ~IsNamed(NoValue) /\ NoValue.kind # "function"
    BY DEF NoValue, IsStatement, IsNamed
  <2>3. IsStack(Joined(calls, NoValue))
    BY <2>1, <2>2, JoinedStack
  <2>4. IsStack(calls')
    BY <1>3, <2>1, <2>3 DEF NullStatement
  <2> QED
    BY <1>3, <2>4 DEF NullStatement, Inv
<1> QED
  BY <1>1, <1>2, <1>3

LEMMA OperandInv ==
  ASSUME Inv, Operand
  PROVE  Inv'
<1>1. CASE Exit("Unexpected token in expression")
  BY <1>1, Exits
<1>2. CASE token_peek.type \in {"string", "number", "identifier"} /\ Got(1, Leaf(tokens[1]))
  <2>1. tokens[0 + 1] = token_lookahead(0)
    BY <1>2, Looked DEF token_peek
  <2>2. tokens[1].type \in {"string", "number", "identifier"}
    BY <1>2, <2>1 DEF token_peek
  <2>3. IsExpression(Leaf(tokens[1]))
    BY <2>2 DEF Leaf, Text, Number, Identifier, IsExpression
  <2> QED
    BY <1>2, <2>3, Gets
<1> QED
  BY <1>1, <1>2 DEF Operand

LEMMA CallInv ==
  ASSUME Inv, FunctionCall \/ Argument \/ EndArguments
  PROVE  Inv'
<1>1. CASE FunctionCall
  <2> DEFINE node == Call(tokens[1].value, <<>>)
  <2>1. Last(calls).at = "expression" /\ IsStack(calls)
    BY <1>1 DEF FunctionCall, AtOperand, In, Inv
  <2>2. NodeOf("arguments", node) /\ Calls("expression", "arguments")
    BY DEF NodeOf, Call, Calls
  <2>3. Read(2, Append(calls, Active("arguments", node)))
    BY <1>1 DEF FunctionCall
  <2> HIDE DEF node
  <2> QED
    BY <2>1, <2>2, <2>3, PushNode, Reads
<1>2. CASE Argument
  <2>1. Last(calls).at = "arguments" /\ IsStack(calls)
    BY <1>2 DEF Argument, In, Inv
  <2>2. NodeOf("expression", NoValue) /\ Calls("arguments", "expression")
    BY DEF NodeOf, Calls
  <2>3. IsStack(Append(calls, Expression))
    BY <2>1, <2>2, PushNode DEF Expression
  <2> QED
    BY <1>2, <2>3, Reads DEF Argument
<1>3. CASE EndArguments
  <2>1. Last(calls).at = "arguments"
    BY <1>3 DEF EndArguments, In
  <2>2. IsStack(Front(calls))
    BY <2>1, Below
  <2>3. Last(calls).node = Call(Last(calls).node.name, Last(calls).node.arguments)
    BY <2>1, Top DEF Inv, IsFrame, NodeOf
  <2>4. Last(calls).node.kind = "function_call"
    BY <2>3 DEF Call
  <2>5. IsList(tokens') /\ \A k \in DOMAIN tokens' : IsToken(tokens'[k])
    BY <1>3, TokensLeft DEF EndArguments, Eaten, Inv
  <2> QED
    BY <1>3, <2>2, <2>4, <2>5 DEF EndArguments, Inv, IsExpression
<1> QED
  BY <1>1, <1>2, <1>3

LEMMA DotInv ==
  ASSUME Inv, DotExpression
  PROVE  Inv'
<1>1. IsExpression(Dot(value, tokens[2].value))
  BY DEF IsExpression, Dot
<1>2. Got(2, Dot(value, tokens[2].value)) \/ Exit("expected another token")
  BY DEF DotExpression
<1> QED
  BY <1>1, <1>2, Gets, Exits

LEMMA LeftIsExpression ==
  ASSUME Inv, AfterOperand
  PROVE  IsExpression(Left)
<1> DEFINE node == Last(calls).node
<1>1. node = NoValue \/ node = Binary(node.operator, node.left, node.right)
  BY Top DEF AfterOperand, In, Inv, IsFrame, NodeOf
<1>2. CASE node = NoValue
  BY <1>2 DEF Left, AfterOperand, Inv
<1>3. CASE node # NoValue
  <2> DEFINE left == [node EXCEPT !.right = value]
  <2>1. Left = left
    BY <1>3 DEF Left
  <2> HIDE DEF node
  <2>2. left.kind = "binary"
    BY <1>1, <1>3 DEF Binary
  <2> QED
    BY <2>1, <2>2 DEF IsExpression
<1> QED
  BY <1>2, <1>3

LEMMA BinaryInv ==
  ASSUME Inv, BinaryExpression
  PROVE  Inv'
<1> DEFINE node == Binary(tokens[1].value, Left, NoValue)
<1>1. Last(calls).at = "expression" /\ NodeOf("expression", node)
  BY DEF BinaryExpression, AfterOperand, In, NodeOf, Binary
<1>2. Read(1, With(node))
  BY DEF BinaryExpression
<1> HIDE DEF node
<1>3. IsStack(With(node))
  BY <1>1, WithNode
<1> QED
  BY <1>2, <1>3, Reads

LEMMA EndArgumentInv ==
  ASSUME Inv, EndArgument
  PROVE  Inv'
<1> DEFINE st == Front(calls)
           f == Last(st)
           h == [f EXCEPT !.node.arguments = Append(@, Left)]
           node == [f.node EXCEPT !.arguments = Append(@, Left)]
<1>1. Last(calls).at = "expression" /\ f.at = "arguments"
  BY DEF EndArgument, Returns, AfterOperand, In, Caller
<1>2. IsStack(st)
  BY <1>1, Below
<1>3. Item(0, Append(Front(st), h))
  BY DEF EndArgument, Caller, Outer
<1>4. IsFrame(f)
  BY <1>2, Top
<1>5. f = [at |-> f.at, node |-> f.node, symbols |-> f.symbols] /\ f.node = Call(f.node.name, f.node.arguments)
  BY <1>1, <1>4 DEF IsFrame, NodeOf
<1> HIDE DEF f
<1>6. h = [at |-> f.at, node |-> node, symbols |-> f.symbols]
  BY <1>5, FrameExcept
<1>7. node = Call(node.name, node.arguments)
  BY <1>5 DEF Call
<1> HIDE DEF h, node
<1>8. IsFrame(h) /\ h.at = "arguments"
  BY <1>1, <1>6, <1>7 DEF IsFrame, NodeOf
<1>9. IsStack(Append(Front(st), h))
  BY <1>1, <1>2, <1>8, ChangeNode DEF f
<1> QED
  BY <1>3, <1>9, Items

LEMMA EndReturnInv ==
  ASSUME Inv, EndReturn
  PROVE  Inv'
<1>1. IsStack(Outer) /\ Last(Outer).at = "block"
  BY BelowOuter DEF EndReturn, Returns, AfterOperand, In
<1>2. IsStatement(Return(Left)) /\ ~IsNamed(Return(Left)) /\ Return(Left).kind # "function"
  BY DEF Return, IsStatement, IsNamed
<1>3. IsStack(Joined(Outer, Return(Left)))
  BY <1>1, <1>2, JoinedStack
<1>4. Len(<<";">>) \in Nat
  OBVIOUS
<1> QED
  BY <1>3, <1>4, Expects DEF EndReturn

LEMMA EndStatementInv ==
  ASSUME Inv, EndStatement
  PROVE  Inv'
<1>1. IsStack(Outer) /\ Last(Outer).at = "block"
  BY BelowOuter DEF EndStatement, Returns, AfterOperand, In
<1>2. IsExpression(Left)
  BY LeftIsExpression DEF EndStatement, Returns
<1>3. IsStatement(Left) /\ ~IsNamed(Left) /\ Left.kind # "function"
  BY <1>2 DEF IsExpression, IsStatement, IsNamed
<1>4. IsStack(Joined(Outer, Left))
  BY <1>1, <1>3, JoinedStack
<1>5. Len(<<";">>) \in Nat
  OBVIOUS
<1> QED
  BY <1>4, <1>5, Expects DEF EndStatement

LEMMA EndVariableInv ==
  ASSUME Inv, EndVariable
  PROVE  Inv'
<1> DEFINE v == Caller.node
           s == [v EXCEPT !.value = Left]
<1>1. /\ IsStack(Outer) /\ Last(Outer).at = "block" /\ IsFrame(Caller)
      /\ \A k \in 1 .. Len(Outer) : k \in 1 .. Len(calls) /\ Outer[k] = calls[k]
  BY BelowOuter DEF EndVariable, Returns, AfterOperand, In
<1>2. IsVariable(v)
  BY <1>1 DEF EndVariable, Returns, IsFrame, NodeOf
<1>3. Declare(<<";">>, Outer, s)
  BY DEF EndVariable
<1> HIDE DEF v
<1>4. s = Variable(v.type, v.name, Left)
  BY <1>2 DEF IsVariable, Variable
<1> HIDE DEF s
<1>5. IsStatement(s) /\ IsNamed(s) /\ s.kind # "function"
  BY <1>2, <1>4 DEF IsVariable, Variable, IsStatement, IsNamed
<1>6. ASSUME ~Declared(s.name)
      PROVE  IsStack(Entered(Joined(Outer, s), s.name))
  <2>1. \A k \in 1 .. Len(Outer) : s.name \notin Outer[k].symbols
    BY <1>1, <1>6, NotDeclared
  <2> QED
    BY <1>1, <1>5, <2>1, DeclaredStack
<1>7. Len(<<";">>) \in Nat
  OBVIOUS
<1> QED
  BY <1>3, <1>6, <1>7, Declares

LEMMA InvNext == Inv /\ [Next]_vars => Inv'
<1> SUFFICES ASSUME Inv, [Next]_vars
             PROVE  Inv'
  OBVIOUS
<1>1. CASE parse_next_statement
  BY <1>1, ReturnInv, VariableInv, ExpressionStatementInv, FunctionInv, ParameterInv, EndParametersInv,
     AttributeInv, EndSignatureInv, CloseBlockInv, TypeInv, MemberInv, EndMembersInv, ProgramInv
     DEF parse_next_statement
<1>2. CASE parse_binary_expression
  BY <1>2, OperandInv, CallInv, DotInv, BinaryInv, EndArgumentInv, EndReturnInv, EndVariableInv,
     EndStatementInv DEF parse_binary_expression
<1>3. CASE UNCHANGED vars
  BY <1>3 DEF vars, Inv
<1> QED
  BY <1>1, <1>2, <1>3 DEF Next, Halt

\* The stack of parsing functions is one of functions that call each other, with
\* the blocks' symbols apart (parser.c:80-242).
THEOREM InvHolds == Spec => []Inv
<1>1. Init => Inv
  BY InvInit
<1>2. Inv /\ [Next]_vars => Inv'
  BY InvNext
<1> QED
  BY <1>1, <1>2, PTL DEF Spec

\* What the parser lets through is what the dependency graph is built on, the
\* assumption of DepGraph about its programs (parser.c:80-169, 244-260).
THEOREM ReadProgramsAccepted == Spec => []ReadProgramsAreAccepted
<1>1. Inv => ReadProgramsAreAccepted
  <2> SUFFICES ASSUME Inv
               PROVE  Accepted(program) /\ IsTree(program)
    BY DEF ReadProgramsAreAccepted
  <2>1. IsFrame(calls[1]) /\ calls[1].at = "block"
    BY Top DEF Inv, IsStack
  <2>2. IsBlock(calls[1].node.block)
    BY <2>1 DEF IsFrame, NodeOf
  <2> QED
    BY <2>2 DEF IsBlock, program
<1> QED
  BY <1>1, InvHolds, PTL

-----------------------------------------------------------------------------
(***************************************************************************)
(* Joining                                                                 *)
(***************************************************************************)
LEMMA ListJoin ==
  ASSUME NEW a, NEW b, NEW c, IsList(a), IsList(b), IsList(c)
  PROVE  IsList(a \o b) /\ (a \o b) \o c = a \o (b \o c) /\ a \o <<>> = a /\ <<>> \o a = a
<1> DEFINE S == {a[k] : k \in DOMAIN a} \cup {b[k] : k \in DOMAIN b} \cup {c[k] : k \in DOMAIN c}
<1>1. a \in Seq(S) /\ b \in Seq(S) /\ c \in Seq(S)
  BY LargerSeq DEF IsList
<1> HIDE DEF S
<1>2. a \o b \in Seq(S)
  BY <1>1
<1>3. IsList(a \o b)
  BY <1>2, ListOf
<1>4. (a \o b) \o c = a \o (b \o c) /\ a \o <<>> = a /\ <<>> \o a = a
  BY <1>1
<1> QED
  BY <1>3, <1>4

LEMMA FunctionSeq ==
  ASSUME NEW Q, NEW m \in Nat, NEW f \in [1 .. m -> Q]
  PROVE  f \in Seq(Q) /\ Len(f) = m
<1>1. f \in Seq(Q) /\ DOMAIN f = 1 .. m
  BY SeqDef
<1> QED
  BY <1>1, LenProperties

\* A list of lists with one more at its end.
LEMMA FlattenLonger ==
  ASSUME NEW T, NEW m \in Nat, NEW fa \in [1 .. m -> Seq(T)], NEW fc \in [1 .. m + 1 -> Seq(T)],
         \A k \in 1 .. m : fc[k] = fa[k]
  PROVE  FlattenSeq(fa) \in Seq(T) /\ FlattenSeq(fc) = FlattenSeq(fa) \o fc[m + 1]
<1> DEFINE Q == Seq(T)
           x == fc[m + 1]
<1>0. fa \in [1 .. m -> Q] /\ fc \in [1 .. m + 1 -> Q] /\ m + 1 \in 1 .. m + 1
  OBVIOUS
<1> HIDE DEF Q
<1>1. x \in Q /\ \A k \in 1 .. m : fa[k] \in Q /\ fc[k] = fa[k]
  BY <1>0
<1>2. fc[m + 1] = x
  OBVIOUS
<1> HIDE DEF x
<1>3. fa \in [1 .. m -> Q]
  BY <1>0
<1>4. fa \in Seq(Q) /\ Len(fa) = m
  BY <1>3, FunctionSeq
<1> DEFINE g == Append(fa, x)
<1>5. g \in Seq(Q) /\ Len(g) = m + 1 /\ DOMAIN g = 1 .. m + 1 /\ g[m + 1] = x /\ \A k \in 1 .. m : g[k] = fa[k]
  BY <1>1, <1>4
<1> HIDE DEF g
<1>6. g = [k \in 1 .. m + 1 |-> g[k]]
  BY <1>5
<1>7. \A k \in 1 .. m + 1 : fc[k] = g[k]
  <2>1. \A k \in 1 .. m + 1 : k \in 1 .. m \/ k = m + 1
    OBVIOUS
  <2> QED
    BY <1>1, <1>2, <1>5, <2>1
<1>8. fc = g
  BY <1>0, <1>6, <1>7
<1>9. FlattenSeq(fa) \in Seq(T) /\ FlattenSeq(Append(fa, x)) = FlattenSeq(fa) \o x
  BY <1>1, <1>4, FlattenElements, FlattenAppend DEF Q
<1> QED
  BY <1>8, <1>9 DEF g, x

KeptOf(t) == IF t \in Forgotten THEN <<>> ELSE <<t>>

LEMMA KeptJoin ==
  ASSUME NEW T, NEW a \in Seq(T), NEW b \in Seq(T)
  PROVE  Kept(a) \in Seq(T) /\ Kept(a \o b) = Kept(a) \o Kept(b)
<1> DEFINE c == a \o b
           fa == [k \in DOMAIN a |-> KeptOf(a[k])]
           fb == [k \in DOMAIN b |-> KeptOf(b[k])]
           fc == [k \in DOMAIN c |-> KeptOf(c[k])]
           m == Len(a)
           n == Len(b)
           Q == Seq(T)
<1>1. /\ m \in Nat /\ n \in Nat /\ DOMAIN a = 1 .. m /\ DOMAIN b = 1 .. n /\ DOMAIN c = 1 .. m + n
      /\ \A k \in 1 .. m : c[k] = a[k] /\ a[k] \in T
      /\ \A k \in 1 .. n : c[m + k] = b[k] /\ b[k] \in T
      /\ \A k \in 1 .. m + n : c[k] \in T
  BY JoinedAt
<1> HIDE DEF c, m, n
<1>2. \A x \in T : KeptOf(x) \in Q
  <2>1. \A x \in T : <<x>> \in Seq(T)
    OBVIOUS
  <2> QED
    BY <2>1 DEF KeptOf
<1> HIDE DEF Q
<1>3. fa \in Seq(Q) /\ Len(fa) = m /\ \A k \in 1 .. m : fa[k] = KeptOf(a[k])
  BY <1>1, <1>2
<1>4. fb \in Seq(Q) /\ Len(fb) = n /\ \A k \in 1 .. n : fb[k] = KeptOf(b[k])
  BY <1>1, <1>2
<1>5. fc \in Seq(Q) /\ Len(fc) = m + n /\ \A k \in 1 .. m + n : fc[k] = KeptOf(c[k])
  BY <1>1, <1>2
<1>6. Kept(a) = FlattenSeq(fa) /\ Kept(b) = FlattenSeq(fb) /\ Kept(c) = FlattenSeq(fc)
  BY DEF Kept, KeptOf
<1> HIDE DEF fa, fb, fc
<1>7. \A k \in 1 .. m : fc[k] = fa[k]
  BY <1>1, <1>3, <1>5
<1>8. \A k \in 1 .. n : fc[m + k] = fb[k]
  <2>1. \A k \in 1 .. n : m + k \in 1 .. m + n
    BY <1>1
  <2> QED
    BY <1>1, <1>4, <1>5, <2>1
<1>9. fc = fa \o fb
  BY <1>3, <1>4, <1>5, <1>7, <1>8, JoinedSeq
<1>10. FlattenSeq(fa) \in Seq(T) /\ FlattenSeq(fa \o fb) = FlattenSeq(fa) \o FlattenSeq(fb)
  BY <1>3, <1>4, FlattenElements, FlattenJoin DEF Q
<1> QED
  BY <1>6, <1>9, <1>10 DEF c

LEMMA KeptOne ==
  ASSUME NEW t
  PROVE  Kept(<<t>>) = KeptOf(t)
<1>1. [k \in DOMAIN <<t>> |-> KeptOf(<<t>>[k])] = <<KeptOf(t)>>
  OBVIOUS
<1>2. KeptOf(t) \in Seq({t})
  <2>1. <<t>> \in Seq({t}) /\ <<>> \in Seq({t})
    OBVIOUS
  <2> QED
    BY <2>1 DEF KeptOf
<1>3. FlattenSeq(<<KeptOf(t)>>) = KeptOf(t)
  BY <1>2, FlattenOne
<1> QED
  BY <1>1, <1>3 DEF Kept, KeptOf

-----------------------------------------------------------------------------
(***************************************************************************)
(* What is written of the tokens read                                      *)
(***************************************************************************)
TextTokens == {text[k] : k \in DOMAIN text}

\* Word w stands for the tokens that were read before ts.
Owes(w, ts) ==
  /\ w \in Seq(TextTokens) /\ ts \in Seq(TextTokens)
  /\ Kept(w \o ts) = Kept(text)
  /\ Len(w) + Len(ts) <= Len(text)

LEMMA EatToken ==
  ASSUME NEW n \in Nat, tokens \in Seq(TextTokens), n < Len(tokens)
  PROVE  /\ tokens[n + 1] \in TextTokens /\ Eaten(n) = <<tokens[n + 1]>> \o Eaten(n + 1)
         /\ Eaten(n + 1) \in Seq(TextTokens) /\ Len(Eaten(n)) = Len(Eaten(n + 1)) + 1
         /\ Len(Eaten(n + 1)) \in Nat
<1> DEFINE T == TextTokens
           l == Len(tokens)
           e == SubSeq(tokens, (n + 1) + 1, l)
           d == SubSeq(tokens, n + 1, l)
           x == tokens[n + 1]
           c == <<x>> \o e
<1>1. tokens \in Seq(T) /\ l \in Nat /\ x \in T /\ n + 1 <= l
  OBVIOUS
<1> HIDE DEF T
<1>2. e \in Seq(T) /\ Len(e) = l - (n + 1) /\ \A k \in 1 .. l - (n + 1) : e[k] = tokens[(n + 1) + k]
  BY <1>1
<1>3. d \in Seq(T) /\ Len(d) = l - n /\ \A k \in 1 .. l - n : d[k] = tokens[n + k]
  BY <1>1
<1> HIDE DEF l, e, d
<1> DEFINE y == <<x>>
<1>4. y \in Seq(T) /\ Len(y) = 1 /\ y[1] = x
  BY <1>1
<1> HIDE DEF y
<1>5. \A k \in 1 .. Len(y) : d[k] = y[k]
  <2>1. 1 .. Len(y) = {1} /\ 1 \in 1 .. l - n
    BY <1>1, <1>4
  <2>2. d[1] = x
    BY <1>3, <2>1 DEF x
  <2> QED
    BY <1>4, <2>1, <2>2
<1>6. \A k \in 1 .. Len(e) : d[Len(y) + k] = e[k]
  <2> SUFFICES ASSUME NEW k \in 1 .. Len(e)
               PROVE  d[1 + k] = e[k]
    BY <1>4
  <2>1. k \in 1 .. l - (n + 1) /\ 1 + k \in 1 .. l - n /\ n + (1 + k) = (n + 1) + k
    BY <1>1, <1>2
  <2>2. d[1 + k] = tokens[n + (1 + k)] /\ e[k] = tokens[(n + 1) + k]
    BY <1>2, <1>3, <2>1
  <2> QED
    BY <2>1, <2>2
<1>7. d = y \o e
  <2>1. Len(d) = Len(y) + Len(e)
    BY <1>1, <1>2, <1>3, <1>4
  <2> QED
    BY <1>2, <1>3, <1>4, <1>5, <1>6, <2>1, JoinedSeq
<1>8. Len(d) = Len(e) + 1 /\ Len(e) \in Nat
  BY <1>1, <1>2, <1>3
<1>9. Eaten(n) = d /\ Eaten(n + 1) = e
  BY DEF Eaten, d, e, l
<1> QED
  BY <1>1, <1>2, <1>7, <1>8, <1>9 DEF y, x, T

\* The next token is written ...
LEMMA EatWritten ==
  ASSUME NEW n \in Nat, tokens \in Seq(TextTokens), n < Len(tokens), NEW w, Owes(w, Eaten(n))
  PROVE  Owes(w \o <<tokens[n + 1]>>, Eaten(n + 1)) /\ w \in Seq(TextTokens) /\ tokens[n + 1] \in TextTokens
<1> DEFINE T == TextTokens
           d == Eaten(n)
           e == Eaten(n + 1)
           x == tokens[n + 1]
<1>1. x \in T /\ d = <<x>> \o e /\ e \in Seq(T) /\ Len(d) = Len(e) + 1 /\ Len(e) \in Nat
  BY EatToken
<1>2. w \in Seq(T) /\ d \in Seq(T) /\ Kept(w \o d) = Kept(text) /\ Len(w) + Len(d) <= Len(text)
  BY DEF Owes
<1> HIDE DEF T, d, e, x
<1> DEFINE y == <<x>>
           z == w \o y
<1>3. y \in Seq(T) /\ z \in Seq(T) /\ Len(z) = Len(w) + 1 /\ Len(w) \in Nat
  BY <1>1, <1>2
<1>4. z \o e = w \o (y \o e)
  BY <1>1, <1>2, <1>3
<1> HIDE DEF z
<1>5. Kept(z \o e) = Kept(text)
  BY <1>1, <1>2, <1>4
<1>6. Len(z) + Len(e) = Len(w) + Len(d)
  BY <1>1, <1>3
<1> QED
  BY <1>1, <1>2, <1>3, <1>5, <1>6 DEF Owes, z, e, x, T

\* ... or forgotten.
LEMMA EatForgotten ==
  ASSUME NEW n \in Nat, tokens \in Seq(TextTokens), n < Len(tokens), NEW w, Owes(w, Eaten(n)),
         tokens[n + 1] \in Forgotten
  PROVE  Owes(w, Eaten(n + 1))
<1> DEFINE T == TextTokens
           d == Eaten(n)
           e == Eaten(n + 1)
           x == tokens[n + 1]
<1>1. x \in T /\ d = <<x>> \o e /\ e \in Seq(T) /\ Len(d) = Len(e) + 1 /\ Len(e) \in Nat
  BY EatToken
<1>2. w \in Seq(T) /\ d \in Seq(T) /\ Kept(w \o d) = Kept(text) /\ Len(w) + Len(d) <= Len(text)
  BY DEF Owes
<1>3. Len(text) \in Nat \/ ~(Len(text) \in Nat)
  OBVIOUS
<1>4. Kept(<<x>>) = <<>>
  BY KeptOne DEF KeptOf
<1> HIDE DEF T, d, e, x
<1> DEFINE y == <<x>>
<1>5. y \in Seq(T)
  BY <1>1
<1> HIDE DEF y
<1>6. Kept(d) = Kept(y) \o Kept(e) /\ Kept(y) = <<>> /\ Kept(e) \in Seq(T)
  BY <1>1, <1>4, <1>5, KeptJoin DEF y
<1>7. Kept(d) = Kept(e)
  BY <1>6
<1>8. Kept(w \o e) = Kept(w \o d)
  <2>1. Kept(w \o e) = Kept(w) \o Kept(e)
    BY <1>1, <1>2, KeptJoin
  <2>2. Kept(w \o d) = Kept(w) \o Kept(d)
    BY <1>2, KeptJoin
  <2> QED
    BY <1>7, <2>1, <2>2
<1>9. Len(w) \in Nat
  BY <1>2
<1> QED
  BY <1>1, <1>2, <1>8, <1>9 DEF Owes, e, T

-----------------------------------------------------------------------------
(***************************************************************************)
(* What the nodes on the stack are written with so far                     *)
(***************************************************************************)
LEMMA BlockPiecesAppend ==
  ASSUME NEW block, IsList(block), NEW s
  PROVE  IsList(BlockPieces(block)) /\ BlockPieces(Append(block, s)) = BlockPieces(block) \o StatementPieces(s)
<1> DEFINE n == Len(block)
           b == Append(block, s)
           T == {block[k] : k \in DOMAIN block} \cup {s, Token(";")}
           fa == [k \in DOMAIN block |-> StatementPieces(block[k])]
           fc == [k \in DOMAIN b |-> StatementPieces(b[k])]
<1>1. /\ n \in Nat /\ DOMAIN block = 1 .. n /\ DOMAIN b = 1 .. n + 1
      /\ b[n + 1] = s /\ \A k \in 1 .. n : b[k] = block[k]
  BY ListAppend, ListLen
<1>2. s \in T /\ \A k \in 1 .. n : block[k] \in T
  BY <1>1
<1>3. ASSUME NEW x \in T
      PROVE  StatementPieces(x) \in Seq(T)
  <2>1. Token(";") \in T
    OBVIOUS
  <2> HIDE DEF T
  <2> DEFINE y == Token(";")
  <2>2. y \in T
    BY <2>1
  <2> HIDE DEF y
  <2>3. <<>> \in Seq(T) /\ <<x>> \in Seq(T) /\ <<x, y>> \in Seq(T)
    BY <2>2
  <2> QED
    BY <2>3 DEF StatementPieces, y
<1> HIDE DEF n, b, T
<1>4. fa \in [1 .. n -> Seq(T)] /\ fc \in [1 .. n + 1 -> Seq(T)]
  <2> DEFINE Q == Seq(T)
  <2>1. \A x \in T : StatementPieces(x) \in Q
    BY <1>3
  <2> HIDE DEF Q
  <2>2. \A k \in 1 .. n + 1 : b[k] \in T
    <3>1. \A k \in 1 .. n + 1 : k \in 1 .. n \/ k = n + 1
      BY <1>1
    <3> QED
      BY <1>1, <1>2, <3>1
  <2>3. fa \in [1 .. n -> Q] /\ fc \in [1 .. n + 1 -> Q]
    BY <1>1, <1>2, <2>1, <2>2
  <2> QED
    BY <2>3 DEF Q
<1>5. \A k \in 1 .. n : k \in 1 .. n + 1
  BY <1>1
<1>6. n + 1 \in 1 .. n + 1
  BY <1>1
<1>7. fc[n + 1] = StatementPieces(s) /\ \A k \in 1 .. n : fa[k] = StatementPieces(block[k]) /\ fc[k] = fa[k]
  BY <1>1, <1>5, <1>6
<1>8. BlockPieces(block) = FlattenSeq(fa) /\ BlockPieces(b) = FlattenSeq(fc)
  BY DEF BlockPieces
<1> HIDE DEF fa, fc
<1>11. FlattenSeq(fa) \in Seq(T) /\ FlattenSeq(fc) = FlattenSeq(fa) \o fc[n + 1]
  BY <1>1, <1>4, <1>7, FlattenLonger
<1>12. IsList(FlattenSeq(fa))
  BY <1>11, ListOf
<1> QED
  BY <1>7, <1>8, <1>11, <1>12 DEF b

\* The pieces of one parameter, and of one member.
ParameterAt(type, name) ==
  IF type = Vararg THEN <<Token("."), Token("."), Token(".")>>
  ELSE <<Id(type)>> \o (IF name = "" THEN <<>> ELSE <<Id(name)>>)
MemberAt(type, name) == <<Id(type), Id(name)>>

LEMMA ParameterPiecesAppend ==
  ASSUME NEW f, IsList(f.parameters), IsList(f.names), Len(f.names) = Len(f.parameters), NEW type, NEW name,
         NEW g, g.parameters = Append(f.parameters, type), g.names = Append(f.names, name)
  PROVE  /\ IsList(ParameterPieces(f))
         /\ ParameterPieces(g) = ParameterPieces(f) \o ParameterAt(type, name)
<1> DEFINE n == Len(f.parameters)
           T == {Token(".")} \cup {Id(f.parameters[k]) : k \in 1 .. n} \cup {Id(f.names[k]) : k \in 1 .. n}
                \cup {Id(type), Id(name)}
           fa == [k \in DOMAIN f.parameters |-> ParameterAt(f.parameters[k], f.names[k])]
           fc == [k \in DOMAIN g.parameters |-> ParameterAt(g.parameters[k], g.names[k])]
<1>1. /\ n \in Nat /\ DOMAIN f.parameters = 1 .. n /\ DOMAIN g.parameters = 1 .. n + 1
      /\ g.parameters[n + 1] = type /\ \A k \in 1 .. n : g.parameters[k] = f.parameters[k]
  BY ListAppend, ListLen
<1>2. g.names[n + 1] = name /\ \A k \in 1 .. n : g.names[k] = f.names[k]
  BY ListAppend, ListLen
<1>3. Token(".") \in T /\ Id(type) \in T /\ Id(name) \in T
      /\ \A k \in 1 .. n : Id(f.parameters[k]) \in T /\ Id(f.names[k]) \in T
  OBVIOUS
<1> HIDE DEF n, T
<1>4. ASSUME NEW x, NEW y, Id(x) \in T, Id(y) \in T
      PROVE  ParameterAt(x, y) \in Seq(T)
  <2>1. <<Token("."), Token("."), Token(".")>> \in Seq(T)
    BY <1>3
  <2>2. <<Id(x)>> \o <<>> \in Seq(T) /\ <<Id(x)>> \o <<Id(y)>> \in Seq(T)
    BY <1>4
  <2> QED
    BY <2>1, <2>2 DEF ParameterAt
<1>5. fa \in [1 .. n -> Seq(T)] /\ fc \in [1 .. n + 1 -> Seq(T)]
  <2> DEFINE Q == Seq(T)
  <2>1. \A x, y : Id(x) \in T /\ Id(y) \in T => ParameterAt(x, y) \in Q
    BY <1>4
  <2> HIDE DEF Q
  <2>2. \A k \in 1 .. n : ParameterAt(f.parameters[k], f.names[k]) \in Q
    BY <1>3, <2>1
  <2>3. \A k \in 1 .. n + 1 : ParameterAt(g.parameters[k], g.names[k]) \in Q
    <3>1. \A k \in 1 .. n + 1 : k \in 1 .. n \/ k = n + 1
      BY <1>1
    <3> QED
      BY <1>1, <1>2, <1>3, <2>1, <2>2, <3>1
  <2>4. fa \in [1 .. n -> Q] /\ fc \in [1 .. n + 1 -> Q]
    BY <1>1, <2>2, <2>3
  <2> QED
    BY <2>4 DEF Q
<1>6. n + 1 \in 1 .. n + 1 /\ \A k \in 1 .. n : k \in 1 .. n + 1
  BY <1>1
<1>7. /\ fc[n + 1] = ParameterAt(type, name)
      /\ \A k \in 1 .. n : fa[k] = ParameterAt(f.parameters[k], f.names[k]) /\ fc[k] = fa[k]
  BY <1>1, <1>2, <1>6
<1>8. ParameterPieces(f) = FlattenSeq(fa) /\ ParameterPieces(g) = FlattenSeq(fc)
  BY DEF ParameterPieces, ParameterAt
<1> HIDE DEF fa, fc
<1>11. FlattenSeq(fa) \in Seq(T) /\ FlattenSeq(fc) = FlattenSeq(fa) \o fc[n + 1]
  BY <1>1, <1>5, <1>7, FlattenLonger
<1>12. IsList(FlattenSeq(fa))
  BY <1>11, ListOf
<1> QED
  BY <1>7, <1>8, <1>11, <1>12

LEMMA MemberPiecesAppend ==
  ASSUME NEW f, IsList(f.members), IsList(f.names), Len(f.names) = Len(f.members), NEW type, NEW name,
         NEW g, g.members = Append(f.members, type), g.names = Append(f.names, name)
  PROVE  /\ IsList(MemberPieces(f))
         /\ MemberPieces(g) = MemberPieces(f) \o MemberAt(type, name)
<1> DEFINE n == Len(f.members)
           T == {Id(f.members[k]) : k \in 1 .. n} \cup {Id(f.names[k]) : k \in 1 .. n}
                \cup {Id(type), Id(name)}
           fa == [k \in DOMAIN f.members |-> MemberAt(f.members[k], f.names[k])]
           fc == [k \in DOMAIN g.members |-> MemberAt(g.members[k], g.names[k])]
<1>1. /\ n \in Nat /\ DOMAIN f.members = 1 .. n /\ DOMAIN g.members = 1 .. n + 1
      /\ g.members[n + 1] = type /\ \A k \in 1 .. n : g.members[k] = f.members[k]
  BY ListAppend, ListLen
<1>2. g.names[n + 1] = name /\ \A k \in 1 .. n : g.names[k] = f.names[k]
  BY ListAppend, ListLen
<1>3. Id(type) \in T /\ Id(name) \in T /\ \A k \in 1 .. n : Id(f.members[k]) \in T /\ Id(f.names[k]) \in T
  OBVIOUS
<1> HIDE DEF n, T
<1>4. ASSUME NEW x, NEW y, Id(x) \in T, Id(y) \in T
      PROVE  MemberAt(x, y) \in Seq(T)
  BY <1>4 DEF MemberAt
<1>5. fa \in [1 .. n -> Seq(T)] /\ fc \in [1 .. n + 1 -> Seq(T)]
  <2> DEFINE Q == Seq(T)
  <2>1. \A x, y : Id(x) \in T /\ Id(y) \in T => MemberAt(x, y) \in Q
    BY <1>4
  <2> HIDE DEF Q
  <2>2. \A k \in 1 .. n : MemberAt(f.members[k], f.names[k]) \in Q
    BY <1>3, <2>1
  <2>3. \A k \in 1 .. n + 1 : MemberAt(g.members[k], g.names[k]) \in Q
    <3>1. \A k \in 1 .. n + 1 : k \in 1 .. n \/ k = n + 1
      BY <1>1
    <3> QED
      BY <1>1, <1>2, <1>3, <2>1, <2>2, <3>1
  <2>4. fa \in [1 .. n -> Q] /\ fc \in [1 .. n + 1 -> Q]
    BY <1>1, <2>2, <2>3
  <2> QED
    BY <2>4 DEF Q
<1>6. n + 1 \in 1 .. n + 1 /\ \A k \in 1 .. n : k \in 1 .. n + 1
  BY <1>1
<1>7. /\ fc[n + 1] = MemberAt(type, name)
      /\ \A k \in 1 .. n : fa[k] = MemberAt(f.members[k], f.names[k]) /\ fc[k] = fa[k]
  BY <1>1, <1>2, <1>6
<1>8. MemberPieces(f) = FlattenSeq(fa) /\ MemberPieces(g) = FlattenSeq(fc)
  BY DEF MemberPieces, MemberAt
<1> HIDE DEF fa, fc
<1>11. FlattenSeq(fa) \in Seq(T) /\ FlattenSeq(fc) = FlattenSeq(fa) \o fc[n + 1]
  BY <1>1, <1>5, <1>7, FlattenLonger
<1>12. IsList(FlattenSeq(fa))
  BY <1>11, ListOf
<1> QED
  BY <1>7, <1>8, <1>11, <1>12

\* What the node of a call is written with up to here.
ParametersSoFar(f) == <<Token("fn"), Id(f.name), Token("(")>> \o ParameterPieces(f)
MembersSoFar(s)    == <<Token("type"), Id(s.name), Token("(")>> \o MemberPieces(s)
BodySoFar(f)       == (SignaturePieces(f) \o <<Token("{")>>) \o BlockPieces(f.block)

SoFar(f) ==
  CASE f.at = "block" /\ f.node.kind = "function" -> BodySoFar(f.node)
    [] f.at = "block" /\ f.node.kind # "function" -> BlockPieces(f.node.block)
    [] f.at = "parameters" -> ParametersSoFar(f.node)
    [] f.at = "attributes" -> SignaturePieces(f.node)
    [] f.at = "members"    -> MembersSoFar(f.node)
    [] f.at = "variable"   -> <<Id(f.node.type), Id(f.node.name), Operator("=")>>
    [] f.at = "return"     -> <<Token("return")>>
    [] f.at = "statement"  -> <<>>
    [] f.at = "arguments"  -> <<Id(f.node.name), Token("(")>> \o f.node.arguments
    [] f.at = "expression" /\ f.node = NoValue -> <<>>
    [] f.at = "expression" /\ f.node # NoValue -> <<f.node.left, Operator(f.node.operator)>>

\* Every parameter and member has its name, and a function with a block is not extern.
NamesFit(f) ==
  /\ f.at \in {"parameters", "attributes"} \/ (f.at = "block" /\ f.node.kind = "function") =>
       IsList(f.node.names) /\ Len(f.node.names) = Len(f.node.parameters)
  /\ f.at = "members" => IsList(f.node.names) /\ Len(f.node.names) = Len(f.node.members)
  /\ f.at = "block" /\ f.node.kind = "function" => ~f.node.is_extern
  /\ f.at = "arguments" => IsList(f.node.arguments)

Fits(T, f, w) == Spells(T, SoFar(f), w) /\ NamesFit(f)

\* The outermost block is the program.
Rooted(st) == st # <<>> => st[1].node.kind = "program"

\* All the calls on the stack, one after the other, are written as w.
Stands(T, st, w) ==
  /\ Rooted(st)
  /\ \E ws \in Seq(Seq(T)) : /\ Len(ws) = Len(st) /\ w = FlattenSeq(ws)
                            /\ \A k \in 1 .. Len(st) : Fits(T, st[k], ws[k])

LEMMA StandsPush ==
  ASSUME NEW T, NEW st, IsList(st), NEW w, Stands(T, st, w), NEW f, NEW x, Fits(T, f, x),
         st = <<>> => f.node.kind = "program"
  PROVE  Stands(T, Append(st, f), w \o x)
<1> DEFINE n == Len(st)
           t == Append(st, f)
           Q == Seq(T)
<1>1. PICK ws \in Seq(Q) : Len(ws) = n /\ w = FlattenSeq(ws) /\ \A k \in 1 .. n : Fits(T, st[k], ws[k])
  BY DEF Stands
<1>2. x \in Q
  BY DEF Fits, Spells
<1>3. n \in Nat /\ Len(t) = n + 1 /\ t[n + 1] = f /\ \A k \in 1 .. n : t[k] = st[k]
  BY ListAppend, ListLen
<1> HIDE DEF Q
<1> DEFINE us == Append(ws, x)
<1>4. us \in Seq(Q) /\ Len(us) = n + 1 /\ us[n + 1] = x /\ \A k \in 1 .. n : us[k] = ws[k]
  BY <1>1, <1>2
<1>5. FlattenSeq(us) = w \o x
  BY <1>1, <1>2, FlattenAppend DEF Q
<1> HIDE DEF n, t, us
<1>6. \A k \in 1 .. n + 1 : k \in 1 .. n \/ k = n + 1
  BY <1>3
<1>7. \A k \in 1 .. n + 1 : Fits(T, t[k], us[k])
  BY <1>1, <1>3, <1>4, <1>6
<1>8. \E vs \in Seq(Q) : Len(vs) = Len(t) /\ w \o x = FlattenSeq(vs) /\ \A k \in 1 .. Len(t) : Fits(T, t[k], vs[k])
  BY <1>3, <1>4, <1>5, <1>7
<1>9. Rooted(t)
  <2>1. CASE n = 0
    <3>1. st = <<>>
      BY <2>1 DEF n, IsList
    <3> QED
      BY <1>3, <2>1, <3>1 DEF Rooted
  <2>2. CASE n # 0
    <3>1. st # <<>> /\ 1 \in 1 .. n
      BY <1>3, <2>2 DEF n
    <3> QED
      BY <1>3, <3>1 DEF Rooted, Stands
  <2> QED
    BY <2>1, <2>2
<1> QED
  BY <1>8, <1>9 DEF Stands, Q, t

\* The innermost call is written as x, those below it as u.
Parts(T, st, w, u, x) ==
  u \in Seq(T) /\ x \in Seq(T) /\ Stands(T, Front(st), u) /\ Fits(T, Last(st), x) /\ w = u \o x

LEMMA StandsPop ==
  ASSUME NEW T, NEW st, IsList(st), st # <<>>, NEW w, Stands(T, st, w)
  PROVE  \E u, x : Parts(T, st, w, u, x)
<1> DEFINE n == Len(st) - 1
           t == Front(st)
           Q == Seq(T)
<1>1. PICK ws \in Seq(Q) : Len(ws) = Len(st) /\ w = FlattenSeq(ws) /\ \A k \in 1 .. Len(st) : Fits(T, st[k], ws[k])
  BY DEF Stands
<1>2. /\ n \in Nat /\ Len(st) = n + 1 /\ Len(t) = n /\ Last(st) = st[n + 1]
      /\ \A k \in 1 .. n : t[k] = st[k]
  BY ListFront
<1> HIDE DEF n, t, Q
<1> DEFINE vs == SubSeq(ws, 1, n)
           x  == ws[n + 1]
<1>3. vs \in Seq(Q) /\ Len(vs) = n /\ x \in Q /\ ws = Append(vs, x) /\ \A k \in 1 .. n : vs[k] = ws[k]
  BY <1>1, <1>2
<1> HIDE DEF vs
<1>4. FlattenSeq(ws) = FlattenSeq(vs) \o x /\ FlattenSeq(vs) \in Seq(T)
  BY <1>3, FlattenAppend, FlattenElements DEF Q
<1>5. \A k \in 1 .. n : k \in 1 .. n + 1
  BY <1>2
<1>6. n + 1 \in 1 .. n + 1
  BY <1>2
<1>7. \A k \in 1 .. n : Fits(T, t[k], vs[k])
  BY <1>1, <1>2, <1>3, <1>5
<1>8. Fits(T, Last(st), x)
  BY <1>1, <1>2, <1>6
<1>9. Stands(T, t, FlattenSeq(vs))
  <2>1. Rooted(t)
    <3> SUFFICES ASSUME t # <<>>
                 PROVE  t[1].node.kind = "program"
      BY DEF Rooted
    <3>1. 1 \in 1 .. n
      <4>1. IsList(t)
        BY ListFront DEF t
      <4>2. n # 0
        BY <1>2, <4>1 DEF IsList
      <4> QED
        BY <1>2, <4>2
    <3> QED
      BY <1>2, <3>1 DEF Rooted, Stands
  <2> QED
    BY <1>2, <1>3, <1>7, <2>1 DEF Stands, Q
<1>10. Parts(T, st, w, FlattenSeq(vs), x)
  BY <1>1, <1>3, <1>4, <1>8, <1>9 DEF t, Q, Parts
<1> QED
  BY <1>10

LEMMA StandsWord ==
  ASSUME NEW T, NEW st, NEW w, Stands(T, st, w)
  PROVE  w \in Seq(T)
BY FlattenElements DEF Stands

\* The node of the innermost call is written further.
LEMMA StandsLonger ==
  ASSUME NEW T, NEW st, IsList(st), st # <<>>, NEW w, Stands(T, st, w), NEW f, NEW a, NEW y,
         Spells(T, a, y), NamesFit(Last(st)) => SoFar(f) = SoFar(Last(st)) \o a /\ NamesFit(f),
         Len(st) = 1 => f.node.kind = Last(st).node.kind
  PROVE  Stands(T, Append(Front(st), f), w \o y)
<1>0. PICK u, x : Parts(T, st, w, u, x)
  BY StandsPop
<1>1. u \in Seq(T) /\ x \in Seq(T) /\ Stands(T, Front(st), u) /\ Fits(T, Last(st), x) /\ w = u \o x
  BY <1>0 DEF Parts
<1>2. Spells(T, SoFar(Last(st)) \o a, x \o y)
  BY <1>1, SpellsJoin DEF Fits
<1>3. Fits(T, f, x \o y)
  BY <1>1, <1>2 DEF Fits
<1>4. Stands(T, Append(Front(st), f), u \o (x \o y))
  <2>1. IsList(Front(st)) /\ Len(Front(st)) = Len(st) - 1 /\ Len(st) \in Nat /\ Last(st) = st[Len(st)]
    BY ListFront, ListLen
  <2>2. Front(st) = <<>> => f.node.kind = "program"
    <3>1. ASSUME Front(st) = <<>>
          PROVE  Len(st) = 1
      <4>1. Len(Front(st)) = 0
        BY <3>1
      <4> QED
        BY <2>1, <4>1
    <3> QED
      BY <2>1, <3>1 DEF Stands, Rooted
  <2> QED
    BY <1>1, <1>3, <2>1, <2>2, StandsPush
<1>5. u \o (x \o y) = w \o y
  <2>1. y \in Seq(T)
    BY DEF Spells
  <2> QED
    BY <1>1, <2>1
<1> QED
  BY <1>4, <1>5

LEMMA SpellsNothing ==
  ASSUME NEW T
  PROVE  Spells(T, <<>>, <<>>)
<1>1. Closed({}) /\ <<>> \in Seq({}) /\ <<>> \in Seq(T) /\ Len(<<>>) = 0
  BY DEF Closed
<1> QED
  BY <1>1, EmptyWritten DEF Spells

LEMMA SpellsList ==
  ASSUME NEW T, NEW a, NEW w, Spells(T, a, w)
  PROVE  IsList(a) /\ w \in Seq(T)
BY ListOf DEF Spells

LEMMA ThreeBefore ==
  ASSUME NEW a, NEW b, NEW c, NEW l, IsList(l)
  PROVE  IsList(<<a, b, c>> \o l) /\ Len(<<a, b, c>> \o l) > 0
<1> DEFINE S == {l[k] : k \in DOMAIN l} \cup {a, b, c}
           m == <<a, b, c>> \o l
<1>1. l \in Seq(S) /\ a \in S /\ b \in S /\ c \in S
  BY LargerSeq DEF IsList
<1> HIDE DEF S
<1>2. <<a, b, c>> \in Seq(S) /\ Len(<<a, b, c>>) = 3
  BY <1>1
<1>3. m \in Seq(S) /\ Len(m) > 0
  BY <1>1, <1>2
<1> QED
  BY <1>3, ListOf DEF m

LEMMA BothLists ==
  ASSUME NEW a, NEW b, IsList(a), IsList(b)
  PROVE  IsList(a \o b) /\ Len(a \o b) = Len(a) + Len(b) /\ Len(a) \in Nat /\ Len(b) \in Nat
<1> DEFINE S == {a[k] : k \in DOMAIN a} \cup {b[k] : k \in DOMAIN b}
           m == a \o b
<1>1. a \in Seq(S) /\ b \in Seq(S)
  BY LargerSeq DEF IsList
<1> HIDE DEF S
<1>2. m \in Seq(S) /\ Len(m) = Len(a) + Len(b) /\ Len(a) \in Nat /\ Len(b) \in Nat
  BY <1>1
<1> QED
  BY <1>2, ListOf DEF m

LEMMA SmallLists ==
  ASSUME NEW a, NEW b, NEW c
  PROVE  /\ IsList(<<>>) /\ IsList(<<a>>) /\ IsList(<<a, b>>) /\ IsList(<<a, b, c>>)
         /\ Len(<<>>) = 0 /\ Len(<<a>>) = 1 /\ Len(<<a, b>>) = 2 /\ Len(<<a, b, c>>) = 3
<1>1. <<>> \in Seq({a, b, c}) /\ <<a>> \in Seq({a, b, c}) /\ <<a, b>> \in Seq({a, b, c}) /\ <<a, b, c>> \in Seq({a, b, c})
  OBVIOUS
<1> QED
  BY <1>1, ListOf

\* The signature of a function, from its parameters on.
LEMMA Signature ==
  ASSUME NEW f, IsList(f.parameters), IsList(f.names), Len(f.names) = Len(f.parameters)
  PROVE  /\ IsList(ParametersSoFar(f)) /\ IsList(SignaturePieces(f)) /\ Len(SignaturePieces(f)) > 0
         /\ SignaturePieces(f)
              = ParametersSoFar(f) \o (<<Token(")")>> \o (IF f.return_type = "void" THEN <<>> ELSE <<Id(f.return_type)>>))
<1> DEFINE pieces == ParameterPieces(f)
           a == ParametersSoFar(f)
           b == <<Token(")")>>
           c == IF f.return_type = "void" THEN <<>> ELSE <<Id(f.return_type)>>
<1>1. IsList(pieces)
  <2> DEFINE g == [parameters |-> Append(f.parameters, ""), names |-> Append(f.names, "")]
  <2>1. g.parameters = Append(f.parameters, "") /\ g.names = Append(f.names, "")
    OBVIOUS
  <2> HIDE DEF g
  <2> QED
    BY <2>1, ParameterPiecesAppend
<1>2. IsList(a) /\ Len(a) > 0
  BY <1>1, ThreeBefore DEF ParametersSoFar
<1>3. IsList(b) /\ IsList(c)
  BY SmallLists
<1>4. SignaturePieces(f) = (a \o b) \o c
  BY DEF SignaturePieces, ParametersSoFar
<1> HIDE DEF a, b, c
<1>5. (a \o b) \o c = a \o (b \o c) /\ IsList(b \o c)
  BY <1>2, <1>3, ListJoin
<1>6. IsList(a \o (b \o c)) /\ Len(a \o (b \o c)) = Len(a) + Len(b \o c) /\ Len(b \o c) \in Nat /\ Len(a) \in Nat
  BY <1>2, <1>5, BothLists
<1> DEFINE d == a \o (b \o c)
<1>7. SignaturePieces(f) = d
  BY <1>4, <1>5
<1>8. Len(d) > 0 /\ IsList(d)
  BY <1>2, <1>6
<1> HIDE DEF d
<1>9. IsList(SignaturePieces(f)) /\ Len(SignaturePieces(f)) > 0
  BY <1>7, <1>8
<1> QED
  BY <1>2, <1>7, <1>9 DEF d, a, b, c

\* A statement joins the innermost block.
LEMMA StandsJoined ==
  ASSUME NEW T, NEW st, IsStack(st), Last(st).at = "block", NEW w, Stands(T, st, w),
         NEW s, NEW x, Spells(T, StatementPieces(s), x)
  PROVE  Stands(T, Joined(st, s), w \o x)
<1> DEFINE f == Last(st)
           node == [f.node EXCEPT !.block = Append(@, s)]
           g == [f EXCEPT !.node.block = Append(@, s)]
           old == f.node.block
           block == Append(old, s)
           a == StatementPieces(s)
<1>1. f = [at |-> f.at, node |-> f.node, symbols |-> f.symbols] /\ f.at = "block" /\ IsList(old)
      /\ (IsFunction(f.node) \/ f.node = [kind |-> "program", block |-> f.node.block])
  BY Top DEF IsFrame, NodeOf, IsBlock
<1>2. IsList(a)
  BY SpellsList
<1>3. IsList(BlockPieces(old)) /\ BlockPieces(block) = BlockPieces(old) \o a
  BY <1>1, BlockPiecesAppend
<1> HIDE DEF f, a
<1>4. g.at = "block" /\ g.node = node
  <2>1. g = [f EXCEPT !.node = node]
    BY <1>1
  <2> HIDE DEF g, node
  <2>2. g = [at |-> f.at, node |-> node, symbols |-> f.symbols]
    BY <1>1, <2>1, FrameExcept
  <2> QED
    BY <1>1, <2>2
<1> HIDE DEF g
<1>5. NamesFit(f) => SoFar(g) = SoFar(f) \o a /\ NamesFit(g)
  <2>1. CASE IsFunction(f.node)
    <3>1. /\ node.kind = "function" /\ node.name = f.node.name /\ node.parameters = f.node.parameters
          /\ node.names = f.node.names /\ node.return_type = f.node.return_type
          /\ node.is_extern = f.node.is_extern /\ node.block = block
          /\ f.node.kind = "function" /\ IsList(f.node.parameters)
      BY <2>1 DEF IsFunction
    <3> HIDE DEF node, block, old
    <3>2. SignaturePieces(node) = SignaturePieces(f.node)
      BY <3>1 DEF SignaturePieces, ParameterPieces
    <3> SUFFICES ASSUME NamesFit(f)
                 PROVE  SoFar(g) = SoFar(f) \o a /\ NamesFit(g)
      OBVIOUS
    <3>3. IsList(f.node.names) /\ Len(f.node.names) = Len(f.node.parameters) /\ ~f.node.is_extern
      BY <1>1, <3>1 DEF NamesFit
    <3>4. NamesFit(g)
      BY <1>4, <3>1, <3>3 DEF NamesFit
    <3> DEFINE b == SignaturePieces(f.node)
               c == <<Token("{")>>
    <3>5. IsList(b) /\ IsList(c)
      BY <3>1, <3>3, Signature, SmallLists
    <3>6. SoFar(f) = (b \o c) \o BlockPieces(old) /\ SoFar(g) = (b \o c) \o BlockPieces(block)
      BY <1>1, <1>4, <3>1, <3>2 DEF SoFar, BodySoFar, old
    <3> HIDE DEF b, c
    <3>7. IsList(b \o c)
      BY <3>5, ListJoin
    <3> DEFINE d == b \o c
               e == BlockPieces(old)
    <3> HIDE DEF d
    <3>8. (d \o e) \o a = d \o (e \o a)
      <4>1. IsList(d)
        BY <3>7 DEF d
      <4> QED
        BY <1>2, <1>3, <4>1, ListJoin
    <3> QED
      BY <1>3, <3>4, <3>6, <3>8 DEF d
  <2>2. CASE f.node = [kind |-> "program", block |-> f.node.block]
    <3>1. node.kind = "program" /\ node.block = block /\ f.node.kind = "program"
      BY <2>2
    <3> HIDE DEF node, block, old
    <3>2. NamesFit(g)
      BY <1>4, <3>1 DEF NamesFit
    <3>3. SoFar(f) = BlockPieces(old) /\ SoFar(g) = BlockPieces(block)
      BY <1>1, <1>4, <3>1 DEF SoFar, old
    <3> QED
      BY <1>3, <3>2, <3>3
  <2> QED
    BY <1>1, <2>1, <2>2
<1>6. g.node.kind = f.node.kind
  <2>1. CASE IsFunction(f.node)
    BY <1>4, <2>1 DEF IsFunction
  <2>2. CASE f.node = [kind |-> "program", block |-> f.node.block]
    BY <1>4, <2>2
  <2> QED
    BY <1>1, <2>1, <2>2
<1>7. IsList(st) /\ st # <<>>
  BY DEF IsStack
<1> HIDE DEF node
<1>8. Stands(T, Append(Front(st), g), w \o x)
  BY <1>5, <1>6, <1>7, StandsLonger DEF a, f
<1> QED
  BY <1>8 DEF Joined, g, f

\* Only symbols are new.
LEMMA StandsEntered ==
  ASSUME NEW T, NEW st, IsList(st), st # <<>>, NEW w, Stands(T, st, w), NEW name,
         Last(st) = [at |-> Last(st).at, node |-> Last(st).node, symbols |-> Last(st).symbols]
  PROVE  Stands(T, Entered(st, name), w)
<1> DEFINE f == Last(st)
           g == [f EXCEPT !.symbols = @ \cup {name}]
<1>1. f = [at |-> f.at, node |-> f.node, symbols |-> f.symbols]
  OBVIOUS
<1>2. IsList(st) /\ st # <<>>
  OBVIOUS
<1>3. st = Append(Front(st), f)
  BY <1>2, ListFront
<1> HIDE DEF f
<1>4. g.at = f.at /\ g.node = f.node
  BY <1>1
<1> HIDE DEF g
<1>5. SoFar(g) = SoFar(f) /\ (NamesFit(g) <=> NamesFit(f))
  BY <1>4 DEF SoFar, NamesFit
<1>6. PICK u, x : Parts(T, st, w, u, x)
  BY <1>2, StandsPop
<1>7. u \in Seq(T) /\ x \in Seq(T) /\ Stands(T, Front(st), u) /\ Fits(T, f, x) /\ w = u \o x
  BY <1>6 DEF Parts, f
<1>8. Fits(T, g, x)
  BY <1>5, <1>7 DEF Fits
<1>9. IsList(Front(st)) /\ (Front(st) = <<>> => g.node.kind = "program")
  <2>1. IsList(Front(st)) /\ Len(Front(st)) = Len(st) - 1 /\ Len(st) \in Nat /\ Last(st) = st[Len(st)]
    BY <1>2, ListFront, ListLen
  <2>2. ASSUME Front(st) = <<>>
        PROVE  g.node.kind = "program"
    <3>1. Len(Front(st)) = 0
      BY <2>2
    <3>2. Len(st) = 1
      BY <2>1, <3>1
    <3> QED
      BY <1>2, <1>4, <2>1, <3>2 DEF Stands, Rooted, f
  <2> QED
    BY <2>1, <2>2
<1>10. Stands(T, Append(Front(st), g), w)
  BY <1>7, <1>8, <1>9, StandsPush
<1> QED
  BY <1>10 DEF Entered, g, f

LEMMA JoinedShape ==
  ASSUME NEW st, IsStack(st), NEW s
  PROVE  LET t == Joined(st, s)
         IN IsList(t) /\ t # <<>> /\ Last(t) = [at |-> Last(t).at, node |-> Last(t).node, symbols |-> Last(t).symbols]
<1> DEFINE f == Last(st)
           g == [f EXCEPT !.node.block = Append(@, s)]
           t == Append(Front(st), g)
<1>1. f = [at |-> f.at, node |-> f.node, symbols |-> f.symbols]
  BY Top DEF IsFrame
<1>2. IsList(st) /\ st # <<>>
  BY DEF IsStack
<1> HIDE DEF f
<1>3. g = [at |-> g.at, node |-> g.node, symbols |-> g.symbols]
  BY <1>1
<1> HIDE DEF g
<1>4. IsList(Front(st)) /\ Len(Front(st)) \in Nat
  BY <1>2, ListFront, ListLen
<1>5. IsList(t) /\ Len(t) = Len(Front(st)) + 1 /\ t[Len(Front(st)) + 1] = g
  BY <1>4, ListAppend
<1>6. Joined(st, s) = t
  BY DEF Joined, g, f
<1> HIDE DEF t
<1>7. t # <<>> /\ Last(t) = g
  BY <1>4, <1>5 DEF Last
<1> QED
  BY <1>3, <1>5, <1>6, <1>7

-----------------------------------------------------------------------------
(***************************************************************************)
(* Reading                                                                 *)
(***************************************************************************)
ValuePieces == IF value = NoValue THEN <<>> ELSE <<value>>

\* What is written of the calls and of the value, and what is left of the text.
Stand(w, v) ==
  /\ Stands(TextTokens, calls, w)
  /\ Spells(TextTokens, ValuePieces, v)
  /\ Owes(w \o v, tokens)

Reading ==
  /\ IsTokens(TextTokens) /\ Len(text) \in Nat
  /\ \E w, v : Stand(w, v)
  /\ value # NoValue => Last(calls).at = "expression"
  /\ outcome = "done" => Len(calls) = 1 /\ tokens = <<>>

\* These calls can go on after n tokens.
Stays(st, n, w)  == Stands(TextTokens, st, w) /\ Owes(w, Eaten(n))
Continues(st, n) == \E w : Stays(st, n, w)

LEMMA NoneEaten ==
  ASSUME NEW w, Owes(w, tokens)
  PROVE  Owes(w, Eaten(0)) /\ tokens \in Seq(TextTokens)
<1> DEFINE T == TextTokens
<1>1. tokens \in Seq(T)
  BY DEF Owes
<1> HIDE DEF T
<1>2. SubSeq(tokens, 0 + 1, Len(tokens)) = tokens
  BY <1>1
<1> QED
  BY <1>1, <1>2 DEF Eaten, T

LEMMA EatOne ==
  ASSUME NEW w, Owes(w, tokens), Len(tokens) > 0
  PROVE  /\ Owes(w \o <<tokens[1]>>, Eaten(1)) /\ <<tokens[1]>> \in Seq(TextTokens)
         /\ w \in Seq(TextTokens) /\ tokens[1] \in TextTokens
<1>1. Owes(w, Eaten(0)) /\ tokens \in Seq(TextTokens)
  BY NoneEaten
<1>2. /\ Owes(w \o <<tokens[0 + 1]>>, Eaten(0 + 1)) /\ w \in Seq(TextTokens)
      /\ tokens[0 + 1] \in TextTokens
  <2>1. 0 \in Nat /\ 0 < Len(tokens)
    OBVIOUS
  <2> QED
    BY <1>1, <2>1, EatWritten
<1>3. 0 + 1 = 1
  OBVIOUS
<1> HIDE DEF TextTokens
<1>4. tokens[1] \in TextTokens
  BY <1>2, <1>3
<1>5. <<tokens[1]>> \in Seq(TextTokens)
  BY <1>4
<1> QED
  BY <1>2, <1>3, <1>5

LEMMA TwoWords ==
  ASSUME NEW T, NEW w \in Seq(T), NEW a \in T, NEW b \in T
  PROVE  (w \o <<a>>) \o <<b>> = w \o <<a, b>> /\ <<a, b>> \in Seq(T)
<1>1. <<a, b>> \in Seq(T)
  OBVIOUS
<1>2. w \o <<a, b>> = Append(Append(w, a), b)
  OBVIOUS
<1>3. \A u \in Seq(T), x \in T : u \o <<x>> = Append(u, x)
  OBVIOUS
<1>4. Append(w, a) \in Seq(T)
  OBVIOUS
<1> QED
  BY <1>1, <1>2, <1>3, <1>4

LEMMA EatTwo ==
  ASSUME NEW w, Owes(w, tokens), Len(tokens) > 1
  PROVE  /\ Owes(w \o <<tokens[1], tokens[2]>>, Eaten(2)) /\ <<tokens[1], tokens[2]>> \in Seq(TextTokens)
         /\ w \in Seq(TextTokens) /\ tokens[1] \in TextTokens /\ tokens[2] \in TextTokens
<1>1. tokens \in Seq(TextTokens)
  BY NoneEaten
<1>2. Len(tokens) > 0
  BY <1>1
<1>3. Owes(w \o <<tokens[1]>>, Eaten(1)) /\ tokens[1] \in TextTokens /\ w \in Seq(TextTokens)
  BY <1>2, EatOne
<1>4. Owes((w \o <<tokens[1]>>) \o <<tokens[1 + 1]>>, Eaten(1 + 1)) /\ tokens[1 + 1] \in TextTokens
  BY <1>1, <1>3, EatWritten
<1>5. 1 + 1 = 2
  OBVIOUS
<1> DEFINE a == tokens[1]
           b == tokens[2]
<1>6. a \in TextTokens /\ b \in TextTokens
  BY <1>3, <1>4, <1>5
<1> HIDE DEF a, b
<1>7. (w \o <<a>>) \o <<b>> = w \o <<a, b>> /\ <<a, b>> \in Seq(TextTokens)
  BY <1>3, <1>6, TwoWords
<1> QED
  BY <1>3, <1>4, <1>5, <1>6, <1>7 DEF a, b

LEMMA EatThree ==
  ASSUME NEW w, Owes(w, tokens), Len(tokens) > 2
  PROVE  /\ Owes(w \o <<tokens[1], tokens[2], tokens[3]>>, Eaten(3))
         /\ <<tokens[1], tokens[2], tokens[3]>> \in Seq(TextTokens) /\ tokens[3] \in TextTokens
<1>1. tokens \in Seq(TextTokens)
  BY NoneEaten
<1>2. Len(tokens) > 1
  BY <1>1
<1>3. /\ Owes(w \o <<tokens[1], tokens[2]>>, Eaten(2)) /\ tokens[1] \in TextTokens /\ tokens[2] \in TextTokens
      /\ w \in Seq(TextTokens)
  BY <1>2, EatTwo
<1>4. Owes((w \o <<tokens[1], tokens[2]>>) \o <<tokens[2 + 1]>>, Eaten(2 + 1)) /\ tokens[2 + 1] \in TextTokens
  BY <1>1, <1>3, EatWritten
<1>5. 2 + 1 = 3
  OBVIOUS
<1> DEFINE a == tokens[1]
           b == tokens[2]
           c == tokens[3]
<1>6. a \in TextTokens /\ b \in TextTokens /\ c \in TextTokens
  BY <1>3, <1>4, <1>5
<1> HIDE DEF a, b, c
<1>7. (w \o <<a, b>>) \o <<c>> = w \o <<a, b, c>> /\ <<a, b, c>> \in Seq(TextTokens)
  BY <1>3, <1>6
<1> QED
  BY <1>3, <1>4, <1>5, <1>6, <1>7 DEF a, b, c

LEMMA Seen ==
  ASSUME Inv, NEW k \in Nat, NEW type, token_lookahead(k).type = type, type # "EOF_OR_INVALID"
  PROVE  /\ Len(tokens) > k /\ tokens[k + 1].type = type
         /\ type = "identifier" => tokens[k + 1] = Id(tokens[k + 1].value)
         /\ type = "operator" => tokens[k + 1] = Operator(tokens[k + 1].value)
         /\ type \notin {"identifier", "operator"} => tokens[k + 1] = Token(type)
<1>1. tokens[k + 1] = token_lookahead(k) /\ IsToken(tokens[k + 1])
  BY Looked
<1>2. Len(tokens) > k
  <2>1. Invalid.type = "EOF_OR_INVALID"
    BY DEF Invalid, Token
  <2>2. Len(tokens) \in Nat
    BY ListLen DEF Inv
  <2> QED
    BY <2>1, <2>2 DEF token_lookahead
<1> QED
  BY <1>1, <1>2 DEF IsToken, Id, Operator, Token

LEMMA FollowsThese ==
  ASSUME NEW a, NEW b, NEW c
  PROVE  /\ Follows(<<a>>) <=> token_lookahead(0).type = a
         /\ Follows(<<a, b>>) <=> token_lookahead(0).type = a /\ token_lookahead(1).type = b
         /\ Follows(<<a, b, c>>) <=> /\ token_lookahead(0).type = a /\ token_lookahead(1).type = b
                                     /\ token_lookahead(2).type = c
<1>1. DOMAIN <<a>> = {1} /\ DOMAIN <<a, b>> = {1, 2} /\ DOMAIN <<a, b, c>> = {1, 2, 3}
  OBVIOUS
<1>2. 1 - 1 = 0 /\ 2 - 1 = 1 /\ 3 - 1 = 2
  OBVIOUS
<1> QED
  BY <1>1, <1>2 DEF Follows

LEMMA Plain ==
  ASSUME Reading, value = NoValue
  PROVE  IsTokens(TextTokens) /\ \E w : Stands(TextTokens, calls, w) /\ Owes(w, tokens)
<1>1. PICK w, v : Stand(w, v)
  BY DEF Reading
<1>2. v = <<>>
  BY <1>1, SpellsEmpty DEF Stand, ValuePieces
<1>3. w \in Seq(TextTokens)
  BY <1>1, StandsWord DEF Stand
<1>4. w \o v = w
  BY <1>2, <1>3
<1> QED
  BY <1>1, <1>4 DEF Stand, Reading

LEMMA ReadReads ==
  ASSUME Reading, outcome = "parsing", NEW n, NEW st, Read(n, st), Continues(st, n)
  PROVE  Reading'
<1>1. PICK w : Stays(st, n, w)
  BY DEF Continues
<1>2. w \in Seq(TextTokens)
  BY <1>1, StandsWord DEF Stays
<1>3. w \o <<>> = w
  BY <1>2
<1>4. TextTokens' = TextTokens /\ text' = text /\ calls' = st /\ tokens' = Eaten(n) /\ value' = NoValue /\ outcome' = outcome
  BY DEF TextTokens, Read
<1>5. Spells(TextTokens, <<>>, <<>>)
  BY SpellsNothing
<1>6. Stands(TextTokens, st, w) /\ Owes(w, Eaten(n))
  BY <1>1 DEF Stays
<1>7. Stand(w, <<>>)'
  <2>1. Stands(TextTokens', calls', w)
    BY <1>4, <1>6
  <2>2. Spells(TextTokens', ValuePieces', <<>>)
    BY <1>4, <1>5 DEF ValuePieces
  <2>3. Owes(w, tokens)'
    BY <1>4, <1>6 DEF Owes
  <2> QED
    BY <1>3, <2>1, <2>2, <2>3 DEF Stand
<1> QED
  BY <1>4, <1>7 DEF Reading

LEMMA GotReads ==
  ASSUME Reading, outcome = "parsing", Last(calls).at = "expression", NEW n, NEW node, Got(n, node), node # NoValue,
         NEW w, NEW v, Stands(TextTokens, calls, w), Spells(TextTokens, <<node>>, v), Owes(w \o v, Eaten(n))
  PROVE  Reading'
<1>1. TextTokens' = TextTokens /\ text' = text /\ calls' = calls /\ tokens' = Eaten(n) /\ value' = node /\ outcome' = outcome
  BY DEF TextTokens, Got
<1>2. Stand(w, v)'
  <2>1. Stands(TextTokens', calls', w)
    BY <1>1
  <2>2. Spells(TextTokens', ValuePieces', v)
    BY <1>1 DEF ValuePieces
  <2>3. Owes(w \o v, tokens)'
    BY <1>1 DEF Owes
  <2> QED
    BY <2>1, <2>2, <2>3 DEF Stand
<1> QED
  BY <1>1, <1>2 DEF Reading

LEMMA ExitReads ==
  ASSUME Reading, NEW message, Exit(message), message # "done"
  PROVE  Reading'
<1>1. TextTokens' = TextTokens /\ text' = text /\ calls' = calls /\ tokens' = tokens /\ value' = value /\ outcome' = message
  BY DEF TextTokens, Exit
<1>2. PICK w, v : Stand(w, v)
  BY DEF Reading
<1>3. Stand(w, v)'
  BY <1>1, <1>2 DEF Stand, Owes, ValuePieces
<1> QED
  BY <1>1, <1>3 DEF Reading

LEMMA ItemReads ==
  ASSUME Inv, Reading, outcome = "parsing", NEW n \in Nat, NEW st, Item(n, st), Continues(st, n)
  PROVE  Reading'
<1>1. CASE Read(n, st)
  BY <1>1, ReadReads
<1>2. CASE token_lookahead(n).type = "," /\ Read(n + 1, st)
  <2>1. Len(tokens) > n /\ tokens[n + 1] = Token(",")
    BY <1>2, Seen
  <2>2. PICK w : Stays(st, n, w)
    BY DEF Continues
  <2>3. tokens \in Seq(TextTokens)
    <3>1. PICK u, v : Stand(u, v)
      BY DEF Reading
    <3> QED
      BY <3>1 DEF Stand, Owes
  <2>4. Owes(w, Eaten(n + 1))
    BY <2>1, <2>2, <2>3, EatForgotten DEF Stays, Forgotten
  <2>5. Continues(st, n + 1)
    BY <2>2, <2>4 DEF Stays, Continues
  <2> QED
    BY <1>2, <2>5, ReadReads
<1>3. CASE Exit("expected another token")
  BY <1>3, ExitReads
<1>4. Read(n, st) \/ (token_lookahead(n).type = "," /\ Read(n + 1, st)) \/ Exit("expected another token")
  BY DEF Item
<1> QED
  BY <1>1, <1>2, <1>3, <1>4

LEMMA ExpectReads ==
  ASSUME Reading, outcome = "parsing", NEW types, NEW st, Expect(types, st), Follows(types) => Continues(st, Len(types))
  PROVE  Reading'
BY ReadReads, ExitReads DEF Expect

LEMMA DeclareReads ==
  ASSUME Reading, outcome = "parsing", NEW types, NEW st, IsStack(st), NEW node, Declare(types, st, node),
         Follows(types) => Continues(Joined(st, node), Len(types))
  PROVE  Reading'
<1> DEFINE t == Joined(st, node)
           u == Entered(t, node.name)
<1>1. CASE Follows(types) /\ Read(Len(types), u)
  <2>1. PICK w : Stays(t, Len(types), w)
    BY <1>1 DEF Continues
  <2>2. IsList(t) /\ t # <<>> /\ Last(t) = [at |-> Last(t).at, node |-> Last(t).node, symbols |-> Last(t).symbols]
    BY JoinedShape
  <2> HIDE DEF t
  <2>3. Stands(TextTokens, u, w)
    BY <2>1, <2>2, StandsEntered DEF Stays
  <2>4. Continues(u, Len(types))
    BY <2>1, <2>3 DEF Stays, Continues
  <2> HIDE DEF u
  <2> QED
    BY <1>1, <2>4, ReadReads
<1>2. CASE Exit("expected another token")
  BY <1>2, ExitReads
<1>3. CASE Exit("re-declaration of symbol")
  BY <1>3, ExitReads
<1> QED
  BY <1>1, <1>2, <1>3 DEF Declare

\* A node joins the innermost block after n tokens.
LEMMA Joins ==
  ASSUME NEW st, IsStack(st), Last(st).at = "block", NEW w, Stands(TextTokens, st, w),
         NEW s, NEW x, Spells(TextTokens, StatementPieces(s), x), NEW n, Owes(w \o x, Eaten(n))
  PROVE  Continues(Joined(st, s), n)
BY StandsJoined DEF Continues, Stays

\* A call of another parsing function after n tokens.
LEMMA Pushes ==
  ASSUME NEW st, IsStack(st), NEW w, Stands(TextTokens, st, w), NEW f, NEW x, Fits(TextTokens, f, x),
         NEW n, Owes(w \o x, Eaten(n))
  PROVE  Continues(Append(st, f), n)
<1>1. IsList(st) /\ st # <<>>
  BY DEF IsStack
<1>2. Stands(TextTokens, Append(st, f), w \o x)
  BY <1>1, StandsPush
<1> QED
  BY <1>2 DEF Continues, Stays

LEMMA PushesExpression ==
  ASSUME NEW st, IsStack(st), NEW w, Stands(TextTokens, st, w), NEW f, NEW x, Fits(TextTokens, f, x),
         NEW n, Owes(w \o x, Eaten(n))
  PROVE  Continues(st \o <<f, Expression>>, n)
<1> DEFINE t == Append(st, f)
<1>1. IsList(st) /\ st # <<>>
  BY DEF IsStack
<1>2. Stands(TextTokens, t, w \o x)
  BY <1>1, StandsPush
<1>3. IsList(t) /\ t # <<>>
  <2>1. IsList(t) /\ Len(t) = Len(st) + 1 /\ Len(st) \in Nat
    BY <1>1, ListAppend, ListLen
  <2> HIDE DEF t
  <2> QED
    BY <2>1
<1>4. st \o <<f, Expression>> = Append(t, Expression)
  BY <1>1, Two
<1> HIDE DEF t
<1>5. Fits(TextTokens, Expression, <<>>)
  <2>1. Expression.at = "expression" /\ Expression.node = NoValue
    BY DEF Expression, Active
  <2>2. SoFar(Expression) = <<>> /\ NamesFit(Expression)
    BY <2>1 DEF SoFar, NamesFit
  <2> QED
    BY <2>2, SpellsNothing DEF Fits
<1>6. Stands(TextTokens, Append(t, Expression), (w \o x) \o <<>>)
  BY <1>2, <1>3, <1>5, StandsPush
<1>7. (w \o x) \o <<>> = w \o x
  <2>1. w \o x \in Seq(TextTokens)
    BY <1>2, StandsWord
  <2> QED
    BY <2>1
<1> QED
  BY <1>4, <1>6, <1>7 DEF Continues, Stays

-----------------------------------------------------------------------------
(***************************************************************************)
(* Every action reads what is written                                      *)
(***************************************************************************)
LEMMA NotExpression ==
  ASSUME Reading, Last(calls).at # "expression"
  PROVE  IsTokens(TextTokens) /\ \E w : Stands(TextTokens, calls, w) /\ Owes(w, tokens)
BY Plain DEF Reading

\* Two lists of tokens, neither empty, are the pieces of a statement.
LEMMA SpellsPlainStatement ==
  ASSUME NEW T, IsTokens(T), NEW s, NEW p \in Seq(T), NEW q \in Seq(T), Pieces(s) = p \o q, p # <<>>, q # <<>>,
         StatementPieces(s) = <<s>>
  PROVE  Spells(T, StatementPieces(s), p \o q)
BY SpellsTokens, SpellsNode

LEMMA PairWord ==
  ASSUME NEW T, NEW a \in T, NEW b \in T
  PROVE  <<a>> \o <<b>> = <<a, b>>
<1> DEFINE d == <<>>
<1>1. d \in Seq(T)
  OBVIOUS
<1> HIDE DEF d
<1>2. (d \o <<a>>) \o <<b>> = d \o <<a, b>>
  BY <1>1, TwoWords
<1>3. \A u \in Seq(T) : d \o u = u
  BY DEF d
<1>4. <<a>> \in Seq(T) /\ <<a, b>> \in Seq(T)
  OBVIOUS
<1> QED
  BY <1>2, <1>3, <1>4

LEMMA SmallWords ==
  ASSUME NEW T, NEW a \in T, NEW b \in T, NEW c \in T
  PROVE  /\ <<a>> \in Seq(T) /\ <<a, b>> \in Seq(T) /\ <<a, b, c>> \in Seq(T)
         /\ <<a>> \o <<b>> = <<a, b>> /\ <<a, b>> \o <<c>> = <<a, b, c>>
         /\ <<a>> # <<>> /\ <<a, b>> # <<>> /\ <<a, b, c>> # <<>>
         /\ <<a>> \o <<>> = <<a>> /\ <<a, b>> \o <<>> = <<a, b>>
<1>1. <<a>> \in Seq(T) /\ <<a, b>> \in Seq(T) /\ <<a, b, c>> \in Seq(T)
  OBVIOUS
<1>0. \A u \in Seq(T) : u \o <<>> = u /\ <<>> \o u = u
  OBVIOUS
<1> DEFINE d == <<>>
<1>d. d \in Seq(T)
  OBVIOUS
<1> HIDE DEF d
<1>2. <<a>> \o <<b>> = <<a, b>>
  BY PairWord
<1>3. <<a, b>> \o <<c>> = <<a, b, c>>
  <2>1. (d \o <<a, b>>) \o <<c>> = d \o <<a, b, c>>
    BY <1>1, <1>d
  <2> QED
    BY <1>0, <1>1, <2>1 DEF d
<1>4. <<a>> # <<>>
  OBVIOUS
<1>5. <<a, b>> # <<>>
  OBVIOUS
<1>6. <<a, b, c>> # <<>>
  OBVIOUS
<1>7. \A u \in Seq(T) : u \o <<>> = u
  OBVIOUS
<1> QED
  BY <1>1, <1>2, <1>3, <1>4, <1>5, <1>6, <1>7

\* What a token of a type looks like.
Shows(token, type) ==
  /\ token.type = type
  /\ type = "identifier" => token = Id(token.value)
  /\ type = "operator" => token = Operator(token.value)
  /\ type \notin {"identifier", "operator"} => token = Token(type)

LEMMA Shown ==
  ASSUME Inv, NEW type, type # "EOF_OR_INVALID"
  PROVE  /\ token_lookahead(0).type = type => Len(tokens) > 0 /\ Shows(tokens[1], type)
         /\ token_lookahead(1).type = type => Len(tokens) > 1 /\ Shows(tokens[2], type)
         /\ token_lookahead(2).type = type => Len(tokens) > 2 /\ Shows(tokens[3], type)
<1>1. ASSUME NEW k \in Nat, token_lookahead(k).type = type
      PROVE  Len(tokens) > k /\ Shows(tokens[k + 1], type)
  BY <1>1, Seen DEF Shows
<1>2. 0 \in Nat /\ 1 \in Nat /\ 2 \in Nat /\ 0 + 1 = 1 /\ 1 + 1 = 2 /\ 2 + 1 = 3
  OBVIOUS
<1>3. token_lookahead(0).type = type => Len(tokens) > 0 /\ Shows(tokens[0 + 1], type)
  BY <1>1
<1>4. token_lookahead(1).type = type => Len(tokens) > 1 /\ Shows(tokens[1 + 1], type)
  BY <1>1
<1>5. token_lookahead(2).type = type => Len(tokens) > 2 /\ Shows(tokens[2 + 1], type)
  BY <1>1
<1> QED
  BY <1>2, <1>3, <1>4, <1>5

\* The next tokens are read and written.
LEMMA OneRead ==
  ASSUME NEW w, Owes(w, tokens), NEW a, Len(tokens) > 0, tokens[1] = a
  PROVE  Owes(w \o <<a>>, Eaten(1)) /\ <<a>> \in Seq(TextTokens) /\ <<a>> # <<>> /\ a \in TextTokens
<1>1. Owes(w \o <<a>>, Eaten(1)) /\ <<a>> \in Seq(TextTokens) /\ a \in TextTokens
  BY EatOne
<1> QED
  BY <1>1, SmallWords

LEMMA TwoRead ==
  ASSUME NEW w, Owes(w, tokens), NEW a, NEW b, Len(tokens) > 1, tokens[1] = a, tokens[2] = b
  PROVE  /\ Owes(w \o <<a, b>>, Eaten(2)) /\ <<a, b>> \in Seq(TextTokens) /\ <<a, b>> # <<>>
         /\ <<a>> \o <<b>> = <<a, b>>
         /\ <<a>> \in Seq(TextTokens) /\ <<b>> \in Seq(TextTokens) /\ <<a>> # <<>> /\ <<b>> # <<>>
<1>1. Owes(w \o <<a, b>>, Eaten(2)) /\ a \in TextTokens /\ b \in TextTokens
  BY EatTwo
<1> QED
  BY <1>1, SmallWords

LEMMA ThreeWords ==
  ASSUME NEW T, NEW a \in T, NEW b \in T, NEW c \in T
  PROVE  /\ <<a, b, c>> \in Seq(T) /\ <<a, b, c>> # <<>> /\ <<a, b>> \o <<c>> = <<a, b, c>>
         /\ <<a, b>> \in Seq(T) /\ <<a, b>> # <<>> /\ <<c>> \in Seq(T) /\ <<c>> # <<>>
<1>1. <<a, b, c>> \in Seq(T) /\ <<a, b, c>> # <<>>
  BY SmallWords
<1>2. <<a, b>> \o <<c>> = <<a, b, c>>
  BY SmallWords
<1>3. <<a, b>> \in Seq(T) /\ <<a, b>> # <<>>
  BY SmallWords
<1>4. <<c>> \in Seq(T) /\ <<c>> # <<>>
  BY SmallWords
<1> QED
  BY <1>1, <1>2, <1>3, <1>4

LEMMA ThreeRead ==
  ASSUME NEW w, Owes(w, tokens), NEW a, NEW b, NEW c, Len(tokens) > 2,
         tokens[1] = a, tokens[2] = b, tokens[3] = c
  PROVE  /\ Owes(w \o <<a, b, c>>, Eaten(3)) /\ <<a, b, c>> \in Seq(TextTokens) /\ <<a, b, c>> # <<>>
         /\ <<a, b>> \o <<c>> = <<a, b, c>>
         /\ <<a, b>> \in Seq(TextTokens) /\ <<c>> \in Seq(TextTokens) /\ <<a, b>> # <<>> /\ <<c>> # <<>>
<1>1. tokens \in Seq(TextTokens)
  BY NoneEaten
<1>2. Len(tokens) > 1
  BY <1>1
<1>3. Owes(w \o <<a, b, c>>, Eaten(3)) /\ a \in TextTokens /\ b \in TextTokens /\ c \in TextTokens
  BY <1>2, EatTwo, EatThree
<1> HIDE DEF TextTokens
<1> QED
  BY <1>3, ThreeWords

LEMMA PiecesByKind ==
  ASSUME NEW t
  PROVE  /\ t.kind = "return" =>
              Pieces(t) = <<Token("return")>> \o (IF t.value = NoValue THEN <<>> ELSE <<t.value>>) \o <<Token(";")>>
         /\ t.kind = "variable" =>
              Pieces(t) = <<Id(t.type), Id(t.name)>> \o (IF t.value = NoValue THEN <<>> ELSE <<Operator("="), t.value>>)
                          \o <<Token(";")>>
         /\ t.kind \in {"return", "variable", "type", "function"} => StatementPieces(t) = <<t>>
BY DEF Pieces, StatementPieces

LEMMA ReturnReads ==
  ASSUME Inv, Reading, ReturnStatement
  PROVE  Reading'
<1> DEFINE s == Return(NoValue)
           a == Token("return")
           b == Token(";")
<1>1. outcome = "parsing" /\ Last(calls).at = "block" /\ IsStack(calls) /\ token_lookahead(0).type = "return"
  BY DEF ReturnStatement, AtStatement, In, Ahead, token_peek, Inv
<1>2. IsTokens(TextTokens) /\ \E w : Stands(TextTokens, calls, w) /\ Owes(w, tokens)
  BY <1>1, NotExpression
<1>3. PICK w : Stands(TextTokens, calls, w) /\ Owes(w, tokens)
  BY <1>2
<1>4. Len(tokens) > 0 /\ tokens[1] = a
  BY <1>1, Shown DEF Shows
<1>5. CASE Follows(<<"return", ";">>) /\ Read(2, Joined(calls, s))
  <2>1. token_lookahead(1).type = ";"
    BY <1>5, FollowsThese
  <2>2. Len(tokens) > 1 /\ tokens[2] = b
    BY <2>1, Shown DEF Shows
  <2>3. Pieces(s) = <<a>> \o <<>> \o <<b>> /\ StatementPieces(s) = <<s>>
    <3>1. s.kind = "return" /\ s.value = NoValue
      BY DEF Return
    <3> HIDE DEF s
    <3> QED
      BY <3>1, PiecesByKind
  <2> HIDE DEF a, b, s
  <2>4. /\ Owes(w \o <<a, b>>, Eaten(2)) /\ <<a>> \o <<b>> = <<a, b>>
        /\ <<a>> \in Seq(TextTokens) /\ <<b>> \in Seq(TextTokens) /\ <<a>> # <<>> /\ <<b>> # <<>>
    BY <1>3, <1>4, <2>2, TwoRead
  <2>5. <<a>> \o <<>> = <<a>>
    BY <2>4
  <2>6. Pieces(s) = <<a>> \o <<b>>
    BY <2>3, <2>5
  <2>7. Spells(TextTokens, StatementPieces(s), <<a>> \o <<b>>)
    BY <1>2, <2>3, <2>4, <2>6, SpellsPlainStatement
  <2>8. Continues(Joined(calls, s), 2)
    BY <1>1, <1>3, <2>4, <2>7, Joins
  <2> QED
    BY <1>1, <1>5, <2>8, ReadReads DEF s
<1>6. CASE Read(1, calls \o <<Active("return", s), Expression>>)
  <2> DEFINE f == Active("return", s)
  <2>1. SoFar(f) = <<a>> /\ NamesFit(f)
    BY DEF SoFar, NamesFit, Active
  <2> HIDE DEF f, a
  <2>2. Owes(w \o <<a>>, Eaten(1)) /\ <<a>> \in Seq(TextTokens)
    BY <1>3, <1>4, OneRead
  <2>3. Fits(TextTokens, f, <<a>>)
    BY <1>2, <2>1, <2>2, SpellsTokens DEF Fits
  <2>4. Continues(calls \o <<f, Expression>>, 1)
    BY <1>1, <1>3, <2>2, <2>3, PushesExpression
  <2> QED
    BY <1>1, <1>6, <2>4, ReadReads DEF f
<1> QED
  BY <1>5, <1>6 DEF ReturnStatement

LEMMA VariableReads ==
  ASSUME Inv, Reading, VariableDeclaration
  PROVE  Reading'
<1> DEFINE s == Variable(tokens[1].value, tokens[2].value, NoValue)
           a == Id(s.type)
           b == Id(s.name)
           types == <<"identifier", "identifier", ";">>
<1>1. outcome = "parsing" /\ Last(calls).at = "block" /\ IsStack(calls)
      /\ token_lookahead(0).type = "identifier" /\ token_lookahead(1).type = "identifier"
  BY FollowsThese DEF VariableDeclaration, AtDeclaration, AtStatement, In, Inv
<1>2. IsTokens(TextTokens) /\ \E w : Stands(TextTokens, calls, w) /\ Owes(w, tokens)
  BY <1>1, NotExpression
<1>3. PICK w : Stands(TextTokens, calls, w) /\ Owes(w, tokens)
  BY <1>2
<1>4. s.type = tokens[1].value /\ s.name = tokens[2].value /\ s.kind = "variable" /\ s.value = NoValue
  BY DEF Variable
<1>5. tokens[1] = a /\ tokens[2] = b
  BY <1>1, <1>4, Shown DEF Shows
<1>6. CASE token_lookahead(2) = Operator("=") /\ Read(3, calls \o <<Active("variable", s), Expression>>)
  <2> DEFINE f == Active("variable", s)
             c == Operator("=")
  <2>1. token_lookahead(2).type = "operator"
    BY <1>6 DEF Operator
  <2>2. Len(tokens) > 2
    BY <2>1, Shown
  <2>3. tokens[3] = c
    <3>1. 2 + 1 = 3 /\ 2 \in Nat
      OBVIOUS
    <3>2. tokens[2 + 1] = token_lookahead(2)
      BY <2>1, Looked
    <3> QED
      BY <1>6, <3>1, <3>2
  <2>4. f.at = "variable" /\ f.node = s
    BY DEF Active
  <2> HIDE DEF f, s
  <2>5. SoFar(f) = <<a, b, c>> /\ NamesFit(f)
    BY <2>4 DEF SoFar, NamesFit
  <2> HIDE DEF a, b, c
  <2>6. Owes(w \o <<a, b, c>>, Eaten(3)) /\ <<a, b, c>> \in Seq(TextTokens)
    BY <1>3, <1>5, <2>2, <2>3, ThreeRead
  <2>7. Fits(TextTokens, f, <<a, b, c>>)
    BY <1>2, <2>5, <2>6, SpellsTokens DEF Fits
  <2>8. Continues(calls \o <<f, Expression>>, 3)
    BY <1>1, <1>3, <2>6, <2>7, PushesExpression
  <2> QED
    BY <1>1, <1>6, <2>8, ReadReads DEF f, s
<1>7. CASE Declare(types, calls, s)
  <2>1. ASSUME Follows(types)
        PROVE  Continues(Joined(calls, s), 3)
    <3> DEFINE c == Token(";")
    <3>1. token_lookahead(2).type = ";"
      BY <2>1, FollowsThese
    <3>2. Len(tokens) > 2 /\ tokens[3] = c
      BY <3>1, Shown DEF Shows
    <3> HIDE DEF s
    <3>3. Pieces(s) = <<a, b>> \o <<>> \o <<c>> /\ StatementPieces(s) = <<s>>
      BY <1>4, PiecesByKind
    <3> HIDE DEF a, b, c
    <3>4. /\ Owes(w \o <<a, b, c>>, Eaten(3)) /\ <<a, b>> \o <<c>> = <<a, b, c>>
          /\ <<a, b>> \in Seq(TextTokens) /\ <<c>> \in Seq(TextTokens) /\ <<a, b>> # <<>> /\ <<c>> # <<>>
      BY <1>3, <1>5, <3>2, ThreeRead
    <3>5. <<a, b>> \o <<>> = <<a, b>>
      BY <3>4
    <3>6. Pieces(s) = <<a, b>> \o <<c>>
      BY <3>3, <3>5
    <3>7. Spells(TextTokens, StatementPieces(s), <<a, b>> \o <<c>>)
      BY <1>2, <3>3, <3>4, <3>6, SpellsPlainStatement
    <3> QED
      BY <1>1, <1>3, <3>4, <3>7, Joins
  <2>2. Len(types) = 3
    OBVIOUS
  <2> HIDE DEF s, types
  <2> QED
    BY <1>1, <1>7, <2>1, <2>2, DeclareReads
<1> QED
  BY <1>6, <1>7 DEF VariableDeclaration

LEMMA ExpressionStatementReads ==
  ASSUME Inv, Reading, ExpressionStatement
  PROVE  Reading'
<1> DEFINE f == Active("statement", NoValue)
<1>1. outcome = "parsing" /\ Last(calls).at = "block" /\ IsStack(calls)
      /\ Read(0, calls \o <<f, Expression>>)
  BY DEF ExpressionStatement, AtStatement, In, Inv
<1>2. PICK w : Stands(TextTokens, calls, w) /\ Owes(w, tokens)
  BY <1>1, NotExpression
<1>3. SoFar(f) = <<>> /\ NamesFit(f)
  BY DEF SoFar, NamesFit, Active
<1> HIDE DEF f
<1>4. Fits(TextTokens, f, <<>>)
  BY <1>3, SpellsNothing DEF Fits
<1>5. Owes(w \o <<>>, Eaten(0))
  <2>1. Owes(w, Eaten(0)) /\ w \in Seq(TextTokens)
    BY <1>2, NoneEaten, StandsWord
  <2>2. w \o <<>> = w
    BY <2>1
  <2> QED
    BY <2>1, <2>2
<1>6. Continues(calls \o <<f, Expression>>, 0)
  BY <1>1, <1>2, <1>4, <1>5, PushesExpression
<1> QED
  BY <1>1, <1>6, ReadReads

-----------------------------------------------------------------------------
\* A declaration starts.
LEMMA EmptyPieces ==
  /\ \A f : f.parameters = <<>> => ParameterPieces(f) = <<>>
  /\ \A s : s.members = <<>> => MemberPieces(s) = <<>>
<1>1. DOMAIN <<>> = {} /\ FlattenSeq(<<>>) = <<>>
  BY DEF FlattenSeq
<1>2. ASSUME NEW f, f.parameters = <<>>
      PROVE  ParameterPieces(f) = <<>>
  <2> DEFINE m == [k \in DOMAIN f.parameters |->
                     IF f.parameters[k] = Vararg THEN <<Token("."), Token("."), Token(".")>>
                     ELSE <<Id(f.parameters[k])>> \o (IF f.names[k] = "" THEN <<>> ELSE <<Id(f.names[k])>>)]
  <2>1. m = <<>>
    BY <1>1, <1>2
  <2> QED
    BY <1>1, <2>1 DEF ParameterPieces
<1>3. ASSUME NEW s, s.members = <<>>
      PROVE  MemberPieces(s) = <<>>
  <2> DEFINE m == [k \in DOMAIN s.members |-> <<Id(s.members[k]), Id(s.names[k])>>]
  <2>1. m = <<>>
    BY <1>1, <1>3
  <2> QED
    BY <1>1, <2>1 DEF MemberPieces
<1> QED
  BY <1>2, <1>3

LEMMA FunctionReads ==
  ASSUME Inv, Reading, FunctionDeclaration
  PROVE  Reading'
<1> DEFINE types == <<"fn", "identifier", "(">>
           node == FunctionNode(tokens[2].value)
           f == Active("parameters", node)
           a == Token("fn")
           b == Id(node.name)
           c == Token("(")
<1>1. outcome = "parsing" /\ Last(calls).at = "block" /\ IsStack(calls)
  BY DEF FunctionDeclaration, AtStatement, In, Inv
<1>2. Expect(types, Append(calls, f))
  BY DEF FunctionDeclaration
<1>3. IsTokens(TextTokens) /\ \E w : Stands(TextTokens, calls, w) /\ Owes(w, tokens)
  BY <1>1, NotExpression
<1>4. PICK w : Stands(TextTokens, calls, w) /\ Owes(w, tokens)
  BY <1>3
<1>5. node.name = tokens[2].value /\ node.parameters = <<>> /\ node.names = <<>>
  BY DEF FunctionNode
<1> HIDE DEF node
<1>6. f.at = "parameters" /\ f.node = node
  BY DEF Active
<1> HIDE DEF f
<1>7. ASSUME Follows(types)
      PROVE  Continues(Append(calls, f), 3)
  <2>1. token_lookahead(0).type = "fn" /\ token_lookahead(1).type = "identifier" /\ token_lookahead(2).type = "("
    BY <1>7, FollowsThese
  <2>2. Len(tokens) > 2 /\ tokens[1] = a /\ tokens[2] = b /\ tokens[3] = c
    BY <1>5, <2>1, Shown DEF Shows
  <2>3. SoFar(f) = <<a, b, c>> \o <<>>
    BY <1>5, <1>6, EmptyPieces DEF SoFar, ParametersSoFar
  <2>4. NamesFit(f)
    BY <1>5, <1>6, EmptyBlock DEF NamesFit, IsBlock
  <2> HIDE DEF a, b, c
  <2>5. Owes(w \o <<a, b, c>>, Eaten(3)) /\ <<a, b, c>> \in Seq(TextTokens)
    BY <1>4, <2>2, ThreeRead
  <2>6. <<a, b, c>> \o <<>> = <<a, b, c>>
    BY <2>5
  <2>7. Fits(TextTokens, f, <<a, b, c>>)
    BY <1>3, <2>3, <2>4, <2>5, <2>6, SpellsTokens DEF Fits
  <2> QED
    BY <1>1, <1>4, <2>5, <2>7, Pushes
<1>8. Len(types) = 3
  OBVIOUS
<1> HIDE DEF types
<1> QED
  BY <1>1, <1>2, <1>7, <1>8, ExpectReads

LEMMA TypeReads ==
  ASSUME Inv, Reading, TypeDeclaration
  PROVE  Reading'
<1> DEFINE types == <<"type", "identifier", "(">>
           node == TypeNode(tokens[2].value)
           f == Active("members", node)
           a == Token("type")
           b == Id(node.name)
           c == Token("(")
<1>1. outcome = "parsing" /\ Last(calls).at = "block" /\ IsStack(calls)
  BY DEF TypeDeclaration, AtStatement, In, Inv
<1>2. Expect(types, Append(calls, f))
  BY DEF TypeDeclaration
<1>3. IsTokens(TextTokens) /\ \E w : Stands(TextTokens, calls, w) /\ Owes(w, tokens)
  BY <1>1, NotExpression
<1>4. PICK w : Stands(TextTokens, calls, w) /\ Owes(w, tokens)
  BY <1>3
<1>5. node.name = tokens[2].value /\ node.members = <<>> /\ node.names = <<>>
  BY DEF TypeNode
<1> HIDE DEF node
<1>6. f.at = "members" /\ f.node = node
  BY DEF Active
<1> HIDE DEF f
<1>7. ASSUME Follows(types)
      PROVE  Continues(Append(calls, f), 3)
  <2>1. token_lookahead(0).type = "type" /\ token_lookahead(1).type = "identifier" /\ token_lookahead(2).type = "("
    BY <1>7, FollowsThese
  <2>2. Len(tokens) > 2 /\ tokens[1] = a /\ tokens[2] = b /\ tokens[3] = c
    BY <1>5, <2>1, Shown DEF Shows
  <2>3. SoFar(f) = <<a, b, c>> \o <<>>
    BY <1>5, <1>6, EmptyPieces DEF SoFar, MembersSoFar
  <2>4. NamesFit(f)
    BY <1>5, <1>6, EmptyBlock DEF NamesFit, IsBlock
  <2> HIDE DEF a, b, c
  <2>5. Owes(w \o <<a, b, c>>, Eaten(3)) /\ <<a, b, c>> \in Seq(TextTokens)
    BY <1>4, <2>2, ThreeRead
  <2>6. <<a, b, c>> \o <<>> = <<a, b, c>>
    BY <2>5
  <2>7. Fits(TextTokens, f, <<a, b, c>>)
    BY <1>3, <2>3, <2>4, <2>5, <2>6, SpellsTokens DEF Fits
  <2> QED
    BY <1>1, <1>4, <2>5, <2>7, Pushes
<1>8. Len(types) = 3
  OBVIOUS
<1> HIDE DEF types
<1> QED
  BY <1>1, <1>2, <1>7, <1>8, ExpectReads

LEMMA NamedTokens ==
  ASSUME Inv
  PROVE  /\ token_lookahead(0).type = "identifier" => tokens[1].value # Vararg /\ tokens[1].value # ""
         /\ token_lookahead(1).type = "identifier" => tokens[2].value # Vararg /\ tokens[2].value # ""
<1>1. token_lookahead(0).type = "identifier" => tokens[0 + 1].value # Vararg /\ tokens[0 + 1].value # ""
  BY NamedToken
<1>2. token_lookahead(1).type = "identifier" => tokens[1 + 1].value # Vararg /\ tokens[1 + 1].value # ""
  BY NamedToken
<1>3. 0 + 1 = 1 /\ 1 + 1 = 2
  OBVIOUS
<1> QED
  BY <1>1, <1>2, <1>3

\* The innermost call goes on.
LEMMA GoesOn ==
  ASSUME NEW st, IsStack(st), Last(st).at # "block", NEW w, Stands(TextTokens, st, w),
         NEW g, NEW a, NEW y, Spells(TextTokens, a, y),
         NamesFit(Last(st)) => SoFar(g) = SoFar(Last(st)) \o a /\ NamesFit(g),
         NEW n, Owes(w \o y, Eaten(n))
  PROVE  Continues(Append(Front(st), g), n)
<1>1. IsList(st) /\ st # <<>>
  BY DEF IsStack
<1>2. Len(st) # 1
  <2>1. Len(st) \in Nat /\ Len(st) > 1
    BY Top
  <2>2. \A m \in Nat : m > 1 => m # 1
    OBVIOUS
  <2> QED
    BY <2>1, <2>2
<1>3. Stands(TextTokens, Append(Front(st), g), w \o y)
  BY <1>1, <1>2, StandsLonger
<1> QED
  BY <1>3 DEF Continues, Stays

LEMMA WithFrame ==
  ASSUME Inv, NEW node
  PROVE  \E g : With(node) = Append(Front(calls), g) /\ g.at = Last(calls).at /\ g.node = node
<1> DEFINE f == Last(calls)
           g == [f EXCEPT !.node = node]
<1>1. f = [at |-> f.at, node |-> f.node, symbols |-> f.symbols]
  BY Top DEF Inv, IsFrame
<1> HIDE DEF f
<1>2. g = [at |-> f.at, node |-> node, symbols |-> f.symbols]
  BY <1>1, FrameExcept
<1>3. g.at = f.at /\ g.node = node
  BY <1>2
<1>4. With(node) = Append(Front(calls), g)
  BY DEF With, f
<1> HIDE DEF g
<1> QED
  BY <1>3, <1>4 DEF f

LEMMA MoreParameters ==
  ASSUME Inv, Reading, Parameter, NEW type, NEW name, NEW n \in Nat,
         \A w : Owes(w, tokens) => /\ Owes(w \o ParameterAt(type, name), Eaten(n))
                                   /\ ParameterAt(type, name) \in Seq(TextTokens),
         Item(n, With([Last(calls).node EXCEPT !.parameters = Append(@, type), !.names = Append(@, name)]))
  PROVE  Reading'
<1> DEFINE f == Last(calls).node
           more == [f EXCEPT !.parameters = Append(@, type), !.names = Append(@, name)]
           p == [f EXCEPT !.parameters = Append(@, type)]
           names == Append(f.names, name)
           node == [p EXCEPT !.names = names]
           a == ParameterAt(type, name)
           b == <<Token("fn"), Id(f.name), Token("(")>>
<1>1. outcome = "parsing" /\ Last(calls).at = "parameters" /\ IsStack(calls) /\ IsFunction(f)
  BY InSignature DEF Parameter, In, Inv
<1>2. more = node
  OBVIOUS
<1>3. Item(n, With(more))
  OBVIOUS
<1>4. PICK w : Stands(TextTokens, calls, w) /\ Owes(w, tokens)
  BY <1>1, NotExpression
<1>5. Owes(w \o a, Eaten(n)) /\ a \in Seq(TextTokens) /\ IsTokens(TextTokens)
  BY <1>4 DEF Reading
<1> HIDE DEF f, more, names, a
<1>6. node.parameters = Append(f.parameters, type) /\ node.names = names /\ node.name = f.name
  BY <1>1 DEF IsFunction
<1> HIDE DEF node
<1>7. PICK g : With(node) = Append(Front(calls), g) /\ g.at = "parameters" /\ g.node = node
  BY <1>1, WithFrame
<1>8. ASSUME NamesFit(Last(calls))
      PROVE  SoFar(g) = SoFar(Last(calls)) \o a /\ NamesFit(g)
  <2>1. IsList(f.parameters) /\ IsList(f.names) /\ Len(f.names) = Len(f.parameters)
    BY <1>1, <1>8 DEF NamesFit, IsFunction, f
  <2>2. /\ IsList(names) /\ Len(names) = Len(f.names) + 1 /\ Len(node.parameters) = Len(f.parameters) + 1
    BY <1>6, <2>1, ListAppend DEF names
  <2>3. NamesFit(g)
    BY <1>6, <1>7, <2>1, <2>2 DEF NamesFit
  <2>4. IsList(ParameterPieces(f)) /\ ParameterPieces(node) = ParameterPieces(f) \o a
    BY <1>6, <2>1, ParameterPiecesAppend DEF names, a
  <2>5. SoFar(g) = b \o ParameterPieces(node) /\ SoFar(Last(calls)) = b \o ParameterPieces(f)
    BY <1>1, <1>6, <1>7 DEF SoFar, ParametersSoFar, f
  <2> DEFINE c == ParameterPieces(f)
  <2>6. IsList(b) /\ IsList(a) /\ IsList(c)
    BY <1>5, <2>4, SmallLists, ListOf
  <2> HIDE DEF b, c
  <2>7. (b \o c) \o a = b \o (c \o a)
    BY <2>6, ListJoin
  <2> QED
    BY <2>3, <2>4, <2>5, <2>7 DEF c
<1>9. Spells(TextTokens, a, a)
  BY <1>5, SpellsTokens
<1>10. Continues(With(node), n)
  BY <1>1, <1>4, <1>5, <1>7, <1>8, <1>9, GoesOn
<1> QED
  BY <1>1, <1>2, <1>3, <1>10, ItemReads

LEMMA ParameterReads ==
  ASSUME Inv, Reading, Parameter
  PROVE  Reading'
<1> DEFINE f == Last(calls).node
           More(type, name) == With([f EXCEPT !.parameters = Append(@, type), !.names = Append(@, name)])
<1>1. \/ Follows(<<".", ".", ".">>) /\ Item(3, More(Vararg, ""))
      \/ Follows(<<"identifier", "identifier">>) /\ Item(2, More(tokens[1].value, tokens[2].value))
      \/ Ahead("identifier") /\ Item(1, More(tokens[1].value, ""))
      \/ Exit("expected another token")
  BY DEF Parameter
<1>2. CASE Follows(<<".", ".", ".">>) /\ Item(3, More(Vararg, ""))
  <2> DEFINE a == Token(".")
  <2>1. token_lookahead(0).type = "." /\ token_lookahead(1).type = "." /\ token_lookahead(2).type = "."
    BY <1>2, FollowsThese
  <2>2. Len(tokens) > 2 /\ tokens[1] = a /\ tokens[2] = a /\ tokens[3] = a
    BY <2>1, Shown DEF Shows
  <2>3. ParameterAt(Vararg, "") = <<a, a, a>>
    BY DEF ParameterAt
  <2> HIDE DEF a
  <2>4. \A w : Owes(w, tokens) => Owes(w \o <<a, a, a>>, Eaten(3)) /\ <<a, a, a>> \in Seq(TextTokens)
    BY <2>2, ThreeRead
  <2>5. Item(3, With([Last(calls).node EXCEPT !.parameters = Append(@, Vararg), !.names = Append(@, "")]))
    BY <1>2
  <2> QED
    BY <2>3, <2>4, <2>5, MoreParameters
<1>3. CASE Follows(<<"identifier", "identifier">>) /\ Item(2, More(tokens[1].value, tokens[2].value))
  <2> DEFINE t == tokens[1].value
             s == tokens[2].value
             a == Id(t)
             b == Id(s)
  <2>1. token_lookahead(0).type = "identifier" /\ token_lookahead(1).type = "identifier"
    BY <1>3, FollowsThese
  <2>2. Len(tokens) > 1 /\ tokens[1] = a /\ tokens[2] = b
    BY <2>1, Shown DEF Shows
  <2>3. t # Vararg /\ s # ""
    BY <2>1, NamedTokens
  <2>4. Item(2, With([Last(calls).node EXCEPT !.parameters = Append(@, t), !.names = Append(@, s)]))
    BY <1>3
  <2> HIDE DEF t, s
  <2>5. ParameterAt(t, s) = <<a>> \o <<b>>
    BY <2>3 DEF ParameterAt
  <2> HIDE DEF a, b
  <2>6. \A w : Owes(w, tokens) =>
           Owes(w \o <<a, b>>, Eaten(2)) /\ <<a, b>> \in Seq(TextTokens) /\ <<a>> \o <<b>> = <<a, b>>
    BY <2>2, TwoRead
  <2> QED
    BY <2>4, <2>5, <2>6, MoreParameters
<1>4. CASE Ahead("identifier") /\ Item(1, More(tokens[1].value, ""))
  <2> DEFINE t == tokens[1].value
             a == Id(t)
  <2>1. token_lookahead(0).type = "identifier"
    BY <1>4 DEF Ahead, token_peek
  <2>2. Len(tokens) > 0 /\ tokens[1] = a
    BY <2>1, Shown DEF Shows
  <2>3. t # Vararg
    BY <2>1, NamedTokens
  <2>4. Item(1, With([Last(calls).node EXCEPT !.parameters = Append(@, t), !.names = Append(@, "")]))
    BY <1>4
  <2> HIDE DEF t
  <2>5. ParameterAt(t, "") = <<a>> \o <<>>
    BY <2>3 DEF ParameterAt
  <2> HIDE DEF a
  <2>6. \A w : Owes(w, tokens) => Owes(w \o <<a>>, Eaten(1)) /\ <<a>> \in Seq(TextTokens)
    BY <2>2, OneRead
  <2>7. <<a>> \o <<>> = <<a>>
    BY ListJoin, SmallLists
  <2> QED
    BY <2>4, <2>5, <2>6, <2>7, MoreParameters
<1>5. CASE Exit("expected another token")
  BY <1>5, ExitReads
<1> QED
  BY <1>1, <1>2, <1>3, <1>4, <1>5

LEMMA MemberReads ==
  ASSUME Inv, Reading, Member
  PROVE  Reading'
<1> DEFINE f == Last(calls).node
           t == tokens[1].value
           s == tokens[2].value
           more == [f EXCEPT !.members = Append(@, t), !.names = Append(@, s)]
           p == [f EXCEPT !.members = Append(@, t)]
           names == Append(f.names, s)
           node == [p EXCEPT !.names = names]
           a == MemberAt(t, s)
           b == <<Token("type"), Id(f.name), Token("(")>>
<1>1. outcome = "parsing" /\ Last(calls).at = "members" /\ IsStack(calls) /\ IsType(f)
  BY Top DEF Member, In, Inv, IsFrame, NodeOf
<1>2. CASE Follows(<<"identifier", "identifier">>) /\ Item(2, With(more))
  <2>1. more = node
    OBVIOUS
  <2>2. PICK w : Stands(TextTokens, calls, w) /\ Owes(w, tokens)
    BY <1>1, NotExpression
  <2>3. Owes(w \o a, Eaten(2)) /\ a \in Seq(TextTokens) /\ IsTokens(TextTokens)
    <3> DEFINE c == Id(t)
               d == Id(s)
    <3>1. token_lookahead(0).type = "identifier" /\ token_lookahead(1).type = "identifier"
      BY <1>2, FollowsThese
    <3>2. Len(tokens) > 1 /\ tokens[1] = c /\ tokens[2] = d
      BY <3>1, Shown DEF Shows
    <3>3. a = <<c, d>>
      BY DEF MemberAt
    <3> HIDE DEF a, c, d
    <3>4. Owes(w \o <<c, d>>, Eaten(2)) /\ <<c, d>> \in Seq(TextTokens)
      BY <2>2, <3>2, TwoRead
    <3> QED
      BY <3>3, <3>4 DEF Reading
  <2> HIDE DEF f, more, names, a
  <2>4. node.members = Append(f.members, t) /\ node.names = names /\ node.name = f.name
    BY <1>1 DEF IsType
  <2> HIDE DEF node, t, s
  <2>5. PICK g : With(node) = Append(Front(calls), g) /\ g.at = "members" /\ g.node = node
    BY <1>1, WithFrame
  <2>6. ASSUME NamesFit(Last(calls))
        PROVE  SoFar(g) = SoFar(Last(calls)) \o a /\ NamesFit(g)
    <3>1. IsList(f.members) /\ IsList(f.names) /\ Len(f.names) = Len(f.members)
      BY <1>1, <2>6 DEF NamesFit, IsType, f
    <3>2. /\ IsList(names) /\ Len(names) = Len(f.names) + 1 /\ Len(node.members) = Len(f.members) + 1
      BY <2>4, <3>1, ListAppend DEF names
    <3>3. NamesFit(g)
      BY <2>4, <2>5, <3>1, <3>2 DEF NamesFit
    <3>4. IsList(MemberPieces(f)) /\ MemberPieces(node) = MemberPieces(f) \o a
      BY <2>4, <3>1, MemberPiecesAppend DEF names, a
    <3>5. SoFar(g) = b \o MemberPieces(node) /\ SoFar(Last(calls)) = b \o MemberPieces(f)
      BY <1>1, <2>4, <2>5 DEF SoFar, MembersSoFar, f
    <3> DEFINE c == MemberPieces(f)
    <3>6. IsList(b) /\ IsList(a) /\ IsList(c)
      BY <2>3, <3>4, SmallLists, ListOf
    <3> HIDE DEF b, c
    <3>7. (b \o c) \o a = b \o (c \o a)
      BY <3>6, ListJoin
    <3> QED
      BY <3>3, <3>4, <3>5, <3>7 DEF c
  <2>7. Spells(TextTokens, a, a)
    BY <2>3, SpellsTokens
  <2>8. Continues(With(node), 2)
    BY <1>1, <2>2, <2>3, <2>5, <2>6, <2>7, GoesOn
  <2>9. Item(2, With(more))
    BY <1>2
  <2> QED
    BY <1>1, <2>1, <2>8, <2>9, ItemReads
<1>3. CASE Exit("expected another token")
  BY <1>3, ExitReads
<1> QED
  BY <1>2, <1>3 DEF Member

\* A forgotten token behind one that is written, and two of them.
LEMMA SecondForgotten ==
  ASSUME NEW w, Owes(w, tokens), Len(tokens) > 1, tokens[2] \in Forgotten
  PROVE  /\ Owes(w \o <<tokens[1]>>, Eaten(2)) /\ <<tokens[1]>> \in Seq(TextTokens)
         /\ tokens[1] \in Forgotten => Owes(w, Eaten(2))
<1>1. Owes(w, Eaten(0)) /\ tokens \in Seq(TextTokens)
  BY NoneEaten
<1>2. Len(tokens) > 0 /\ 0 + 1 = 1 /\ 1 + 1 = 2
  BY <1>1
<1>3. Owes(w \o <<tokens[1]>>, Eaten(1)) /\ <<tokens[1]>> \in Seq(TextTokens)
  BY <1>2, EatOne
<1>4. tokens[1 + 1] \in Forgotten
  BY <1>2
<1>5. Owes(w \o <<tokens[1]>>, Eaten(1 + 1))
  BY <1>1, <1>3, <1>4, EatForgotten
<1>6. ASSUME tokens[1] \in Forgotten
      PROVE  Owes(w, Eaten(2))
  <2>1. tokens[0 + 1] \in Forgotten
    BY <1>2, <1>6
  <2>2. Owes(w, Eaten(0 + 1))
    BY <1>1, <1>2, <2>1, EatForgotten
  <2>3. Owes(w, Eaten(1))
    BY <1>2, <2>2
  <2>4. Owes(w, Eaten(1 + 1))
    BY <1>1, <1>4, <2>3, EatForgotten
  <2> QED
    BY <1>2, <2>4
<1> QED
  BY <1>2, <1>3, <1>5, <1>6

\* A list of parameters ends with a parenthesis and the return type.
ReturnAt(type) == <<Token(")")>> \o (IF type = "void" THEN <<>> ELSE <<Id(type)>>)

LEMMA ParametersEnd ==
  ASSUME Inv, Reading, EndParameters, NEW type, NEW n,
         \A w : Owes(w, tokens) => Owes(w \o ReturnAt(type), Eaten(n)) /\ ReturnAt(type) \in Seq(TextTokens),
         Read(n, Append(Front(calls), Active("attributes", [Last(calls).node EXCEPT !.return_type = type])))
  PROVE  Reading'
<1> DEFINE f == Last(calls).node
           node == [f EXCEPT !.return_type = type]
           g == Active("attributes", node)
           a == ReturnAt(type)
<1>1. outcome = "parsing" /\ Last(calls).at = "parameters" /\ IsStack(calls) /\ IsFunction(f)
  BY InSignature DEF EndParameters, In, Inv
<1>2. Read(n, Append(Front(calls), g))
  OBVIOUS
<1>3. PICK w : Stands(TextTokens, calls, w) /\ Owes(w, tokens)
  BY <1>1, NotExpression
<1>4. Owes(w \o a, Eaten(n)) /\ a \in Seq(TextTokens) /\ IsTokens(TextTokens)
  BY <1>3 DEF Reading
<1>5. g.at = "attributes" /\ g.node = node
  BY DEF Active
<1> HIDE DEF f, g, a
<1>6. /\ node.parameters = f.parameters /\ node.names = f.names /\ node.name = f.name
      /\ node.return_type = type
  BY <1>1 DEF IsFunction
<1> HIDE DEF node
<1>7. ASSUME NamesFit(Last(calls))
      PROVE  SoFar(g) = SoFar(Last(calls)) \o a /\ NamesFit(g)
  <2>1. IsList(f.parameters) /\ IsList(f.names) /\ Len(f.names) = Len(f.parameters)
    BY <1>1, <1>7 DEF NamesFit, IsFunction, f
  <2>2. NamesFit(g)
    BY <1>5, <1>6, <2>1 DEF NamesFit
  <2>3. SignaturePieces(node) = ParametersSoFar(node) \o a
    BY <1>6, <2>1, Signature DEF a, ReturnAt
  <2>4. ParametersSoFar(node) = ParametersSoFar(f)
    BY <1>6 DEF ParametersSoFar, ParameterPieces
  <2>5. SoFar(g) = SignaturePieces(node) /\ SoFar(Last(calls)) = ParametersSoFar(f)
    BY <1>1, <1>5 DEF SoFar, f
  <2> QED
    BY <2>2, <2>3, <2>4, <2>5
<1>8. Spells(TextTokens, a, a)
  BY <1>4, SpellsTokens
<1>9. Continues(Append(Front(calls), g), n)
  BY <1>1, <1>3, <1>4, <1>7, <1>8, GoesOn
<1> QED
  BY <1>1, <1>2, <1>9, ReadReads

LEMMA EndParametersReads ==
  ASSUME Inv, Reading, EndParameters
  PROVE  Reading'
<1> DEFINE a == Token(")")
           Ends(type) == Append(Front(calls), Active("attributes", [Last(calls).node EXCEPT !.return_type = type]))
<1>1. \/ Follows(<<")", "identifier">>) /\ Read(2, Ends(tokens[2].value))
      \/ Read(1, Ends("void"))
  BY DEF EndParameters
<1>2. token_lookahead(0).type = ")"
  BY DEF EndParameters, Ahead, token_peek
<1>3. Len(tokens) > 0 /\ tokens[1] = a
  BY <1>2, Shown DEF Shows
<1>4. ReturnAt("void") = <<a>> \o <<>> /\ <<a>> \o <<>> = <<a>>
  BY ListJoin, SmallLists DEF ReturnAt
<1>5. CASE Read(1, Ends("void"))
  <2> HIDE DEF a
  <2>1. \A w : Owes(w, tokens) => Owes(w \o <<a>>, Eaten(1)) /\ <<a>> \in Seq(TextTokens)
    BY <1>3, OneRead
  <2> QED
    BY <1>4, <1>5, <2>1, ParametersEnd
<1>6. CASE Follows(<<")", "identifier">>) /\ Read(2, Ends(tokens[2].value))
  <2> DEFINE type == tokens[2].value
             b == Id(type)
  <2>1. token_lookahead(1).type = "identifier"
    BY <1>6, FollowsThese
  <2>2. Len(tokens) > 1 /\ tokens[2] = b
    BY <2>1, Shown DEF Shows
  <2>3. Read(2, Ends(type))
    BY <1>6
  <2>4. CASE type = "void"
    <3>1. tokens[2] \in Forgotten
      BY <2>2, <2>4 DEF Forgotten
    <3> HIDE DEF a, type
    <3>2. \A w : Owes(w, tokens) => Owes(w \o <<a>>, Eaten(2)) /\ <<a>> \in Seq(TextTokens)
      BY <1>3, <2>2, <3>1, SecondForgotten
    <3> QED
      BY <1>4, <2>3, <2>4, <3>2, ParametersEnd
  <2>5. CASE type # "void"
    <3> HIDE DEF type
    <3>1. ReturnAt(type) = <<a>> \o <<b>>
      BY <2>5 DEF ReturnAt
    <3> HIDE DEF a, b
    <3>2. \A w : Owes(w, tokens) =>
             Owes(w \o <<a, b>>, Eaten(2)) /\ <<a, b>> \in Seq(TextTokens) /\ <<a>> \o <<b>> = <<a, b>>
      BY <1>3, <2>2, TwoRead
    <3> QED
      BY <2>3, <3>1, <3>2, ParametersEnd
  <2> QED
    BY <2>4, <2>5
<1> QED
  BY <1>1, <1>5, <1>6

LEMMA AttributeReads ==
  ASSUME Inv, Reading, Attribute
  PROVE  Reading'
<1> DEFINE f == Last(calls).node
           e == [f EXCEPT !.is_extern = TRUE]
           h == [f EXCEPT !.is_entry = TRUE]
<1>1. outcome = "parsing" /\ Last(calls).at = "attributes" /\ IsStack(calls) /\ IsFunction(f)
  BY InSignature DEF Attribute, In, Inv
<1>2. \/ Follows(<<"@", "identifier">>) /\ token_lookahead(1) = Id("extern") /\ Read(2, With(e))
      \/ Follows(<<"@", "identifier">>) /\ token_lookahead(1) = Id("entry") /\ Read(2, With(h))
      \/ Exit("expected another token") \/ Exit("unexpected identifier for '@...'")
  <2> DEFINE follows == Follows(<<"@", "identifier">>)
             extern  == token_lookahead(1) = Id("extern")
             entry   == token_lookahead(1) = Id("entry")
  <2>1. CASE ~follows
    <3>1. token_lookahead(0).type = "@"
      BY DEF Attribute, Ahead, token_peek
    <3>2. token_lookahead(1).type # "identifier"
      BY <2>1, <3>1, FollowsThese
    <3>3. ~extern /\ ~entry
      BY <3>2 DEF Id
    <3>4. Exit("expected another token")
      BY <2>1, <3>3 DEF Attribute
    <3> QED
      BY <3>4
  <2>2. CASE follows /\ extern
    BY <2>2 DEF Attribute
  <2>3. CASE follows /\ ~extern /\ entry
    BY <2>3 DEF Attribute
  <2>4. CASE follows /\ ~extern /\ ~entry
    BY <2>4 DEF Attribute
  <2> HIDE DEF follows, extern, entry
  <2> QED
    BY <2>1, <2>2, <2>3, <2>4
<1> HIDE DEF f
<1>3. /\ e.parameters = f.parameters /\ e.names = f.names /\ e.name = f.name /\ e.return_type = f.return_type
      /\ h.parameters = f.parameters /\ h.names = f.names /\ h.name = f.name /\ h.return_type = f.return_type
  BY <1>1 DEF IsFunction
<1> HIDE DEF e, h
<1>4. ASSUME NEW node, node.parameters = f.parameters, node.names = f.names, node.name = f.name,
             node.return_type = f.return_type, Read(2, With(node)), Follows(<<"@", "identifier">>),
             token_lookahead(1) \in Forgotten
      PROVE  Reading'
  <2>1. token_lookahead(0).type = "@" /\ token_lookahead(1).type = "identifier"
    BY <1>4, FollowsThese
  <2>2. Len(tokens) > 1 /\ tokens[1] = Token("@")
    BY <2>1, Shown DEF Shows
  <2>3. tokens[1] \in Forgotten /\ tokens[2] \in Forgotten
    <3>1. tokens[1 + 1] = token_lookahead(1) /\ 1 + 1 = 2
      BY <2>1, Looked
    <3>2. Token("@") \in Forgotten
      BY DEF Forgotten
    <3> QED
      BY <1>4, <2>2, <3>1, <3>2
  <2>4. PICK w : Stands(TextTokens, calls, w) /\ Owes(w, tokens)
    BY <1>1, NotExpression
  <2>5. Owes(w, Eaten(2)) /\ w \in Seq(TextTokens)
    BY <1>4, <2>2, <2>3, <2>4, SecondForgotten, StandsWord
  <2>6. PICK g : With(node) = Append(Front(calls), g) /\ g.at = "attributes" /\ g.node = node
    BY <1>1, WithFrame
  <2>7. ASSUME NamesFit(Last(calls))
        PROVE  SoFar(g) = SoFar(Last(calls)) \o <<>> /\ NamesFit(g)
    <3>1. IsList(f.parameters) /\ IsList(f.names) /\ Len(f.names) = Len(f.parameters)
      BY <1>1, <2>7 DEF NamesFit, IsFunction, f
    <3>2. NamesFit(g)
      BY <1>4, <2>6, <3>1 DEF NamesFit
    <3>3. IsList(SignaturePieces(f))
      BY <3>1, Signature
    <3>4. SignaturePieces(node) = SignaturePieces(f)
      BY <1>4 DEF SignaturePieces, ParameterPieces
    <3>5. SoFar(g) = SignaturePieces(node) /\ SoFar(Last(calls)) = SignaturePieces(f)
      BY <1>1, <2>6 DEF SoFar, f
    <3>6. SignaturePieces(f) \o <<>> = SignaturePieces(f)
      BY <3>3, ListJoin
    <3> QED
      BY <3>2, <3>4, <3>5, <3>6
  <2>8. w \o <<>> = w
    BY <2>5
  <2>9. Owes(w \o <<>>, Eaten(2))
    BY <2>5, <2>8
  <2>10. Continues(With(node), 2)
    BY <1>1, <2>4, <2>6, <2>7, <2>9, SpellsNothing, GoesOn
  <2> QED
    BY <1>1, <1>4, <2>10, ReadReads
<1>5. Id("extern") \in Forgotten /\ Id("entry") \in Forgotten
  BY DEF Forgotten
<1>6. CASE Follows(<<"@", "identifier">>) /\ token_lookahead(1) = Id("extern") /\ Read(2, With(e))
  BY <1>3, <1>4, <1>5, <1>6
<1>7. CASE Follows(<<"@", "identifier">>) /\ token_lookahead(1) = Id("entry") /\ Read(2, With(h))
  BY <1>3, <1>4, <1>5, <1>7
<1>8. CASE Exit("expected another token") \/ Exit("unexpected identifier for '@...'")
  BY <1>8, ExitReads
<1> QED
  BY <1>2, <1>6, <1>7, <1>8

\* A node of a call that returns is a statement of the block that called.
LEMMA NodeJoins ==
  ASSUME IsTokens(TextTokens), NEW st, IsStack(st), Last(st).at = "block",
         NEW u, NEW x, Stands(TextTokens, st, u), NEW s, NEW p, Spells(TextTokens, p, x),
         NEW q \in Seq(TextTokens), Pieces(s) = p \o q, p # <<>>, q # <<>>, StatementPieces(s) = <<s>>,
         NEW n, Owes((u \o x) \o q, Eaten(n))
  PROVE  Continues(Joined(st, s), n)
<1>1. Spells(TextTokens, q, q)
  BY SpellsTokens
<1>2. Spells(TextTokens, <<s>>, x \o q)
  BY <1>1, SpellsNode
<1>3. (u \o x) \o q = u \o (x \o q)
  <2>1. u \in Seq(TextTokens) /\ x \in Seq(TextTokens)
    BY StandsWord, SpellsList
  <2> QED
    BY <2>1
<1> QED
  BY <1>2, <1>3, Joins

LEMMA NodeEnters ==
  ASSUME NEW st, IsStack(st), NEW s, NEW n, Continues(Joined(st, s), n), NEW name
  PROVE  Continues(Entered(Joined(st, s), name), n)
<1> DEFINE t == Joined(st, s)
<1>1. PICK w : Stays(t, n, w)
  BY DEF Continues
<1>2. IsList(t) /\ t # <<>> /\ Last(t) = [at |-> Last(t).at, node |-> Last(t).node, symbols |-> Last(t).symbols]
  BY JoinedShape
<1> HIDE DEF t
<1>3. Stands(TextTokens, Entered(t, name), w)
  BY <1>1, <1>2, StandsEntered DEF Stays
<1> QED
  BY <1>1, <1>3 DEF Stays, Continues, t

\* The innermost call and what is below it.
LEMMA PopReads ==
  ASSUME Inv, Reading, Last(calls).at # "expression"
  PROVE  \E u, x : /\ Stands(TextTokens, Front(calls), u) /\ Spells(TextTokens, SoFar(Last(calls)), x)
                   /\ NamesFit(Last(calls)) /\ Owes(u \o x, tokens)
<1>1. PICK w : Stands(TextTokens, calls, w) /\ Owes(w, tokens)
  BY NotExpression
<1>2. IsList(calls) /\ calls # <<>>
  BY DEF Inv, IsStack
<1>3. PICK u, x : Parts(TextTokens, calls, w, u, x)
  BY <1>1, <1>2, StandsPop
<1> QED
  BY <1>1, <1>3 DEF Parts, Fits

LEMMA EndMembersReads ==
  ASSUME Inv, Reading, EndMembers
  PROVE  Reading'
<1> DEFINE f == Last(calls).node
           st == Front(calls)
           types == <<")", ";">>
           a == Token(")")
           b == Token(";")
           c == <<Token("type"), Id(f.name), Token("(")>>
<1>1. outcome = "parsing" /\ Last(calls).at = "members" /\ IsType(f)
  BY Top DEF EndMembers, In, Inv, IsFrame, NodeOf
<1>2. IsStack(st) /\ Last(st).at = "block"
  BY <1>1, Below DEF Calls
<1>3. Declare(types, st, f)
  BY DEF EndMembers
<1>4. PICK u, x : /\ Stands(TextTokens, st, u) /\ Spells(TextTokens, SoFar(Last(calls)), x)
                  /\ NamesFit(Last(calls)) /\ Owes(u \o x, tokens)
  BY <1>1, PopReads
<1>5. IsList(f.members) /\ IsList(f.names) /\ Len(f.names) = Len(f.members) /\ f.kind = "type"
  BY <1>1, <1>4 DEF NamesFit, IsType
<1>6. SoFar(Last(calls)) = MembersSoFar(f)
  BY <1>1 DEF SoFar
<1> HIDE DEF f, st
<1>7. MembersSoFar(f) # <<>>
  <2> DEFINE g == [members |-> Append(f.members, ""), names |-> Append(f.names, "")]
  <2>1. g.members = Append(f.members, "") /\ g.names = Append(f.names, "")
    OBVIOUS
  <2> HIDE DEF g
  <2>2. IsList(MemberPieces(f))
    BY <1>5, <2>1, MemberPiecesAppend
  <2>3. Len(MembersSoFar(f)) > 0
    BY <2>2, ThreeBefore DEF MembersSoFar
  <2> HIDE DEF c
  <2>4. Len(<<>>) = 0 /\ ~(0 > 0)
    OBVIOUS
  <2> QED
    BY <2>3, <2>4
<1>8. ASSUME Follows(types)
      PROVE  Continues(Joined(st, f), 2)
  <2>1. token_lookahead(0).type = ")" /\ token_lookahead(1).type = ";"
    BY <1>8, FollowsThese
  <2>2. Len(tokens) > 1 /\ tokens[1] = a /\ tokens[2] = b
    BY <2>1, Shown DEF Shows
  <2>3. Pieces(f) = MembersSoFar(f) \o <<a, b>> /\ StatementPieces(f) = <<f>>
    BY <1>5 DEF Pieces, StatementPieces, MembersSoFar
  <2> HIDE DEF a, b
  <2>4. Owes((u \o x) \o <<a, b>>, Eaten(2)) /\ <<a, b>> \in Seq(TextTokens) /\ <<a, b>> # <<>>
    BY <1>4, <2>2, TwoRead
  <2> QED
    BY <1>2, <1>4, <1>6, <1>7, <2>3, <2>4, NodeJoins DEF Reading
<1>9. Len(types) = 2
  OBVIOUS
<1> HIDE DEF types
<1> QED
  BY <1>1, <1>2, <1>3, <1>8, <1>9, DeclareReads

\* The signature of a function, and its body.
LEMMA FunctionPieces ==
  ASSUME NEW f, IsFunction(f), IsList(f.names), Len(f.names) = Len(f.parameters)
  PROVE  /\ IsList(SignaturePieces(f)) /\ SignaturePieces(f) # <<>> /\ StatementPieces(f) = <<f>>
         /\ IsList(BodySoFar(f)) /\ BodySoFar(f) # <<>>
         /\ f.is_extern => Pieces(f) = SignaturePieces(f) \o <<Token(";")>>
         /\ ~f.is_extern => Pieces(f) = BodySoFar(f) \o <<Token("}")>>
<1> DEFINE a == SignaturePieces(f)
           b == <<Token("{")>>
           c == BlockPieces(f.block)
           d == <<Token("}")>>
<1>1. f.kind = "function" /\ IsList(f.parameters) /\ IsList(f.block)
  BY DEF IsFunction, IsBlock
<1>2. IsList(a) /\ Len(a) > 0
  BY <1>1, Signature
<1>3. IsList(b) /\ IsList(d) /\ IsList(c)
  BY <1>1, SmallLists, BlockPiecesAppend
<1>4. StatementPieces(f) = <<f>>
  BY <1>1 DEF StatementPieces
<1>5. f.is_extern => Pieces(f) = a \o <<Token(";")>>
  BY <1>1 DEF Pieces
<1>6. ~f.is_extern => Pieces(f) = a \o ((b \o c) \o d)
  BY <1>1 DEF Pieces
<1>7. BodySoFar(f) = (a \o b) \o c
  BY DEF BodySoFar
<1>8. Len(<<>>) = 0 /\ ~(0 > 0)
  OBVIOUS
<1> HIDE DEF a, b, c, d
<1>9. IsList(a \o b) /\ Len(a \o b) = Len(a) + Len(b) /\ Len(a) \in Nat /\ Len(b) \in Nat
  BY <1>2, <1>3, BothLists
<1> DEFINE ab == a \o b
<1>10. IsList(ab) /\ Len(ab) > 0 /\ Len(ab) \in Nat
  BY <1>2, <1>9
<1> HIDE DEF ab
<1>11. IsList(ab \o c) /\ Len(ab \o c) = Len(ab) + Len(c) /\ Len(c) \in Nat
  BY <1>3, <1>10, BothLists
<1> DEFINE abc == ab \o c
<1>12. IsList(abc) /\ Len(abc) > 0
  BY <1>10, <1>11
<1>13. a \o ((b \o c) \o d) = abc \o d
  <2>1. IsList(b \o c)
    BY <1>3, ListJoin
  <2>0. ab \o c = a \o (b \o c)
    BY <1>2, <1>3, ListJoin DEF ab
  <2>2. (a \o (b \o c)) \o d = a \o ((b \o c) \o d)
    <3> DEFINE bc == b \o c
    <3>1. IsList(bc)
      BY <2>1
    <3> HIDE DEF bc
    <3>2. (a \o bc) \o d = a \o (bc \o d)
      BY <1>2, <1>3, <3>1, ListJoin
    <3> QED
      BY <3>2 DEF bc
  <2> QED
    BY <2>0, <2>2
<1>14. BodySoFar(f) = abc
  BY <1>7 DEF ab
<1> HIDE DEF abc
<1>15. abc # <<>> /\ a # <<>>
  BY <1>2, <1>8, <1>12
<1> QED
  BY <1>2, <1>4, <1>5, <1>6, <1>12, <1>13, <1>14, <1>15 DEF a, d

LEMMA CloseBlockReads ==
  ASSUME Inv, Reading, CloseBlock
  PROVE  Reading'
<1> DEFINE f == Last(calls).node
           st == Front(calls)
           c == Token("}")
<1>1. /\ outcome = "parsing" /\ Last(calls).at = "block" /\ IsStack(calls) /\ Len(calls) > 1
      /\ token_lookahead(0).type = "}" /\ Read(1, Joined(st, f))
  BY DEF CloseBlock, AtStatement, In, Ahead, token_peek, Inv
<1>2. IsStack(st) /\ On(Last(st), Last(calls))
  BY <1>1, Shorter
<1>3. Last(st).at = "block" /\ IsFunction(f)
  BY <1>1, <1>2 DEF On, Calls
<1>4. PICK u, x : /\ Stands(TextTokens, st, u) /\ Spells(TextTokens, SoFar(Last(calls)), x)
                  /\ NamesFit(Last(calls)) /\ Owes(u \o x, tokens)
  BY <1>1, PopReads
<1>5. f.kind = "function"
  BY <1>3 DEF IsFunction
<1>6. IsList(f.names) /\ Len(f.names) = Len(f.parameters) /\ ~f.is_extern
  BY <1>1, <1>4, <1>5 DEF NamesFit
<1>7. SoFar(Last(calls)) = BodySoFar(f)
  BY <1>1, <1>5 DEF SoFar
<1> HIDE DEF f, st
<1>8. BodySoFar(f) # <<>> /\ StatementPieces(f) = <<f>> /\ Pieces(f) = BodySoFar(f) \o <<c>>
  BY <1>3, <1>6, FunctionPieces
<1>9. Len(tokens) > 0 /\ tokens[1] = c
  BY <1>1, Shown DEF Shows
<1> HIDE DEF c
<1>10. Owes((u \o x) \o <<c>>, Eaten(1)) /\ <<c>> \in Seq(TextTokens) /\ <<c>> # <<>>
  BY <1>4, <1>9, OneRead
<1>11. Continues(Joined(st, f), 1)
  BY <1>2, <1>3, <1>4, <1>7, <1>8, <1>10, NodeJoins DEF Reading
<1> QED
  BY <1>1, <1>11, ReadReads

LEMMA EndSignatureReads ==
  ASSUME Inv, Reading, EndSignature
  PROVE  Reading'
<1> DEFINE f == Last(calls).node
           st == Front(calls)
           t == Entered(st, f.name)
           g == Active("block", f)
<1>1. outcome = "parsing" /\ Last(calls).at = "attributes" /\ IsStack(calls) /\ IsFunction(f) /\ f.block = <<>>
  BY InSignature DEF EndSignature, In, Inv
<1>2. IsStack(st) /\ Last(st).at = "block"
  BY <1>1, Below DEF Calls
<1>3. \/ Exit("re-declaration of symbol")
      \/ f.is_extern /\ Expect(<<";">>, Entered(Joined(st, f), f.name))
      \/ ~f.is_extern /\ Expect(<<"{">>, Append(t, g))
  BY DEF EndSignature
<1>4. PICK u, x : /\ Stands(TextTokens, st, u) /\ Spells(TextTokens, SoFar(Last(calls)), x)
                  /\ NamesFit(Last(calls)) /\ Owes(u \o x, tokens)
  BY <1>1, PopReads
<1>5. IsList(f.names) /\ Len(f.names) = Len(f.parameters) /\ SoFar(Last(calls)) = SignaturePieces(f)
      /\ f.kind = "function"
  BY <1>1, <1>4 DEF NamesFit, SoFar, IsFunction
<1>6. g.at = "block" /\ g.node = f
  BY DEF Active
<1> HIDE DEF f, st, g
<1>7. CASE Exit("re-declaration of symbol")
  BY <1>7, ExitReads
<1>8. CASE f.is_extern /\ Expect(<<";">>, Entered(Joined(st, f), f.name))
  <2> DEFINE c == Token(";")
  <2>1. ASSUME Follows(<<";">>)
        PROVE  Continues(Entered(Joined(st, f), f.name), 1)
    <3>1. token_lookahead(0).type = ";"
      BY <2>1, FollowsThese
    <3>2. Len(tokens) > 0 /\ tokens[1] = c
      BY <3>1, Shown DEF Shows
    <3>3. SignaturePieces(f) # <<>> /\ StatementPieces(f) = <<f>> /\ Pieces(f) = SignaturePieces(f) \o <<c>>
      BY <1>1, <1>5, <1>8, FunctionPieces
    <3> HIDE DEF c
    <3>4. Owes((u \o x) \o <<c>>, Eaten(1)) /\ <<c>> \in Seq(TextTokens) /\ <<c>> # <<>>
      BY <1>4, <3>2, OneRead
    <3>5. Continues(Joined(st, f), 1)
      BY <1>2, <1>4, <1>5, <3>3, <3>4, NodeJoins DEF Reading
    <3> QED
      BY <1>2, <3>5, NodeEnters
  <2>2. Len(<<";">>) = 1
    OBVIOUS
  <2> QED
    BY <1>1, <1>8, <2>1, <2>2, ExpectReads
<1>9. CASE ~f.is_extern /\ Expect(<<"{">>, Append(t, g))
  <2> DEFINE c == Token("{")
  <2>1. ASSUME Follows(<<"{">>)
        PROVE  Continues(Append(t, g), 1)
    <3>1. token_lookahead(0).type = "{"
      BY <2>1, FollowsThese
    <3>2. Len(tokens) > 0 /\ tokens[1] = c
      BY <3>1, Shown DEF Shows
    <3>3. SoFar(g) = (SignaturePieces(f) \o <<c>>) \o <<>>
      <4>1. BlockPieces(<<>>) = <<>>
        BY DEF BlockPieces, FlattenSeq
      <4> QED
        BY <1>1, <1>5, <1>6, <4>1 DEF SoFar, BodySoFar
    <3> HIDE DEF c
    <3>4. Owes((u \o x) \o <<c>>, Eaten(1)) /\ <<c>> \in Seq(TextTokens) /\ IsTokens(TextTokens)
      BY <1>4, <3>2, OneRead DEF Reading
    <3>5. Spells(TextTokens, <<c>>, <<c>>)
      BY <3>4, SpellsTokens
    <3>6. Spells(TextTokens, SignaturePieces(f) \o <<c>>, x \o <<c>>)
      BY <1>4, <1>5, <3>5, SpellsJoin
    <3>7. (SignaturePieces(f) \o <<c>>) \o <<>> = SignaturePieces(f) \o <<c>>
      <4>1. IsList(SignaturePieces(f) \o <<c>>)
        BY <3>6, SpellsList
      <4> QED
        BY <4>1, ListJoin
    <3>8. NamesFit(g)
      BY <1>5, <1>6, <1>9 DEF NamesFit
    <3>9. Fits(TextTokens, g, x \o <<c>>)
      BY <3>3, <3>6, <3>7, <3>8 DEF Fits
    <3>10. IsList(st) /\ st # <<>> /\ Last(st) = [at |-> Last(st).at, node |-> Last(st).node, symbols |-> Last(st).symbols]
      BY <1>2, Top DEF IsStack, IsFrame
    <3>11. Stands(TextTokens, t, u)
      BY <1>4, <3>10, StandsEntered
    <3>12. IsList(t) /\ t # <<>>
      <4> DEFINE e == [Last(st) EXCEPT !.symbols = @ \cup {f.name}]
      <4>1. t = Append(Front(st), e)
        BY DEF Entered
      <4>2. IsList(Front(st)) /\ Len(Front(st)) \in Nat
        BY <3>10, ListFront, ListLen
      <4> HIDE DEF e, t
      <4>3. IsList(t) /\ Len(t) = Len(Front(st)) + 1
        BY <4>1, <4>2, ListAppend
      <4> QED
        BY <4>2, <4>3
    <3> HIDE DEF t
    <3>13. Stands(TextTokens, Append(t, g), u \o (x \o <<c>>))
      BY <3>9, <3>11, <3>12, StandsPush
    <3>14. u \o (x \o <<c>>) = (u \o x) \o <<c>>
      <4>1. u \in Seq(TextTokens) /\ x \in Seq(TextTokens)
        BY <1>4, StandsWord, SpellsList
      <4> QED
        BY <3>4, <4>1
    <3> QED
      BY <3>4, <3>13, <3>14 DEF Continues, Stays
  <2>2. Len(<<"{">>) = 1
    OBVIOUS
  <2> QED
    BY <1>1, <1>9, <2>1, <2>2, ExpectReads
<1> QED
  BY <1>3, <1>7, <1>8, <1>9

LEMMA UnexpectedReads ==
  ASSUME Inv, Reading, UnexpectedToken
  PROVE  Reading'
BY ExitReads DEF UnexpectedToken

\* Nothing is behind the end.
LEMMA AtTheEnd ==
  ASSUME Inv, Ahead("EOF_OR_INVALID")
  PROVE  tokens = <<>>
<1>1. IsList(tokens) /\ Len(tokens) \in Nat /\ DOMAIN tokens = 1 .. Len(tokens)
  BY ListLen DEF Inv
<1>2. ASSUME 0 < Len(tokens)
      PROVE  FALSE
  <2>1. 1 \in 1 .. Len(tokens) /\ 0 + 1 = 1
    BY <1>1, <1>2
  <2>2. IsToken(tokens[1])
    BY <1>1, <2>1 DEF Inv
  <2>3. tokens[1].type = "EOF_OR_INVALID"
    BY <1>2, <2>1 DEF Ahead, token_peek, token_lookahead
  <2>4. tokens[1] = Invalid
    BY <2>2, <2>3 DEF IsToken, Invalid, Token
  <2> QED
    BY <2>2, <2>4 DEF IsToken
<1>3. Len(tokens) = 0
  BY <1>1, <1>2
<1> QED
  BY <1>1, <1>3 DEF IsList

LEMMA EndOfProgramReads ==
  ASSUME Inv, Reading, EndOfProgram
  PROVE  Reading'
<1>1. /\ Last(calls).at = "block" /\ Len(calls) = 1 /\ Ahead("EOF_OR_INVALID")
      /\ UNCHANGED <<text, tokens, calls, value>>
  BY DEF EndOfProgram, AtStatement, In
<1>2. tokens = <<>>
  BY <1>1, AtTheEnd
<1>3. PICK w, v : Stand(w, v)
  BY DEF Reading
<1>4. Stand(w, v)'
  BY <1>1, <1>3 DEF Stand, Owes, ValuePieces, TextTokens
<1>5. TextTokens' = TextTokens
  BY <1>1 DEF TextTokens
<1> QED
  BY <1>1, <1>2, <1>4, <1>5 DEF Reading

LEMMA NullReads ==
  ASSUME Inv, Reading, NullStatement
  PROVE  Reading'
<1>1. outcome = "parsing" /\ Last(calls).at = "block" /\ IsStack(calls)
  BY DEF NullStatement, AtStatement, In, Inv
<1>2. (calls' = Joined(calls, NoValue) \/ calls' = calls) /\ UNCHANGED <<text, tokens, value, outcome>>
  BY DEF NullStatement
<1>3. PICK w : Stands(TextTokens, calls, w) /\ Owes(w, tokens)
  BY <1>1, NotExpression
<1>4. value = NoValue
  BY <1>1 DEF Reading
<1>5. StatementPieces(NoValue) = <<>>
  BY DEF StatementPieces, NoValue
<1>6. w \o <<>> = w
  <2>1. w \in Seq(TextTokens)
    BY <1>3, StandsWord
  <2> QED
    BY <2>1
<1>7. Stands(TextTokens, calls', w)
  <2>1. CASE calls' = Joined(calls, NoValue)
    <3>1. Stands(TextTokens, Joined(calls, NoValue), w \o <<>>)
      BY <1>1, <1>3, <1>5, SpellsNothing, StandsJoined
    <3> QED
      BY <1>6, <2>1, <3>1
  <2>2. CASE calls' = calls
    BY <1>3, <2>2
  <2> QED
    BY <1>2, <2>1, <2>2
<1>8. TextTokens' = TextTokens
  BY <1>2 DEF TextTokens
<1>9. Stand(w, <<>>)'
  <2>1. Stands(TextTokens', calls', w)
    BY <1>7, <1>8
  <2>2. Spells(TextTokens', ValuePieces', <<>>)
    BY <1>2, <1>4, <1>8, SpellsNothing DEF ValuePieces
  <2>3. Owes(w, tokens)'
    BY <1>2, <1>3, <1>8 DEF Owes
  <2> QED
    BY <1>6, <2>1, <2>2, <2>3 DEF Stand
<1> QED
  BY <1>1, <1>2, <1>4, <1>8, <1>9 DEF Reading

-----------------------------------------------------------------------------
\* Expressions.
LEMMA LeafShown ==
  ASSUME Inv, token_peek.type \in {"string", "number", "identifier"}
  PROVE  Len(tokens) > 0 /\ Pieces(Leaf(tokens[1])) = <<tokens[1]>> /\ Leaf(tokens[1]) # NoValue
<1> DEFINE t == tokens[1]
           type == token_peek.type
<1>1. type = token_lookahead(0).type /\ type \in {"string", "number", "identifier"}
  BY DEF token_peek
<1>2. Len(tokens) > 0 /\ Shows(t, type)
  BY <1>1, Shown
<1> HIDE DEF t, type
<1>3. CASE type = "string"
  <2>1. t = Token("string") /\ t.type = "string"
    BY <1>2, <1>3 DEF Shows
  <2>2. Leaf(t) = Text
    BY <2>1 DEF Leaf
  <2>3. Pieces(Text) = <<Token("string")>> /\ Text # NoValue
    BY DEF Pieces, Text, NoValue
  <2> QED
    BY <1>2, <2>1, <2>2, <2>3 DEF t
<1>4. CASE type = "number"
  <2>1. t = Token("number") /\ t.type = "number"
    BY <1>2, <1>4 DEF Shows
  <2>2. Leaf(t) = Number
    BY <2>1 DEF Leaf
  <2>3. Pieces(Number) = <<Token("number")>> /\ Number # NoValue
    BY DEF Pieces, Number, NoValue
  <2> QED
    BY <1>2, <2>1, <2>2, <2>3 DEF t
<1>5. CASE type = "identifier"
  <2>1. t = Id(t.value) /\ t.type = "identifier"
    BY <1>2, <1>5 DEF Shows
  <2>2. Leaf(t) = Identifier(t.value)
    BY <2>1 DEF Leaf
  <2>3. \A name : Pieces(Identifier(name)) = <<Id(name)>> /\ Identifier(name) # NoValue
    BY DEF Pieces, Identifier, NoValue
  <2> QED
    BY <1>2, <2>1, <2>2, <2>3 DEF t
<1> QED
  BY <1>1, <1>3, <1>4, <1>5

LEMMA OperandReads ==
  ASSUME Inv, Reading, Operand
  PROVE  Reading'
<1> DEFINE node == Leaf(tokens[1])
           t == tokens[1]
<1>1. outcome = "parsing" /\ Last(calls).at = "expression" /\ value = NoValue
  BY DEF Operand, AtOperand, In
<1>2. CASE token_peek.type \in {"string", "number", "identifier"} /\ Got(1, node)
  <2>1. Len(tokens) > 0 /\ Pieces(node) = <<t>> /\ node # NoValue
    BY <1>2, LeafShown
  <2>2. PICK w : Stands(TextTokens, calls, w) /\ Owes(w, tokens)
    BY <1>1, Plain
  <2> HIDE DEF node
  <2>3. Owes(w \o <<t>>, Eaten(1)) /\ t \in TextTokens
    BY <2>1, <2>2, EatOne
  <2> HIDE DEF t
  <2>4. Spells(TextTokens, <<node>>, <<t>>)
    BY <2>1, <2>3, SpellsLeaf DEF Reading
  <2> QED
    BY <1>1, <1>2, <2>1, <2>2, <2>3, <2>4, GotReads
<1>3. CASE Exit("Unexpected token in expression")
  BY <1>3, ExitReads
<1> QED
  BY <1>2, <1>3 DEF Operand

LEMMA FunctionCallReads ==
  ASSUME Inv, Reading, FunctionCall
  PROVE  Reading'
<1> DEFINE node == Call(tokens[1].value, <<>>)
           f == Active("arguments", node)
           a == Id(node.name)
           b == Token("(")
<1>1. /\ outcome = "parsing" /\ Last(calls).at = "expression" /\ value = NoValue /\ IsStack(calls)
      /\ Follows(<<"identifier", "(">>) /\ Read(2, Append(calls, f))
  BY DEF FunctionCall, AtOperand, In, Inv
<1>2. token_lookahead(0).type = "identifier" /\ token_lookahead(1).type = "("
  BY <1>1, FollowsThese
<1>3. node.name = tokens[1].value /\ node.arguments = <<>>
  BY DEF Call
<1>4. Len(tokens) > 1 /\ tokens[1] = a /\ tokens[2] = b
  BY <1>2, <1>3, Shown DEF Shows
<1> HIDE DEF node
<1>5. f.at = "arguments" /\ f.node = node
  BY DEF Active
<1> HIDE DEF f
<1>6. SoFar(f) = <<a, b>> \o <<>>
  BY <1>3, <1>5 DEF SoFar
<1>7. NamesFit(f)
  BY <1>3, <1>5, SmallLists DEF NamesFit
<1> HIDE DEF a, b
<1>8. PICK w : Stands(TextTokens, calls, w) /\ Owes(w, tokens)
  BY <1>1, Plain
<1>9. Owes(w \o <<a, b>>, Eaten(2)) /\ <<a, b>> \in Seq(TextTokens)
  BY <1>4, <1>8, TwoRead
<1>10. <<a, b>> \o <<>> = <<a, b>>
  BY <1>9
<1>11. Fits(TextTokens, f, <<a, b>>)
  BY <1>6, <1>7, <1>9, <1>10, SpellsTokens DEF Fits, Reading
<1>12. Continues(Append(calls, f), 2)
  BY <1>1, <1>8, <1>9, <1>11, Pushes
<1> QED
  BY <1>1, <1>12, ReadReads

LEMMA ArgumentReads ==
  ASSUME Inv, Reading, Argument
  PROVE  Reading'
<1>1. outcome = "parsing" /\ Last(calls).at = "arguments" /\ IsStack(calls) /\ Read(0, Append(calls, Expression))
  BY DEF Argument, In, Inv
<1>2. PICK w : Stands(TextTokens, calls, w) /\ Owes(w, tokens)
  BY <1>1, NotExpression
<1>3. Fits(TextTokens, Expression, <<>>)
  <2>1. Expression.at = "expression" /\ Expression.node = NoValue
    BY DEF Expression, Active
  <2>2. SoFar(Expression) = <<>> /\ NamesFit(Expression)
    BY <2>1 DEF SoFar, NamesFit
  <2> QED
    BY <2>2, SpellsNothing DEF Fits
<1>4. Owes(w \o <<>>, Eaten(0))
  <2>1. Owes(w, Eaten(0)) /\ w \in Seq(TextTokens)
    BY <1>2, NoneEaten, StandsWord
  <2>2. w \o <<>> = w
    BY <2>1
  <2> QED
    BY <2>1, <2>2
<1>5. Continues(Append(calls, Expression), 0)
  BY <1>1, <1>2, <1>3, <1>4, Pushes
<1> QED
  BY <1>1, <1>5, ReadReads

LEMMA EndArgumentsReads ==
  ASSUME Inv, Reading, EndArguments
  PROVE  Reading'
<1> DEFINE f == Last(calls).node
           st == Front(calls)
           a == Id(f.name)
           b == Token("(")
           c == Token(")")
           p == <<a, b>> \o f.arguments
<1>1. /\ outcome = "parsing" /\ Last(calls).at = "arguments" /\ token_lookahead(0).type = ")"
      /\ calls' = st /\ value' = f /\ tokens' = Eaten(1) /\ UNCHANGED <<text, outcome>>
  BY DEF EndArguments, In, Ahead, token_peek
<1>2. Last(st).at = "expression"
  BY <1>1, Below DEF Calls
<1>3. f.kind = "function_call" /\ f # NoValue
  <2>1. f = Call(f.name, f.arguments)
    BY <1>1, Top DEF Inv, IsFrame, NodeOf
  <2> HIDE DEF f
  <2> QED
    BY <2>1 DEF Call, NoValue
<1>4. PICK u, x : /\ Stands(TextTokens, st, u) /\ Spells(TextTokens, SoFar(Last(calls)), x)
                  /\ NamesFit(Last(calls)) /\ Owes(u \o x, tokens)
  BY <1>1, PopReads
<1>5. SoFar(Last(calls)) = p /\ IsList(f.arguments)
  BY <1>1, <1>4 DEF SoFar, NamesFit
<1> HIDE DEF f, st
<1>6. Pieces(f) = p \o <<c>>
  BY <1>3 DEF Pieces
<1>7. Len(tokens) > 0 /\ tokens[1] = c
  BY <1>1, Shown DEF Shows
<1> HIDE DEF a, b, c
<1>8. p # <<>>
  <2>1. IsList(<<a, b>>) /\ Len(<<a, b>>) = 2
    BY SmallLists
  <2>2. Len(p) = Len(<<a, b>>) + Len(f.arguments) /\ Len(f.arguments) \in Nat
    BY <1>5, <2>1, BothLists
  <2>3. Len(<<>>) = 0
    OBVIOUS
  <2> HIDE DEF p
  <2> QED
    BY <2>1, <2>2, <2>3
<1> HIDE DEF p
<1>9. Owes((u \o x) \o <<c>>, Eaten(1)) /\ <<c>> \in Seq(TextTokens) /\ <<c>> # <<>>
  BY <1>4, <1>7, OneRead
<1>10. Spells(TextTokens, <<f>>, x \o <<c>>)
  <2>1. Spells(TextTokens, <<c>>, <<c>>)
    BY <1>9, SpellsTokens DEF Reading
  <2> QED
    BY <1>4, <1>5, <1>6, <1>8, <1>9, <2>1, SpellsNode
<1>11. (u \o x) \o <<c>> = u \o (x \o <<c>>)
  <2>1. u \in Seq(TextTokens) /\ x \in Seq(TextTokens)
    BY <1>4, StandsWord, SpellsList
  <2> QED
    BY <1>9, <2>1
<1>12. TextTokens' = TextTokens
  BY <1>1 DEF TextTokens
<1>13. Stand(u, x \o <<c>>)'
  <2>1. Stands(TextTokens', calls', u)
    BY <1>1, <1>4, <1>12
  <2>2. Spells(TextTokens', ValuePieces', x \o <<c>>)
    BY <1>1, <1>3, <1>10, <1>12 DEF ValuePieces
  <2>3. Owes(u \o (x \o <<c>>), tokens)'
    BY <1>1, <1>9, <1>11, <1>12 DEF Owes
  <2> QED
    BY <2>1, <2>2, <2>3 DEF Stand
<1> QED
  BY <1>1, <1>2, <1>12, <1>13 DEF Reading

LEMMA ThreePieces ==
  ASSUME NEW a, NEW b, NEW c
  PROVE  /\ <<a, b>> \o <<c>> = <<a, b, c>> /\ <<a>> \o <<b, c>> = <<a, b, c>> /\ <<a>> \o <<b>> = <<a, b>>
         /\ <<a>> # <<>> /\ <<a, b>> # <<>>
<1> DEFINE T == {a, b, c}
<1>1. a \in T /\ b \in T /\ c \in T
  OBVIOUS
<1> HIDE DEF T
<1>2. <<a>> \in Seq(T) /\ <<b>> \in Seq(T) /\ <<c>> \in Seq(T)
  BY <1>1
<1>3. <<a, b>> \o <<c>> = <<a, b, c>> /\ <<a, b>> # <<>>
  BY <1>1, ThreeWords
<1>4. <<a>> \o <<b>> = <<a, b>> /\ <<a>> # <<>>
  BY <1>1, PairWord
<1>5. <<b>> \o <<c>> = <<b, c>>
  BY <1>1, PairWord
<1>6. (<<a>> \o <<b>>) \o <<c>> = <<a>> \o (<<b>> \o <<c>>)
  <2> DEFINE x == <<a>>
             y == <<b>>
             z == <<c>>
  <2>1. x \in Seq(T) /\ y \in Seq(T) /\ z \in Seq(T)
    BY <1>2
  <2> HIDE DEF x, y, z
  <2>2. (x \o y) \o z = x \o (y \o z)
    BY <2>1
  <2> QED
    BY <2>2 DEF x, y, z
<1>7. <<a>> \o <<b, c>> = <<a, b, c>>
  BY <1>3, <1>4, <1>5, <1>6
<1> QED
  BY <1>3, <1>4, <1>7

LEMMA DotReads ==
  ASSUME Inv, Reading, DotExpression
  PROVE  Reading'
<1> DEFINE node == Dot(value, tokens[2].value)
           a == Token(".")
           b == Id(tokens[2].value)
<1>1. outcome = "parsing" /\ Last(calls).at = "expression" /\ value # NoValue
  BY DEF DotExpression, AfterOperand, In
<1>2. CASE Follows(<<".", "identifier">>) /\ Got(2, node)
  <2>1. token_lookahead(0).type = "." /\ token_lookahead(1).type = "identifier"
    BY <1>2, FollowsThese
  <2>2. Len(tokens) > 1 /\ tokens[1] = a /\ tokens[2] = b
    BY <2>1, Shown DEF Shows
  <2>3. Pieces(node) = <<value, a, b>> /\ node # NoValue
    BY DEF Pieces, Dot, NoValue
  <2> HIDE DEF node, a, b
  <2>4. <<value>> \o <<a, b>> = <<value, a, b>> /\ <<value>> # <<>>
    BY ThreePieces
  <2>5. PICK w, v : Stand(w, v)
    BY DEF Reading
  <2>6. Stands(TextTokens, calls, w) /\ Spells(TextTokens, <<value>>, v) /\ Owes(w \o v, tokens)
    BY <1>1, <2>5 DEF Stand, ValuePieces
  <2>7. Owes((w \o v) \o <<a, b>>, Eaten(2)) /\ <<a, b>> \in Seq(TextTokens) /\ <<a, b>> # <<>>
    BY <2>2, <2>6, TwoRead
  <2>8. Spells(TextTokens, <<a, b>>, <<a, b>>)
    BY <2>7, SpellsTokens DEF Reading
  <2>9. Spells(TextTokens, <<node>>, v \o <<a, b>>)
    BY <2>3, <2>4, <2>6, <2>7, <2>8, SpellsNode
  <2>10. (w \o v) \o <<a, b>> = w \o (v \o <<a, b>>)
    <3>1. w \in Seq(TextTokens) /\ v \in Seq(TextTokens)
      BY <2>6, StandsWord, SpellsList
    <3> QED
      BY <2>7, <3>1
  <2> QED
    BY <1>1, <1>2, <2>3, <2>6, <2>7, <2>9, <2>10, GotReads
<1>3. CASE Exit("expected another token")
  BY <1>3, ExitReads
<1> QED
  BY <1>2, <1>3 DEF DotExpression

\* What parse_binary_expression has for its left side is written with what its
\* call and the value are written with.
LeftRead(u, z) ==
  /\ Stands(TextTokens, Front(calls), u) /\ Spells(TextTokens, <<Left>>, z) /\ Owes(u \o z, tokens)

LEMMA LeftSpells ==
  ASSUME Inv, Reading, AfterOperand
  PROVE  \E u, z : LeftRead(u, z)
<1> DEFINE node == Last(calls).node
<1>1. Last(calls).at = "expression" /\ value # NoValue
  BY DEF AfterOperand, In
<1>2. PICK w, v : Stand(w, v)
  BY DEF Reading
<1>3. Stands(TextTokens, calls, w) /\ Spells(TextTokens, <<value>>, v) /\ Owes(w \o v, tokens)
  BY <1>1, <1>2 DEF Stand, ValuePieces
<1>4. IsList(calls) /\ calls # <<>>
  BY DEF Inv, IsStack
<1>5. PICK u, x : Parts(TextTokens, calls, w, u, x)
  BY <1>3, <1>4, StandsPop
<1>6. /\ Stands(TextTokens, Front(calls), u) /\ Spells(TextTokens, SoFar(Last(calls)), x) /\ w = u \o x
      /\ u \in Seq(TextTokens) /\ x \in Seq(TextTokens)
  BY <1>5 DEF Parts, Fits
<1>7. v \in Seq(TextTokens)
  BY <1>3, SpellsList
<1>8. CASE node = NoValue
  <2>1. SoFar(Last(calls)) = <<>> /\ Left = value
    BY <1>1, <1>8 DEF SoFar, Left
  <2>2. x = <<>>
    BY <1>6, <2>1, SpellsEmpty
  <2>3. u \o x = u
    BY <1>6, <2>2
  <2>4. LeftRead(u, v)
    BY <1>3, <1>6, <2>1, <2>3 DEF LeftRead
  <2> QED
    BY <2>4
<1>9. CASE node # NoValue
  <2> DEFINE left == [node EXCEPT !.right = value]
             a == node.left
             b == Operator(node.operator)
  <2>1. node = Binary(node.operator, node.left, node.right)
    BY <1>1, <1>9, Top DEF Inv, IsFrame, NodeOf
  <2>2. SoFar(Last(calls)) = <<a, b>> /\ Left = left
    BY <1>1, <1>9 DEF SoFar, Left
  <2> HIDE DEF node
  <2>3. left.kind = "binary" /\ left.left = node.left /\ left.operator = node.operator /\ left.right = value
    BY <2>1 DEF Binary
  <2> HIDE DEF left
  <2>4. Pieces(left) = <<a, b, value>>
    BY <2>3 DEF Pieces
  <2> HIDE DEF a, b
  <2>5. <<a, b>> \o <<value>> = <<a, b, value>> /\ <<a, b>> # <<>>
    BY ThreePieces
  <2>6. <<value>> # <<>>
    BY ThreePieces
  <2>7. Spells(TextTokens, <<left>>, x \o v)
    BY <1>3, <1>6, <2>2, <2>4, <2>5, <2>6, SpellsNode
  <2>8. (u \o x) \o v = u \o (x \o v)
    BY <1>6, <1>7
  <2>9. LeftRead(u, x \o v)
    BY <1>3, <1>6, <2>2, <2>7, <2>8 DEF LeftRead
  <2> QED
    BY <2>9
<1> QED
  BY <1>8, <1>9

LEMMA BinaryReads ==
  ASSUME Inv, Reading, BinaryExpression
  PROVE  Reading'
<1> DEFINE node == Binary(tokens[1].value, Left, NoValue)
           b == Operator(tokens[1].value)
           st == Front(calls)
<1>1. /\ outcome = "parsing" /\ Last(calls).at = "expression" /\ token_lookahead(0).type = "operator"
      /\ Read(1, With(node))
  BY DEF BinaryExpression, AfterOperand, In, Ahead, token_peek
<1>2. PICK u, z : LeftRead(u, z)
  BY LeftSpells DEF BinaryExpression
<1>3. Stands(TextTokens, st, u) /\ Spells(TextTokens, <<Left>>, z) /\ Owes(u \o z, tokens)
  BY <1>2 DEF LeftRead
<1>4. IsStack(st)
  BY <1>1, Below
<1>5. Len(tokens) > 0 /\ tokens[1] = b
  BY <1>1, Shown DEF Shows
<1>6. node.left = Left /\ Operator(node.operator) = b /\ node # NoValue
  BY DEF Binary, NoValue
<1> HIDE DEF node, b
<1>7. PICK g : With(node) = Append(Front(calls), g) /\ g.at = "expression" /\ g.node = node
  BY <1>1, WithFrame
<1>8. SoFar(g) = <<Left, b>> /\ NamesFit(g)
  BY <1>6, <1>7 DEF SoFar, NamesFit
<1>9. <<Left>> \o <<b>> = <<Left, b>>
  BY ThreePieces
<1>10. Owes((u \o z) \o <<b>>, Eaten(1)) /\ <<b>> \in Seq(TextTokens)
  BY <1>3, <1>5, OneRead
<1>11. Spells(TextTokens, <<b>>, <<b>>)
  BY <1>10, SpellsTokens DEF Reading
<1>12. Fits(TextTokens, g, z \o <<b>>)
  BY <1>3, <1>8, <1>9, <1>11, SpellsJoin DEF Fits
<1>13. (u \o z) \o <<b>> = u \o (z \o <<b>>)
  <2>1. u \in Seq(TextTokens) /\ z \in Seq(TextTokens)
    BY <1>3, StandsWord, SpellsList
  <2> QED
    BY <1>10, <2>1
<1>14. Continues(Append(st, g), 1)
  BY <1>3, <1>4, <1>10, <1>12, <1>13, Pushes
<1> HIDE DEF st
<1> QED
  BY <1>1, <1>7, <1>14, ReadReads DEF st

\* The functions that asked for an expression go on with it.
LEMMA EndArgumentReads ==
  ASSUME Inv, Reading, EndArgument
  PROVE  Reading'
<1> DEFINE st == Front(calls)
           f == Last(st)
           h == [f EXCEPT !.node.arguments = Append(@, Left)]
           node == [f.node EXCEPT !.arguments = Append(@, Left)]
           args == f.node.arguments
           a == Id(f.node.name)
           b == Token("(")
<1>1. outcome = "parsing" /\ Last(calls).at = "expression" /\ f.at = "arguments" /\ AfterOperand
  BY DEF EndArgument, Returns, AfterOperand, In, Caller
<1>2. IsStack(st)
  BY <1>1, Below
<1>3. Item(0, Append(Front(st), h))
  BY DEF EndArgument, Caller, Outer
<1>4. PICK u, z : LeftRead(u, z)
  BY <1>1, LeftSpells
<1>5. Stands(TextTokens, st, u) /\ Spells(TextTokens, <<Left>>, z) /\ Owes(u \o z, tokens)
  BY <1>4 DEF LeftRead
<1>6. IsFrame(f)
  BY <1>2, Top
<1>7. f = [at |-> f.at, node |-> f.node, symbols |-> f.symbols] /\ f.node = Call(f.node.name, f.node.arguments)
  BY <1>1, <1>6 DEF IsFrame, NodeOf
<1> HIDE DEF f
<1>8. h = [at |-> f.at, node |-> node, symbols |-> f.symbols]
  BY <1>7, FrameExcept
<1>9. node.name = f.node.name /\ node.arguments = Append(args, Left)
  BY <1>7 DEF Call
<1> HIDE DEF h, node
<1>10. h.at = "arguments" /\ h.node = node
  BY <1>1, <1>8
<1>11. ASSUME NamesFit(f)
       PROVE  SoFar(h) = SoFar(f) \o <<Left>> /\ NamesFit(h)
  <2>1. IsList(args)
    BY <1>1, <1>11 DEF NamesFit
  <2>2. SoFar(f) = <<a, b>> \o args /\ SoFar(h) = <<a, b>> \o node.arguments
    BY <1>1, <1>9, <1>10 DEF SoFar
  <2> HIDE DEF a, b, args
  <2>3. IsList(Append(args, Left))
    BY <2>1, ListAppend
  <2>4. Append(args, Left) = args \o <<Left>>
    <3> DEFINE S == {args[k] : k \in DOMAIN args} \cup {Left}
    <3>1. args \in Seq(S) /\ Left \in S
      BY <2>1, LargerSeq DEF IsList
    <3> HIDE DEF S
    <3> QED
      BY <3>1
  <2>5. (<<a, b>> \o args) \o <<Left>> = <<a, b>> \o (args \o <<Left>>)
    <3>1. IsList(<<a, b>>) /\ IsList(<<Left>>)
      BY SmallLists
    <3> QED
      BY <2>1, <3>1, ListJoin
  <2>6. NamesFit(h)
    BY <1>9, <1>10, <2>3 DEF NamesFit
  <2> QED
    BY <1>9, <2>2, <2>4, <2>5, <2>6
<1>12. Owes(u \o z, Eaten(0))
  BY <1>5, NoneEaten
<1>13. Continues(Append(Front(st), h), 0)
  BY <1>1, <1>2, <1>5, <1>11, <1>12, GoesOn DEF f
<1> QED
  BY <1>1, <1>3, <1>13, ItemReads

\* The caller of the expression, what it has read, and what is below it.
CallerRead(t, x, z) ==
  /\ Stands(TextTokens, Outer, t) /\ Spells(TextTokens, SoFar(Caller), x) /\ Spells(TextTokens, <<Left>>, z)
  /\ Owes((t \o x) \o z, tokens)

LEMMA CallerSpells ==
  ASSUME Inv, Reading, AfterOperand
  PROVE  \E t, x, z : CallerRead(t, x, z)
<1> DEFINE st == Front(calls)
<1>1. Last(calls).at = "expression"
  BY DEF AfterOperand, In
<1>2. IsStack(st)
  BY <1>1, Below
<1>3. IsList(st) /\ st # <<>>
  BY <1>2 DEF IsStack
<1>4. PICK u, z : LeftRead(u, z)
  BY LeftSpells
<1>5. Stands(TextTokens, st, u) /\ Spells(TextTokens, <<Left>>, z) /\ Owes(u \o z, tokens)
  BY <1>4 DEF LeftRead
<1>6. PICK t, x : Parts(TextTokens, st, u, t, x)
  BY <1>3, <1>5, StandsPop
<1>7. Stands(TextTokens, Front(st), t) /\ Spells(TextTokens, SoFar(Last(st)), x) /\ u = t \o x
  BY <1>6 DEF Parts, Fits
<1>8. CallerRead(t, x, z)
  BY <1>5, <1>7 DEF CallerRead, Caller, Outer
<1> QED
  BY <1>8

LEMMA NoNullLeft ==
  ASSUME Inv, AfterOperand
  PROVE  Left # NoValue /\ StatementPieces(Left) = <<Left, Token(";")>>
<1>1. IsExpression(Left)
  BY LeftIsExpression
<1> DEFINE e == Left
<1>2. e.kind \in {"identifier", "function_call", "dot", "binary", "number", "string"}
  BY <1>1 DEF IsExpression
<1> HIDE DEF e
<1>3. e # NoValue
  BY <1>2 DEF NoValue
<1>4. StatementPieces(e) = <<e, Token(";")>>
  BY <1>2 DEF StatementPieces
<1> QED
  BY <1>3, <1>4 DEF e

LEMMA WordsJoin ==
  ASSUME NEW T, NEW x \in Seq(T), NEW y \in Seq(T), NEW z \in Seq(T)
  PROVE  (x \o y) \o z = x \o (y \o z) /\ x \o <<>> = x
OBVIOUS

LEMMA OneMoreIsNotEmpty ==
  ASSUME NEW a, IsList(a), NEW e
  PROVE  a \o <<e>> # <<>>
<1> DEFINE b == <<e>>
           c == a \o b
<1>1. IsList(b) /\ Len(b) = 1
  BY SmallLists
<1> HIDE DEF b
<1>2. Len(c) = Len(a) + Len(b) /\ Len(a) \in Nat
  BY <1>1, BothLists
<1> HIDE DEF c
<1>3. Len(c) # 0 /\ Len(<<>>) = 0
  BY <1>1, <1>2
<1> QED
  BY <1>3 DEF c, b

\* A statement that ends with an expression and a semicolon.
LEMMA StatementEnds ==
  ASSUME Inv, Reading, NEW to, to \in {"variable", "return", "statement"}, Returns(to), Follows(<<";">>), NEW s,
         \/ StatementPieces(s) = <<s>> /\ Pieces(s) = (SoFar(Caller) \o <<Left>>) \o <<Token(";")>>
         \/ SoFar(Caller) = <<>> /\ StatementPieces(s) = <<Left, Token(";")>>
  PROVE  IsStack(Outer) /\ Continues(Joined(Outer, s), 1)
<1> DEFINE c == Token(";")
           e == Left
<1>1. outcome = "parsing" /\ Last(calls).at = "expression" /\ AfterOperand /\ Caller.at = to
  BY DEF Returns, AfterOperand, In
<1>2. IsStack(Outer) /\ Last(Outer).at = "block"
  BY <1>1, BelowOuter
<1>3. PICK t, x, z : CallerRead(t, x, z)
  BY <1>1, CallerSpells
<1>4. /\ Stands(TextTokens, Outer, t) /\ Spells(TextTokens, SoFar(Caller), x) /\ Spells(TextTokens, <<e>>, z)
      /\ Owes((t \o x) \o z, tokens)
  BY <1>3 DEF CallerRead
<1>5. token_lookahead(0).type = ";"
  BY FollowsThese
<1>6. Len(tokens) > 0 /\ tokens[1] = c
  BY <1>5, Shown DEF Shows
<1> HIDE DEF c
<1>7. Owes(((t \o x) \o z) \o <<c>>, Eaten(1)) /\ <<c>> \in Seq(TextTokens) /\ <<c>> # <<>>
  BY <1>4, <1>6, OneRead
<1>8. t \in Seq(TextTokens) /\ x \in Seq(TextTokens) /\ z \in Seq(TextTokens) /\ IsList(SoFar(Caller))
  BY <1>4, StandsWord, SpellsList
<1>9. CASE StatementPieces(s) = <<s>> /\ Pieces(s) = (SoFar(Caller) \o <<Left>>) \o <<Token(";")>>
  <2> DEFINE a == SoFar(Caller)
             p == a \o <<e>>
  <2>1. Spells(TextTokens, p, x \o z)
    BY <1>4, SpellsJoin
  <2>2. p # <<>>
    BY <1>8, OneMoreIsNotEmpty
  <2>3. Pieces(s) = p \o <<c>> /\ StatementPieces(s) = <<s>>
    BY <1>9 DEF c
  <2> HIDE DEF p
  <2>4. ((t \o x) \o z) \o <<c>> = (t \o (x \o z)) \o <<c>>
    <3>1. (t \o x) \o z = t \o (x \o z)
      BY <1>8, WordsJoin
    <3> QED
      BY <3>1
  <2>5. Owes((t \o (x \o z)) \o <<c>>, Eaten(1))
    BY <1>7, <2>4
  <2>6. Continues(Joined(Outer, s), 1)
    BY <1>2, <1>4, <1>7, <2>1, <2>2, <2>3, <2>5, NodeJoins DEF Reading
  <2> QED
    BY <1>2, <2>6
<1>10. CASE SoFar(Caller) = <<>> /\ StatementPieces(s) = <<Left, Token(";")>>
  <2>1. x = <<>>
    BY <1>4, <1>10, SpellsEmpty
  <2>2. t \o x = t
    BY <1>8, <2>1, WordsJoin
  <2>3. Spells(TextTokens, <<c>>, <<c>>)
    BY <1>7, SpellsTokens DEF Reading
  <2>4. <<e>> \o <<c>> = <<e, c>>
    BY ThreePieces
  <2>5. StatementPieces(s) = <<e, c>>
    BY <1>10 DEF c
  <2>6. Spells(TextTokens, StatementPieces(s), z \o <<c>>)
    BY <1>4, <2>3, <2>4, <2>5, SpellsJoin
  <2>7. ((t \o x) \o z) \o <<c>> = t \o (z \o <<c>>)
    <3> DEFINE q == <<c>>
    <3>1. q \in Seq(TextTokens)
      BY <1>7
    <3> HIDE DEF q
    <3>2. (t \o z) \o q = t \o (z \o q)
      BY <1>8, <3>1, WordsJoin
    <3> QED
      BY <2>2, <3>2 DEF q
  <2>8. Owes(t \o (z \o <<c>>), Eaten(1))
    BY <1>7, <2>7
  <2>9. Continues(Joined(Outer, s), 1)
    BY <1>2, <1>4, <2>6, <2>8, Joins
  <2> QED
    BY <1>2, <2>9
<1> QED
  BY <1>9, <1>10

LEMMA EndReturnReads ==
  ASSUME Inv, Reading, EndReturn
  PROVE  Reading'
<1> DEFINE s == Return(Left)
<1>1. outcome = "parsing" /\ Returns("return") /\ AfterOperand /\ Caller.at = "return" /\ Expect(<<";">>, Joined(Outer, s))
  BY DEF EndReturn, Returns, AfterOperand, In
<1>2. SoFar(Caller) = <<Token("return")>>
  BY <1>1 DEF SoFar
<1>3. Left # NoValue
  BY <1>1, NoNullLeft
<1>4. s.kind = "return" /\ s.value = Left
  BY DEF Return
<1> HIDE DEF s
<1>5. StatementPieces(s) = <<s>> /\ Pieces(s) = (SoFar(Caller) \o <<Left>>) \o <<Token(";")>>
  BY <1>2, <1>3, <1>4, PiecesByKind
<1>6. Follows(<<";">>) => Continues(Joined(Outer, s), 1)
  BY <1>1, <1>5, StatementEnds
<1>7. Len(<<";">>) = 1
  OBVIOUS
<1> QED
  BY <1>1, <1>6, <1>7, ExpectReads

LEMMA EndStatementReads ==
  ASSUME Inv, Reading, EndStatement
  PROVE  Reading'
<1>1. outcome = "parsing" /\ Returns("statement") /\ AfterOperand /\ Caller.at = "statement" /\ Expect(<<";">>, Joined(Outer, Left))
  BY DEF EndStatement, Returns, AfterOperand, In
<1>2. SoFar(Caller) = <<>>
  BY <1>1 DEF SoFar
<1>3. StatementPieces(Left) = <<Left, Token(";")>>
  BY <1>1, NoNullLeft
<1>4. Follows(<<";">>) => Continues(Joined(Outer, Left), 1)
  BY <1>1, <1>2, <1>3, StatementEnds
<1>5. Len(<<";">>) = 1
  OBVIOUS
<1> QED
  BY <1>1, <1>4, <1>5, ExpectReads

LEMMA EndVariableReads ==
  ASSUME Inv, Reading, EndVariable
  PROVE  Reading'
<1> DEFINE v == Caller.node
           s == [v EXCEPT !.value = Left]
           a == Id(v.type)
           b == Id(v.name)
           c == Operator("=")
           d == Token(";")
<1>1. outcome = "parsing" /\ Returns("variable") /\ AfterOperand /\ Caller.at = "variable" /\ Declare(<<";">>, Outer, s)
  BY DEF EndVariable, Returns, AfterOperand, In
<1>2. SoFar(Caller) = <<a, b, c>>
  BY <1>1 DEF SoFar
<1>3. Left # NoValue
  BY <1>1, NoNullLeft
<1>4. IsStack(Outer) /\ IsFrame(Caller)
  BY <1>1, BelowOuter DEF AfterOperand, In
<1>5. IsVariable(v)
  BY <1>1, <1>4 DEF IsFrame, NodeOf
<1> HIDE DEF v
<1>6. s.kind = "variable" /\ s.type = v.type /\ s.name = v.name /\ s.value = Left
  BY <1>5 DEF IsVariable, Variable
<1> HIDE DEF s
<1>7. StatementPieces(s) = <<s>> /\ Pieces(s) = (<<a, b>> \o <<c, Left>>) \o <<d>>
  BY <1>3, <1>6, PiecesByKind
<1> DEFINE e == Left
<1> HIDE DEF a, b, c, e
<1>8. <<a, b>> \o <<c, e>> = <<a, b, c>> \o <<e>>
  <2>1. <<c>> \o <<e>> = <<c, e>> /\ <<a, b>> \o <<c>> = <<a, b, c>>
    BY ThreePieces
  <2> DEFINE x == <<a, b>>
             y == <<c>>
             z == <<e>>
  <2>2. IsList(x) /\ IsList(y) /\ IsList(z)
    BY SmallLists
  <2> HIDE DEF x, y, z
  <2>3. (x \o y) \o z = x \o (y \o z)
    BY <2>2, ListJoin
  <2> QED
    BY <2>1, <2>3 DEF x, y, z
<1>9. Pieces(s) = (SoFar(Caller) \o <<Left>>) \o <<Token(";")>>
  BY <1>2, <1>7, <1>8 DEF e, d
<1>10. Follows(<<";">>) => Continues(Joined(Outer, s), 1)
  BY <1>1, <1>7, <1>9, StatementEnds
<1>11. Len(<<";">>) = 1
  OBVIOUS
<1> QED
  BY <1>1, <1>4, <1>10, <1>11, DeclareReads

-----------------------------------------------------------------------------
(***************************************************************************)
(* What is read is what is written                                         *)
(***************************************************************************)
LEMMA NothingStands ==
  ASSUME NEW T
  PROVE  Stands(T, <<>>, <<>>) /\ \A u : Stands(T, <<>>, u) => u = <<>>
<1> DEFINE Q == Seq(T)
<1>1. <<>> \in Seq(Q) /\ Len(<<>>) = 0 /\ 1 .. 0 = {} /\ \A ws \in Seq(Q) : Len(ws) = 0 => ws = <<>>
  OBVIOUS
<1>2. FlattenSeq(<<>>) = <<>>
  BY DEF FlattenSeq
<1> HIDE DEF Q
<1>3. Stands(T, <<>>, <<>>)
  BY <1>1, <1>2 DEF Stands, Rooted, Q
<1>4. ASSUME NEW u, Stands(T, <<>>, u)
      PROVE  u = <<>>
  BY <1>1, <1>2, <1>4 DEF Stands, Q
<1> QED
  BY <1>3, <1>4

LEMMA InitReads == Init => Reading
<1> SUFFICES ASSUME Init
             PROVE  Reading
  OBVIOUS
<1> DEFINE f == Active("block", Program)
           T == TextTokens
<1>1. /\ calls = <<f>> /\ value = NoValue /\ outcome = "parsing" /\ tokens = text /\ text \in Texts
  BY DEF Init
<1>2. text \in Seq(T) /\ \A k \in DOMAIN text : IsToken(text[k])
  BY <1>1, TextsAssumption DEF TextTokens
<1>3. IsTokens(T)
  <2>1. ASSUME NEW t, IsToken(t)
        PROVE  t.kind = "token"
    <3> DEFINE u == [kind |-> "token", type |-> t.type, value |-> t.value]
    <3>1. t = u
      BY <2>1 DEF IsToken
    <3>2. u.kind = "token"
      OBVIOUS
    <3> QED
      BY <3>1, <3>2
  <2> QED
    BY <1>2, <2>1 DEF TextTokens, IsTokens
<1>4. f.at = "block" /\ f.node.kind = "program" /\ f.node.block = <<>>
  BY DEF Active, Program
<1> HIDE DEF f, T
<1>5. SoFar(f) = <<>> /\ NamesFit(f)
  <2>1. BlockPieces(<<>>) = <<>>
    BY DEF BlockPieces, FlattenSeq
  <2> QED
    BY <1>4, <2>1 DEF SoFar, NamesFit
<1>6. Fits(T, f, <<>>)
  BY <1>5, SpellsNothing DEF Fits
<1>7. <<>> \o <<>> = <<>> /\ IsList(<<>>) /\ Append(<<>>, f) = <<f>>
  <2>1. IsList(<<>>)
    BY SmallLists
  <2>2. Append(<<>>, f) = <<f>>
    OBVIOUS
  <2> QED
    BY <2>1, <2>2, ListJoin
<1>8. Stands(T, <<f>>, <<>>)
  <2>1. Stands(T, Append(<<>>, f), <<>> \o <<>>)
    BY <1>4, <1>6, <1>7, NothingStands, StandsPush
  <2> QED
    BY <1>7, <2>1
<1>9. <<>> \o text = text /\ <<>> \in Seq(T) /\ Len(<<>>) = 0 /\ Len(text) \in Nat
  BY <1>2
<1>10. Owes(<<>>, tokens)
  BY <1>1, <1>2, <1>9 DEF Owes, T
<1>11. Stand(<<>>, <<>>)
  BY <1>1, <1>7, <1>8, <1>10, SpellsNothing DEF Stand, ValuePieces, T
<1> QED
  BY <1>1, <1>3, <1>9, <1>11 DEF Reading, T

LEMMA ReadingNext == Inv /\ Reading /\ [Next]_vars => Reading'
<1> SUFFICES ASSUME Inv, Reading, [Next]_vars
             PROVE  Reading'
  OBVIOUS
<1>1. CASE parse_next_statement
  BY <1>1, ReturnReads, VariableReads, ExpressionStatementReads, FunctionReads, ParameterReads,
     EndParametersReads, AttributeReads, EndSignatureReads, CloseBlockReads, TypeReads, MemberReads,
     EndMembersReads, UnexpectedReads, EndOfProgramReads, NullReads DEF parse_next_statement
<1>2. CASE parse_binary_expression
  BY <1>2, OperandReads, FunctionCallReads, ArgumentReads, EndArgumentsReads, DotReads, BinaryReads,
     EndArgumentReads, EndReturnReads, EndVariableReads, EndStatementReads DEF parse_binary_expression
<1>3. CASE UNCHANGED vars
  <2>1. PICK w, v : Stand(w, v)
    BY DEF Reading
  <2>2. Stand(w, v)'
    BY <1>3, <2>1 DEF vars, Stand, Owes, ValuePieces, TextTokens
  <2> QED
    BY <1>3, <2>2 DEF vars, Reading, TextTokens
<1> QED
  BY <1>1, <1>2, <1>3 DEF Next, Halt

\* A program that was read is written with the text it was read from, but for
\* what a tree cannot tell (parser.c:4-242).
THEOREM ReadsWritten == Spec => []ReadsWhatIsWritten
<1>1. Init => Inv /\ Reading
  BY InvInit, InitReads
<1>2. Inv /\ Reading /\ [Next]_vars => (Inv /\ Reading)'
  BY InvNext, ReadingNext
<1>3. Inv /\ Reading => ReadsWhatIsWritten
  <2> SUFFICES ASSUME Inv, Reading, outcome = "done"
               PROVE  Kept(Written(BlockPieces(program), Len(text))) = Kept(text)
    BY DEF ReadsWhatIsWritten
  <2>1. Len(calls) = 1 /\ tokens = <<>> /\ IsTokens(TextTokens) /\ Len(text) \in Nat
    BY DEF Reading
  <2>2. IsList(calls) /\ calls # <<>> /\ calls[1].at = "block"
    BY DEF Inv, IsStack
  <2>3. Last(calls) = calls[1]
    BY <2>1, <2>2, ListFront
  <2>4. value = NoValue
    BY <2>2, <2>3 DEF Reading
  <2>5. PICK w : Stands(TextTokens, calls, w) /\ Owes(w, tokens)
    BY <2>4, Plain
  <2>6. PICK u, x : Parts(TextTokens, calls, w, u, x)
    BY <2>2, <2>5, StandsPop
  <2>7. /\ Stands(TextTokens, Front(calls), u) /\ Spells(TextTokens, SoFar(calls[1]), x)
        /\ x \in Seq(TextTokens) /\ w = u \o x
    BY <2>3, <2>6 DEF Parts, Fits
  <2>8. Front(calls) = <<>>
    <3>1. IsList(Front(calls)) /\ Len(Front(calls)) = 1 - 1
      BY <2>1, <2>2, ListFront
    <3> QED
      BY <3>1 DEF IsList
  <2>9. w = x
    <3>1. u = <<>>
      BY <2>7, <2>8, NothingStands
    <3>2. <<>> \o x = x
      BY <2>7
    <3> QED
      BY <2>7, <3>1, <3>2
  <2>10. SoFar(calls[1]) = BlockPieces(program)
    <3>1. calls[1].node.kind = "program"
      BY <2>2, <2>5 DEF Stands, Rooted
    <3> QED
      BY <2>2, <3>1 DEF SoFar, program
  <2>11. Kept(w) = Kept(text) /\ Len(w) <= Len(text) /\ Len(w) \in Nat
    <3>1. w \o <<>> = w /\ Len(<<>>) = 0 /\ Len(w) \in Nat
      BY <2>7, <2>9
    <3>2. Kept(w \o <<>>) = Kept(text) /\ Len(w) + Len(<<>>) <= Len(text)
      BY <2>1, <2>5 DEF Owes
    <3> QED
      BY <3>1, <3>2
  <2>12. Written(BlockPieces(program), Len(text)) = w
    BY <2>1, <2>7, <2>9, <2>10, <2>11 DEF Spells
  <2> QED
    BY <2>11, <2>12
<1> QED
  BY <1>1, <1>2, <1>3, PTL DEF Spec
=============================================================================
