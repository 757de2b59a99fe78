------------------------- MODULE GraphPrinterProofs -------------------------
(***************************************************************************)
(* What TLAPS proves of GraphPrinter.tla, for every finite set of nodes,   *)
(* every dependency graph over it and every stack that is deep enough: the *)
(* printer gets through exactly the acyclic graphs.                        *)
(***************************************************************************)
EXTENDS GraphPrinter, SequenceTheorems, FiniteSetTheorems, TLAPS

Frame == [node : Node, next : Nat \ {0}]

-----------------------------------------------------------------------------
(* Facts about the graph.                                                  *)

\* The dependencies of a node are nodes.
LEMMA Dependencies ==
  ASSUME TypeOK, NEW n \in Node
  PROVE  /\ dependencies[n] \in Seq(Node)
         /\ Len(dependencies[n]) \in Nat
         /\ DependsOn(n) \subseteq Node
         /\ DependsOn(n) = {dependencies[n][m] : m \in 1 .. Len(dependencies[n])}
<1>1. dependencies[n] \in Seq(Node)
  BY DEF TypeOK
<1> QED
  BY <1>1, RangeOfSeq, RangeEquality, LenProperties DEF DependsOn

\* A node whose dependencies are all grounded is grounded.
LEMMA GroundedNode ==
  ASSUME TypeOK, NEW n \in Node, \A d \in DependsOn(n) : Grounded(d)
  PROVE  Grounded(n)
BY Dependencies DEF Grounded, Circular

\* What a grounded node depends on is grounded: a circular set through a
\* dependency could be extended by the node.
LEMMA GroundedDependency ==
  ASSUME TypeOK, NEW n \in Node, Grounded(n), NEW d \in DependsOn(n)
  PROVE  Grounded(d)
<1>1. SUFFICES ASSUME NEW C \in SUBSET Node, Circular(C), d \in C
               PROVE  FALSE
  BY DEF Grounded
<1>2. Circular(C \cup {n})
  BY <1>1 DEF Circular
<1>3. C \cup {n} \in SUBSET Node
  OBVIOUS
<1> QED
  BY <1>2, <1>3 DEF Grounded

\* The roots are needed, and what a needed node depends on.
LEMMA NeededFacts ==
  ASSUME TypeOK
  PROVE  /\ Needed \subseteq Node
         /\ \A r \in 1 .. Len(graph) : graph[r] \in Needed
         /\ \A n \in Needed : DependsOn(n) \subseteq Needed
<1>1. graph \in Seq(Node) /\ Roots = {graph[r] : r \in 1 .. Len(graph)} /\ Roots \subseteq Node
  BY RangeEquality, RangeOfSeq DEF TypeOK, Roots
<1>2. \A r \in 1 .. Len(graph) : graph[r] \in Needed
  BY <1>1 DEF Needed
<1>3. \A n \in Needed : DependsOn(n) \subseteq Needed
  BY Dependencies DEF Needed, Closed
<1> QED
  BY <1>2, <1>3 DEF Needed

\* If every root is grounded, then so is all they need.
LEMMA GroundedRoots ==
  ASSUME TypeOK, \A r \in 1 .. Len(graph) : Grounded(graph[r])
  PROVE  \A C \in SUBSET Needed : ~Circular(C)
<1> DEFINE G == {n \in Node : Grounded(n)}
<1>1. Roots \subseteq G
  <2>1. graph \in Seq(Node) /\ Roots = {graph[r] : r \in 1 .. Len(graph)} /\ Roots \subseteq Node
    BY RangeEquality, RangeOfSeq DEF TypeOK, Roots
  <2> QED
    BY <2>1
<1>2. Closed(G)
  BY GroundedDependency, Dependencies DEF Closed
<1>3. Needed \subseteq G
  BY <1>1, <1>2 DEF Needed
<1>4. SUFFICES ASSUME NEW C \in SUBSET Needed, Circular(C)
               PROVE  FALSE
  OBVIOUS
<1>5. PICK n \in C : TRUE
  BY <1>4 DEF Circular
<1>6. C \in SUBSET Node
  BY NeededFacts
<1> QED
  BY <1>3, <1>4, <1>5, <1>6 DEF Grounded

\* A path that comes back to where it was has gone round a circular set.
LEMMA CircularPath ==
  ASSUME TypeOK, NEW p, NEW l \in Nat,
         \A k \in 1 .. l : p[k] \in Needed,
         \A k \in 1 .. l - 1 : p[k + 1] \in DependsOn(p[k]),
         NEW a \in 1 .. l, NEW b \in 1 .. l, a < b, p[a] = p[b]
  PROVE  \E C \in SUBSET Needed : Circular(C)
<1> DEFINE C == {p[k] : k \in a .. b - 1}
<1>1. C \in SUBSET Needed
  OBVIOUS
<1>2. p[a] \in C
  OBVIOUS
<1>3. ASSUME NEW k \in a .. b - 1
      PROVE  DependsOn(p[k]) \cap C # {}
  <2>1. p[k + 1] \in DependsOn(p[k])
    OBVIOUS
  <2>2. CASE k + 1 = b
    BY <1>2, <2>1, <2>2
  <2>3. CASE k + 1 # b
    <3>1. k + 1 \in a .. b - 1
      BY <2>3
    <3> QED
      BY <2>1, <3>1
  <2> QED
    BY <2>2, <2>3
<1>4. Circular(C)
  BY <1>2, <1>3 DEF Circular
<1> QED
  BY <1>1, <1>4

\* A path of more nodes than there are visits one of them twice.
LEMMA LongPath ==
  ASSUME TypeOK, NEW p, NEW l \in Nat, l > Cardinality(Node),
         \A k \in 1 .. l : p[k] \in Needed,
         \A k \in 1 .. l - 1 : p[k + 1] \in DependsOn(p[k])
  PROVE  \E C \in SUBSET Needed : Circular(C)
<1> DEFINE f == [k \in 1 .. l |-> p[k]]
<1>1. f \in [1 .. l -> Node]
  BY NeededFacts
<1>2. IsFiniteSet(1 .. l) /\ Cardinality(1 .. l) = l
  <2>1. /\ IsFiniteSet(1 .. l)
        /\ Cardinality(1 .. l) = IF 1 > l THEN 0 ELSE l - 1 + 1
    BY FS_Interval
  <2> QED
    BY <2>1
<1>3. PICK a, b \in 1 .. l : a # b /\ f[a] = f[b]
  <2> HIDE DEF f
  <2> QED
    BY <1>1, <1>2, FS_PigeonHole, DepthAssumption
<1>4. p[a] = p[b]
  BY <1>3
<1>5. CASE a < b
  BY <1>4, <1>5, CircularPath
<1>6. CASE b < a
  BY <1>4, <1>6, CircularPath
<1> QED
  BY <1>3, <1>5, <1>6

-----------------------------------------------------------------------------
(* The stack of calls.                                                     *)

\* The path a stack of calls c walks below the root before r, and what each of
\* them is done with when the one above has only been made now.
PathOf(c, r) ==
  /\ \A k \in 1 .. Len(c) : c[k].node \in Needed
  /\ \A k \in 1 .. Len(c) : c[k].next <= Len(dependencies[c[k].node]) + 1
  /\ \A k \in 1 .. Len(c) - 1 :
       c[k].next > 1 /\ c[k + 1].node = dependencies[c[k].node][c[k].next - 1]
  /\ c # <<>> => r > 1 /\ c[1].node = graph[r - 1]

CallsDone(c) ==
  \A k \in 1 .. Len(c) : \A j \in 1 .. c[k].next - 1 :
    Grounded(dependencies[c[k].node][j]) \/ (k < Len(c) /\ j = c[k].next - 1)

CallsDoneBut(c) ==
  \A k \in 1 .. Len(c) : \A j \in 1 .. c[k].next - 1 :
    Grounded(dependencies[c[k].node][j]) \/ j = c[k].next - 1

\* The node a call is about to be made on, below the calls c and the root r.
Below(c, r, n) ==
  IF c = <<>> THEN r > 1 /\ n = graph[r - 1]
  ELSE /\ c[Len(c)].next > 1
       /\ n = dependencies[c[Len(c)].node][c[Len(c)].next - 1]

\* A call keeps the path.
LEMMA PushPath ==
  ASSUME TypeOK, NEW c \in Seq(Frame), NEW r \in Nat, NEW n \in Needed,
         PathOf(c, r), CallsDoneBut(c), Below(c, r, n)
  PROVE  /\ PathOf(Append(c, Call(n)), r)
         /\ CallsDone(Append(c, Call(n)))
         /\ Append(c, Call(n)) \in Seq(Frame)
         /\ Len(Append(c, Call(n))) = Len(c) + 1
<1> DEFINE L == Len(c)
           d == Append(c, Call(n))
<1>1. Call(n) \in Frame /\ Call(n).node = n /\ Call(n).next = 1
  BY NeededFacts DEF Call, Frame
<1>2. /\ L \in Nat /\ d \in Seq(Frame) /\ Len(d) = L + 1
      /\ \A k \in 1 .. L : d[k] = c[k]
      /\ d[L + 1] = Call(n)
      /\ (c = <<>> <=> L = 0)
      /\ d # <<>>
  BY <1>1, AppendProperties, LenProperties, EmptySeq
<1>3. \A k \in 1 .. L + 1 : k \in 1 .. L \/ k = L + 1
  BY <1>2
<1>4. Len(dependencies[n]) \in Nat
  BY Dependencies, NeededFacts
<1>5. \A k \in 1 .. L + 1 : d[k].node \in Needed
  BY <1>1, <1>2, <1>3 DEF PathOf
<1>6. \A k \in 1 .. L + 1 : d[k].next <= Len(dependencies[d[k].node]) + 1
  <2>1. \A k \in 1 .. L : d[k].next <= Len(dependencies[d[k].node]) + 1
    BY <1>2 DEF PathOf
  <2>2. d[L + 1].next <= Len(dependencies[d[L + 1].node]) + 1
    <3>1. d[L + 1].next = 1 /\ d[L + 1].node = n
      BY <1>1, <1>2
    <3> QED
      BY <1>4, <3>1
  <2> QED
    BY <1>3, <2>1, <2>2
<1>7. ASSUME NEW k \in 1 .. L
      PROVE  d[k].next > 1 /\ d[k + 1].node = dependencies[d[k].node][d[k].next - 1]
  <2>1. CASE k = L
    <3>1. c # <<>> /\ d[k] = c[L] /\ d[k + 1].node = n
      BY <1>1, <1>2, <2>1
    <3> QED
      BY <2>1, <3>1 DEF Below
  <2>2. CASE k # L
    <3>1. k \in 1 .. L - 1 /\ k + 1 \in 1 .. L
      BY <1>2, <2>2
    <3>2. d[k] = c[k] /\ d[k + 1] = c[k + 1]
      BY <1>2, <3>1
    <3> QED
      BY <3>1, <3>2 DEF PathOf
  <2> QED
    BY <2>1, <2>2
<1>8. r > 1 /\ d[1].node = graph[r - 1]
  <2>1. CASE c = <<>>
    BY <1>1, <1>2, <2>1 DEF Below
  <2>2. CASE c # <<>>
    <3>1. d[1] = c[1]
      BY <1>2, <2>2
    <3> QED
      BY <2>2, <3>1 DEF PathOf
  <2> QED
    BY <2>1, <2>2
<1>9. PathOf(d, r)
  <2>1. Len(d) - 1 = L
    BY <1>2
  <2> HIDE DEF L, d
  <2> QED
    BY <1>2, <1>5, <1>6, <1>7, <1>8, <2>1 DEF PathOf
<1>10. CallsDone(d)
  <2>1. SUFFICES ASSUME NEW k \in 1 .. L + 1, NEW j \in 1 .. d[k].next - 1
                 PROVE  Grounded(dependencies[d[k].node][j]) \/ (k < L + 1 /\ j = d[k].next - 1)
    <3> HIDE DEF L, d
    <3> QED
      BY <1>2 DEF CallsDone
  <2>2. CASE k = L + 1
    BY <1>1, <1>2, <2>2
  <2>3. CASE k \in 1 .. L
    <3>1. d[k] = c[k] /\ k < L + 1
      BY <1>2, <2>3
    <3> QED
      BY <2>1, <2>3, <3>1 DEF CallsDoneBut
  <2> QED
    BY <1>3, <2>2, <2>3
<1> QED
  BY <1>2, <1>9, <1>10

\* A call for which there is no room left has walked into a cycle.
LEMMA NoRoom ==
  ASSUME TypeOK, NEW c \in Seq(Frame), NEW r \in Nat, NEW n \in Needed,
         PathOf(c, r), CallsDoneBut(c), Below(c, r, n), ~ (Len(c) < MaxDepth)
  PROVE  \E C \in SUBSET Needed : Circular(C)
<1> DEFINE d == Append(c, Call(n))
           p == [k \in 1 .. Len(c) + 1 |-> d[k].node]
<1>1. PathOf(d, r) /\ Len(d) = Len(c) + 1 /\ d \in Seq(Frame) /\ Len(c) \in Nat
  BY PushPath, LenProperties
<1>2. Cardinality(Node) \in Nat
  BY DepthAssumption, FS_CardinalityType
<1>3. Len(c) + 1 > Cardinality(Node)
  BY <1>1, <1>2, DepthAssumption
<1>4. \A k \in 1 .. Len(c) + 1 : p[k] \in Needed
  <2> HIDE DEF d
  <2> QED
    BY <1>1 DEF PathOf
<1>5. ASSUME NEW k \in 1 .. Len(c)
      PROVE  p[k + 1] \in DependsOn(p[k])
  <2> HIDE DEF d
  <2>1. k \in 1 .. Len(c) + 1 /\ k + 1 \in 1 .. Len(c) + 1 /\ k \in 1 .. Len(d) - 1
    BY <1>1
  <2>2. p[k] = d[k].node /\ p[k + 1] = d[k + 1].node
    BY <2>1
  <2>3. /\ d[k].next > 1
        /\ d[k + 1].node = dependencies[d[k].node][d[k].next - 1]
        /\ d[k].next <= Len(dependencies[d[k].node]) + 1
        /\ d[k].node \in Node
    BY <1>1, <2>1, NeededFacts DEF PathOf
  <2>4. d[k].next \in Nat
    <3>1. k \in 1 .. Len(d)
      BY <1>1, <2>1
    <3>2. d[k] \in Frame
      BY <1>1, <3>1, ElementOfSeq
    <3> QED
      BY <3>2 DEF Frame
  <2>5. d[k].next - 1 \in 1 .. Len(dependencies[d[k].node])
    BY <2>3, <2>4, Dependencies
  <2> QED
    BY <2>2, <2>3, <2>5, Dependencies
<1>6. \A k \in 1 .. (Len(c) + 1) - 1 : p[k + 1] \in DependsOn(p[k])
  <2>1. (Len(c) + 1) - 1 = Len(c)
    BY <1>1
  <2> HIDE DEF p
  <2> QED
    BY <1>5, <2>1
<1>7. Len(c) + 1 \in Nat
  BY <1>1
<1> HIDE DEF p
<1> QED
  BY <1>3, <1>4, <1>6, <1>7, LongPath

-----------------------------------------------------------------------------
(* The invariant.                                                          *)

\* The invariant in the terms of the lemmas above.
LEMMA InvParts ==
  ASSUME TypeOK
  PROVE  /\ Path <=> PathOf(calls, root)
         /\ Returned <=> /\ CallsDone(calls)
                         /\ printing # "overflow" =>
                              \A r \in 1 .. root - 1 :
                                Grounded(graph[r]) \/ (calls # <<>> /\ r = root - 1)
                         /\ printing = "printed" => root > Len(graph) /\ calls = <<>>
<1>1. calls \in Seq(Frame) /\ DOMAIN calls = 1 .. Len(calls)
  BY LenProperties DEF TypeOK, Frame
<1> QED
  BY <1>1 DEF Path, PathOf, Returned, CallsDone

\* The innermost call, when there is one.
LEMMA InnermostCall ==
  ASSUME TypeOK, calls # <<>>, Path
  PROVE  /\ Len(calls) \in Nat \ {0}
         /\ calls \in Seq(Frame)
         /\ Innermost = calls[Len(calls)]
         /\ Innermost.node \in Needed
         /\ Innermost.node \in Node
         /\ Innermost.next \in Nat \ {0}
         /\ Innermost.next <= Len(dependencies[Innermost.node]) + 1
<1>1. calls \in Seq(Frame) /\ Len(calls) \in Nat \ {0}
  BY EmptySeq, LenProperties DEF TypeOK, Frame
<1>2. Len(calls) \in 1 .. Len(calls)
  BY <1>1
<1>3. Innermost \in Frame
  BY <1>1, <1>2, ElementOfSeq DEF Innermost
<1>4. PathOf(calls, root)
  BY InvParts
<1> QED
  BY <1>1, <1>2, <1>3, <1>4, NeededFacts DEF PathOf, Innermost, Frame

\* What the printer has returned from without an overflow was acyclic.
LEMMA InvPrinted == Inv => PrintedIsAcyclic
<1>1. SUFFICES ASSUME Inv, printing = "printed"
               PROVE  \A C \in SUBSET Needed : ~Circular(C)
  BY DEF PrintedIsAcyclic
<1>2. TypeOK /\ Returned
  BY <1>1 DEF Inv
<1>3. /\ root > Len(graph) /\ calls = <<>>
      /\ \A r \in 1 .. root - 1 : Grounded(graph[r])
  BY <1>1, <1>2, InvParts
<1>4. Len(graph) \in Nat /\ root \in Nat
  BY <1>2, LenProperties DEF TypeOK
<1>5. \A r \in 1 .. Len(graph) : Grounded(graph[r])
  BY <1>3, <1>4
<1> QED
  BY <1>2, <1>5, GroundedRoots

LEMMA InvInit == Init => Inv
<1> SUFFICES ASSUME Init
             PROVE  Inv
  OBVIOUS
<1>1. TypeOK
  <2>1. graph \in Seq(Node) /\ dependencies \in [Node -> Seq(Node)]
    BY GraphsAssumption DEF Init
  <2>2. root = 1 /\ calls = <<>> /\ printing = "printing"
    BY DEF Init, Idle
  <2>3. Len(graph) \in Nat
    BY <2>1, LenProperties
  <2>4. calls \in Seq([node : Node, next : Nat \ {0}]) /\ Len(calls) = 0
    BY <2>2, EmptySeq
  <2> QED
    BY <2>1, <2>2, <2>3, <2>4, DepthAssumption DEF TypeOK
<1>2. root = 1 /\ calls = <<>> /\ printing = "printing" /\ Len(calls) = 0
  BY EmptySeq DEF Init, Idle
<1>3. Path /\ Returned
  BY <1>1, <1>2, InvParts DEF PathOf, CallsDone
<1> QED
  BY <1>1, <1>2, <1>3 DEF Inv, OverflowOnlyOnCycle

\* No step touches the graph, nor what is said of the graph alone.
LEMMA SameGraph ==
  ASSUME graph' = graph, dependencies' = dependencies
  PROVE  /\ Needed' = Needed
         /\ \A c, r : PathOf(c, r)' <=> PathOf(c, r)
         /\ \A c : CallsDone(c)' <=> CallsDone(c)
         /\ \A n : Grounded(n)' <=> Grounded(n)
         /\ \A C : Circular(C)' <=> Circular(C)
BY DEF Needed, Roots, Closed, DependsOn, PathOf, CallsDone, Grounded, Circular

\* What a step has to show of the state it leads to.
LEMMA InvNext ==
  ASSUME Inv, graph' = graph, dependencies' = dependencies, TypeOK',
         PathOf(calls', root'), CallsDone(calls'),
         printing' # "overflow" =>
           \A r \in 1 .. root' - 1 :
             Grounded(graph[r]) \/ (calls' # <<>> /\ r = root' - 1),
         printing' = "printed" => root' > Len(graph) /\ calls' = <<>>,
         printing' = "overflow" => \E C \in SUBSET Needed : Circular(C)
  PROVE  Inv'
<1>1. calls' \in Seq(Frame) /\ DOMAIN calls' = 1 .. Len(calls')
  BY LenProperties DEF TypeOK, Frame
<1>2. Path'
  BY <1>1, SameGraph DEF Path, PathOf
<1>3. Returned'
  BY <1>1, SameGraph DEF Returned, CallsDone
<1>4. OverflowOnlyOnCycle'
  BY SameGraph DEF OverflowOnlyOnCycle
<1> QED
  BY <1>2, <1>3, <1>4 DEF Inv

\* A call of print_node, whether or not there is room for it.
LEMMA EnterStep ==
  ASSUME Inv, printing = "printing", graph' = graph, dependencies' = dependencies,
         NEW c \in Seq(Frame), NEW n \in Needed, Enter(n, c),
         root' \in 1 .. Len(graph) + 1, calls # <<>> => root' = root,
         PathOf(c, root'), CallsDoneBut(c), Below(c, root', n),
         \A r \in 1 .. root' - 1 : Grounded(graph[r]) \/ r = root' - 1
  PROVE  Inv'
<1>1. TypeOK /\ PathOf(calls, root) /\ CallsDone(calls)
  BY InvParts DEF Inv
<1>2. root' \in Nat /\ Len(c) \in Nat /\ MaxDepth \in Nat
  BY LenProperties, DepthAssumption
<1>3. CASE Len(c) < MaxDepth
  <2>1. calls' = Append(c, Call(n)) /\ printing' = "printing"
    BY <1>3 DEF Enter
  <2>2. /\ PathOf(calls', root') /\ CallsDone(calls')
        /\ calls' \in Seq(Frame) /\ Len(calls') = Len(c) + 1
    BY <1>1, <1>2, <2>1, PushPath
  <2>3. Len(calls') <= MaxDepth /\ calls' # <<>>
    BY <1>2, <1>3, <2>2, EmptySeq
  <2>4. TypeOK'
    BY <1>1, <2>1, <2>2, <2>3 DEF TypeOK, Frame
  <2> QED
    BY <2>1, <2>2, <2>3, <2>4, InvNext
<1>4. CASE ~ (Len(c) < MaxDepth)
  <2>1. calls' = calls /\ printing' = "overflow"
    BY <1>4 DEF Enter
  <2>2. \E C \in SUBSET Needed : Circular(C)
    BY <1>1, <1>2, <1>4, NoRoom
  <2>3. PathOf(calls, root')
    <3>1. CASE calls = <<>>
      BY <3>1, EmptySeq DEF PathOf
    <3>2. CASE calls # <<>>
      BY <1>1, <3>2
    <3> QED
      BY <3>1, <3>2
  <2>4. TypeOK'
    BY <1>1, <2>1 DEF TypeOK
  <2> QED
    BY <1>1, <2>1, <2>2, <2>3, <2>4, InvNext
<1> QED
  BY <1>3, <1>4

LEMMA PrintRootStep ==
  ASSUME Inv, PrintRoot
  PROVE  Inv'
<1>1. /\ printing = "printing" /\ calls = <<>> /\ root <= Len(graph)
      /\ Enter(graph[root], calls) /\ root' = root + 1
      /\ graph' = graph /\ dependencies' = dependencies
  BY DEF PrintRoot
<1>2. TypeOK /\ Returned /\ Len(graph) \in Nat /\ root \in 1 .. Len(graph)
  BY <1>1, LenProperties DEF Inv, TypeOK
<1>3. graph[root] \in Needed
  BY <1>2, NeededFacts
<1>4. calls \in Seq(Frame) /\ Len(calls) = 0
  BY <1>1, EmptySeq
<1>5. root' \in 1 .. Len(graph) + 1 /\ root' > 1 /\ root' - 1 = root
  BY <1>1, <1>2
<1>6. PathOf(calls, root') /\ CallsDoneBut(calls) /\ Below(calls, root', graph[root])
  BY <1>1, <1>4, <1>5 DEF PathOf, CallsDoneBut, Below
<1>7. \A r \in 1 .. root' - 1 : Grounded(graph[r]) \/ r = root' - 1
  <2>1. \A r \in 1 .. root - 1 : Grounded(graph[r])
    BY <1>1, <1>2, InvParts
  <2>2. \A r \in 1 .. root : r \in 1 .. root - 1 \/ r = root
    BY <1>2
  <2> QED
    BY <1>5, <2>1, <2>2
<1> QED
  BY <1>1, <1>3, <1>4, <1>5, <1>6, <1>7, EnterStep

LEMMA PrintDependencyStep ==
  ASSUME Inv, PrintDependency
  PROVE  Inv'
<1> DEFINE L == Len(calls)
           n == dependencies[Innermost.node][Innermost.next]
           last == [node |-> Innermost.node, next |-> Innermost.next + 1]
           c == [calls EXCEPT ![L] = last]
<1>1. /\ printing = "printing" /\ calls # <<>>
      /\ Innermost.next <= Len(dependencies[Innermost.node])
      /\ Enter(n, c) /\ root' = root
      /\ graph' = graph /\ dependencies' = dependencies
  BY DEF PrintDependency
<1>2. TypeOK /\ Path /\ Returned /\ PathOf(calls, root) /\ CallsDone(calls)
  BY InvParts DEF Inv
<1>3. /\ L \in Nat \ {0} /\ calls \in Seq(Frame) /\ Innermost = calls[L]
      /\ Innermost.node \in Needed /\ Innermost.node \in Node
      /\ Innermost.next \in Nat \ {0}
  BY <1>1, <1>2, InnermostCall
<1>4. Innermost.next \in 1 .. Len(dependencies[Innermost.node])
  BY <1>1, <1>2, <1>3, Dependencies
<1>5. n \in Needed
  <2>1. n \in DependsOn(Innermost.node)
    BY <1>2, <1>3, <1>4, Dependencies
  <2> QED
    BY <1>2, <1>3, <2>1, NeededFacts
<1>6. last \in Frame /\ last.node = Innermost.node /\ last.next = Innermost.next + 1
  BY <1>3 DEF Frame
<1> HIDE DEF n, last
<1>7. /\ c \in Seq(Frame) /\ Len(c) = L /\ c[L] = last
      /\ \A k \in 1 .. L : k # L => c[k] = calls[k]
      /\ c # <<>>
  BY <1>3, <1>6, ExceptSeq, EmptySeq
<1> HIDE DEF c
<1>8. PathOf(c, root)
  <2>1. \A k \in 1 .. L : c[k].node = calls[k].node
    BY <1>3, <1>6, <1>7
  <2>2. \A k \in 1 .. L : c[k].node \in Needed
    BY <1>2, <2>1 DEF PathOf
  <2>3. ASSUME NEW k \in 1 .. L
        PROVE  c[k].next <= Len(dependencies[c[k].node]) + 1
    <3>1. CASE k = L
      BY <1>2, <1>3, <1>4, <1>6, <1>7, <3>1, Dependencies
    <3>2. CASE k # L
      BY <1>2, <1>7, <3>2 DEF PathOf
    <3> QED
      BY <3>1, <3>2
  <2>4. ASSUME NEW k \in 1 .. L - 1
        PROVE  c[k].next > 1 /\ c[k + 1].node = dependencies[c[k].node][c[k].next - 1]
    <3>1. k \in 1 .. L /\ k + 1 \in 1 .. L /\ k # L
      BY <1>3
    <3>2. c[k] = calls[k] /\ c[k + 1].node = calls[k + 1].node
      BY <1>7, <2>1, <3>1
    <3> QED
      BY <1>2, <3>2 DEF PathOf
  <2>5. root > 1 /\ c[1].node = graph[root - 1]
    <3>1. 1 \in 1 .. L
      BY <1>3
    <3> QED
      BY <1>1, <1>2, <2>1, <3>1 DEF PathOf
  <2> HIDE DEF L
  <2> QED
    BY <1>7, <2>2, <2>3, <2>4, <2>5 DEF PathOf
<1>9. CallsDoneBut(c)
  <2>1. SUFFICES ASSUME NEW k \in 1 .. L, NEW j \in 1 .. c[k].next - 1
                 PROVE  Grounded(dependencies[c[k].node][j]) \/ j = c[k].next - 1
    <3> HIDE DEF L
    <3> QED
      BY <1>7 DEF CallsDoneBut
  <2>2. CASE k = L
    <3>1. c[k].next - 1 = calls[L].next /\ c[k].node = calls[L].node
      BY <1>3, <1>6, <1>7, <2>2
    <3>2. CASE j = calls[L].next
      BY <3>1, <3>2
    <3>3. CASE j \in 1 .. calls[L].next - 1
      BY <1>2, <1>3, <3>1, <3>3 DEF CallsDone
    <3> QED
      BY <1>3, <3>1, <3>2, <3>3
  <2>3. CASE k # L
    <3>1. c[k] = calls[k]
      BY <1>7, <2>3
    <3> QED
      BY <1>2, <2>1, <3>1 DEF CallsDone
  <2> QED
    BY <2>2, <2>3
<1>10. Below(c, root, n)
  <2>1. c[L].next > 1 /\ c[L].next - 1 = Innermost.next /\ c[L].node = Innermost.node
    BY <1>3, <1>6, <1>7
  <2> HIDE DEF L
  <2> QED
    BY <1>7, <2>1 DEF Below, n
<1>11. root \in 1 .. Len(graph) + 1
  BY <1>2 DEF TypeOK
<1>12. \A r \in 1 .. root - 1 : Grounded(graph[r]) \/ r = root - 1
  BY <1>1, <1>2, InvParts
<1> QED
  BY <1>1, <1>5, <1>7, <1>8, <1>9, <1>10, <1>11, <1>12, EnterStep

LEMMA EndNodeStep ==
  ASSUME Inv, EndNode
  PROVE  Inv'
<1> DEFINE L == Len(calls)
           c == SubSeq(calls, 1, L - 1)
<1>1. /\ printing = "printing" /\ calls # <<>>
      /\ Innermost.next > Len(dependencies[Innermost.node])
      /\ calls' = c
      /\ root' = root /\ printing' = printing
      /\ graph' = graph /\ dependencies' = dependencies
  BY DEF EndNode
<1>2. TypeOK /\ Path /\ Returned /\ PathOf(calls, root) /\ CallsDone(calls)
  BY InvParts DEF Inv
<1>3. /\ L \in Nat \ {0} /\ calls \in Seq(Frame) /\ Innermost = calls[L]
      /\ Innermost.node \in Node
      /\ Innermost.next \in Nat \ {0}
      /\ Innermost.next <= Len(dependencies[Innermost.node]) + 1
  BY <1>1, <1>2, InnermostCall
<1>4. Grounded(Innermost.node)
  <2>1. Innermost.next - 1 = Len(dependencies[Innermost.node])
    <3>1. Len(dependencies[Innermost.node]) \in Nat
      BY <1>2, <1>3, Dependencies
    <3>2. /\ Innermost.next \in Nat
          /\ Innermost.next > Len(dependencies[Innermost.node])
          /\ Innermost.next <= Len(dependencies[Innermost.node]) + 1
      BY <1>1, <1>3
    <3> QED
      BY <3>1, <3>2
  <2>2. L \in 1 .. L /\ ~ (L < L)
    BY <1>3
  <2>3. \A j \in 1 .. Len(dependencies[Innermost.node]) :
          Grounded(dependencies[Innermost.node][j])
    BY <1>2, <1>3, <2>1, <2>2 DEF CallsDone
  <2>4. \A d \in DependsOn(Innermost.node) : Grounded(d)
    BY <1>2, <1>3, <2>3, Dependencies
  <2> QED
    BY <1>2, <1>3, <2>4, GroundedNode
<1>5. /\ c \in Seq(Frame) /\ Len(c) = L - 1
      /\ \A k \in 1 .. L - 1 : c[k] = calls[k]
  <2>1. calls \in Seq(Frame) /\ Len(calls) = L
    BY <1>3
  <2>2. L \in Nat \ {0}
    BY <1>3
  <2> HIDE DEF L
  <2>3. /\ 1 \in 1 .. L + 1 /\ L - 1 \in 0 .. L /\ L - 1 \in Nat
        /\ \A k \in 1 .. L - 1 : 1 + k - 1 = k
    BY <2>2
  <2> QED
    BY <2>1, <2>2, <2>3, SubSeqProperties
<1>6. c = <<>> <=> L = 1
  <2> HIDE DEF L, c
  <2> QED
    BY <1>3, <1>5, EmptySeq
<1> HIDE DEF c
<1>7. TypeOK'
  <2>1. L - 1 <= MaxDepth
    BY <1>2, <1>3, DepthAssumption DEF TypeOK
  <2> QED
    BY <1>1, <1>2, <1>5, <2>1 DEF TypeOK, Frame
<1>8. \A k \in 1 .. L - 1 : k \in 1 .. L
  BY <1>3
<1>9. PathOf(c, root)
  <2>1. \A k \in 1 .. L - 1 :
          /\ c[k].node \in Needed
          /\ c[k].next <= Len(dependencies[c[k].node]) + 1
    BY <1>2, <1>5, <1>8 DEF PathOf
  <2>2. ASSUME NEW k \in 1 .. (L - 1) - 1
        PROVE  c[k].next > 1 /\ c[k + 1].node = dependencies[c[k].node][c[k].next - 1]
    <3>1. k \in 1 .. L - 1 /\ k + 1 \in 1 .. L - 1
      BY <1>3
    <3> QED
      BY <1>2, <1>5, <3>1 DEF PathOf
  <2>3. c # <<>> => root > 1 /\ c[1].node = graph[root - 1]
    <3>1. L # 1 => 1 \in 1 .. L - 1
      <4> HIDE DEF L
      <4> QED
        BY <1>3
    <3> QED
      BY <1>1, <1>2, <1>5, <1>6, <3>1 DEF PathOf
  <2> HIDE DEF L
  <2> QED
    BY <1>5, <2>1, <2>2, <2>3 DEF PathOf
<1>10. CallsDone(c)
  <2>1. SUFFICES ASSUME NEW k \in 1 .. L - 1, NEW j \in 1 .. c[k].next - 1
                 PROVE  Grounded(dependencies[c[k].node][j]) \/ (k < L - 1 /\ j = c[k].next - 1)
    <3> HIDE DEF L
    <3> QED
      BY <1>5 DEF CallsDone
  <2>2. /\ c[k] = calls[k] /\ k \in 1 .. L
        /\ Grounded(dependencies[calls[k].node][j]) \/ j = calls[k].next - 1
    BY <1>2, <1>5, <1>8, <2>1 DEF CallsDone
  <2>3. CASE k = L - 1 /\ j = calls[k].next - 1
    <3>1. calls[k + 1].node = dependencies[calls[k].node][calls[k].next - 1]
      BY <1>2 DEF PathOf
    <3>2. k + 1 = L
      BY <1>3, <2>3
    <3> QED
      BY <1>3, <1>4, <2>2, <2>3, <3>1, <3>2
  <2>4. CASE k # L - 1
    <3>1. k < L - 1
      BY <1>3, <2>4
    <3> QED
      BY <2>2, <3>1
  <2> QED
    BY <2>2, <2>3, <2>4
<1>11. ASSUME NEW r \in 1 .. root - 1
       PROVE  Grounded(graph[r]) \/ (c # <<>> /\ r = root - 1)
  <2>1. Grounded(graph[r]) \/ r = root - 1
    BY <1>1, <1>2, InvParts
  <2>2. CASE r = root - 1 /\ L = 1
    <3>1. calls[1].node = graph[root - 1]
      BY <1>1, <1>2 DEF PathOf
    <3> QED
      BY <1>3, <1>4, <2>2, <3>1
  <2> QED
    BY <1>6, <2>1, <2>2
<1> QED
  BY <1>1, <1>7, <1>9, <1>10, <1>11, InvNext

LEMMA EndGraphStep ==
  ASSUME Inv, EndGraph
  PROVE  Inv'
<1>1. /\ printing = "printing" /\ calls = <<>> /\ root > Len(graph)
      /\ printing' = "printed" /\ calls' = calls /\ root' = root
      /\ graph' = graph /\ dependencies' = dependencies
  BY DEF EndGraph
<1>2. TypeOK /\ PathOf(calls, root) /\ CallsDone(calls)
  BY InvParts DEF Inv
<1>3. \A r \in 1 .. root - 1 : Grounded(graph[r])
  BY <1>1, <1>2, InvParts DEF Inv
<1>4. TypeOK'
  BY <1>1, <1>2 DEF TypeOK
<1> QED
  BY <1>1, <1>2, <1>3, <1>4, InvNext

LEMMA InvStep == Inv /\ [Next]_vars => Inv'
<1> SUFFICES ASSUME Inv, [Next]_vars
             PROVE  Inv'
  OBVIOUS
<1>1. CASE PrintRoot
  BY <1>1, PrintRootStep
<1>2. CASE PrintDependency
  BY <1>2, PrintDependencyStep
<1>3. CASE EndNode
  BY <1>3, EndNodeStep
<1>4. CASE EndGraph
  BY <1>4, EndGraphStep
<1>5. CASE UNCHANGED vars
  <2>1. /\ graph' = graph /\ dependencies' = dependencies
        /\ root' = root /\ calls' = calls /\ printing' = printing
    BY <1>5 DEF vars, printer_vars
  <2> QED
    BY <2>1 DEF Inv, TypeOK, Path, Returned, OverflowOnlyOnCycle, Grounded, Circular,
                Needed, Roots, Closed, DependsOn
<1> QED
  BY <1>1, <1>2, <1>3, <1>4, <1>5 DEF Next, print_graph, Halt

-----------------------------------------------------------------------------
(* The theorems.                                                           *)

\* The inductive invariant holds of every run of the printer: its calls are a
\* path of the graph, and what they have returned from is grounded
\* (graph.h:144-161).
THEOREM Invariance == Spec => []Inv
BY InvInit, InvStep, PTL DEF Spec

\* The printer gets to the end of acyclic graphs only (graph.h:156-161), so
\* that the phase after it is never handed a cycle (main.c:53).
THEOREM PrintedCorrectness == Spec => []PrintedIsAcyclic
BY InvPrinted, Invariance, PTL

\* It runs out of stack on a real cycle only (graph.h:150-152).
THEOREM OverflowCorrectness == Spec => []OverflowOnlyOnCycle
<1>1. Inv => OverflowOnlyOnCycle
  BY DEF Inv
<1> QED
  BY <1>1, Invariance, PTL

=============================================================================
