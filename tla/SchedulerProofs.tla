-------------------------- MODULE SchedulerProofs ---------------------------
(***************************************************************************)
(* What TLAPS proves of Scheduler.tla, for every set of nodes and every    *)
(* well-formed dependency graph over it.                                   *)
(***************************************************************************)
EXTENDS Scheduler, SequenceTheorems, FiniteSetTheorems, TLAPS

-----------------------------------------------------------------------------
(* Facts about sequences and about the data of the generator.              *)

\* The elements of a sequence without repetitions are as many as its length.
LEMMA InjectiveSeq ==
  ASSUME NEW S, NEW s \in Seq(S), IsInjective(s)
  PROVE  /\ IsFiniteSet(Range(s))
         /\ Cardinality(Range(s)) = Len(s)
<1>1. s \in [1 .. Len(s) -> S] /\ Len(s) \in Nat
  BY LenProperties
<1>2. s \in Bijection(1 .. Len(s), Range(s))
  BY <1>1 DEF Bijection, Injection, Surjection, IsInjective, Range
<1>3. ExistsBijection(1 .. Len(s), Range(s))
  BY <1>2 DEF ExistsBijection
<1>4. \A n \in Nat : IsFiniteSet(1 .. n) /\ Cardinality(1 .. n) = n
  <2>1. SUFFICES ASSUME NEW n \in Nat
                 PROVE  IsFiniteSet(1 .. n) /\ Cardinality(1 .. n) = n
    OBVIOUS
  <2>2. /\ IsFiniteSet(1 .. n)
        /\ Cardinality(1 .. n) = IF 1 > n THEN 0 ELSE n - 1 + 1
    BY FS_Interval
  <2> QED
    BY <2>2
<1> QED
  BY <1>1, <1>3, <1>4, FS_Bijection

\* The dependencies of a node.
LEMMA Dependencies ==
  ASSUME TypeOK, NEW n \in Node
  PROVE  /\ dependencies[n] \in Seq(Node)
         /\ DependsOn(n) \subseteq Node
         /\ DependsOn(n) = {dependencies[n][m] : m \in 1 .. Len(dependencies[n])}
         /\ IsFiniteSet(DependsOn(n))
         /\ Cardinality(DependsOn(n)) = Len(dependencies[n])
<1>1. dependencies[n] \in Seq(Node) /\ IsInjective(dependencies[n])
  BY DEF TypeOK, WellFormed
<1>2. DependsOn(n) \subseteq Node
  BY <1>1, RangeOfSeq DEF DependsOn
<1>3. DependsOn(n) = {dependencies[n][m] : m \in 1 .. Len(dependencies[n])}
  BY <1>1, RangeEquality DEF DependsOn
<1> QED
  BY <1>1, <1>2, <1>3, InjectiveSeq DEF DependsOn

\* The nodes of the graph, and the queue made of them.
LEMMA GraphFacts ==
  ASSUME TypeOK
  PROVE  /\ Len(graph) \in Nat
         /\ DOMAIN graph = 1 .. Len(graph)
         /\ \A k \in 1 .. Len(graph) : graph[k] \in Node /\ graph[k] \in Range(graph)
         /\ \A j, k \in 1 .. Len(graph) : graph[j] = graph[k] => j = k
         /\ Len(queue) \in Nat
         /\ DOMAIN queue = 1 .. Len(queue)
         /\ Range(queue) = {queue[q] : q \in 1 .. Len(queue)}
         /\ \A q \in 1 .. Len(queue) : queue[q] \in Range(graph) /\ queue[q] \in Node
<1>1. graph \in Seq(Node) /\ IsInjective(graph) /\ queue \in Seq(Range(graph))
  BY DEF TypeOK, WellFormed
<1>2. Len(graph) \in Nat /\ DOMAIN graph = 1 .. Len(graph)
  BY <1>1, LenProperties
<1>3. \A k \in 1 .. Len(graph) : graph[k] \in Node /\ graph[k] \in Range(graph)
  BY <1>1, <1>2, ElementOfSeq DEF Range
<1>4. \A j, k \in 1 .. Len(graph) : graph[j] = graph[k] => j = k
  BY <1>1, <1>2 DEF IsInjective
<1>5. Len(queue) \in Nat /\ DOMAIN queue = 1 .. Len(queue)
  BY <1>1, LenProperties
<1>6. Range(queue) = {queue[q] : q \in 1 .. Len(queue)}
  BY <1>5 DEF Range
<1>7. \A q \in 1 .. Len(queue) : queue[q] \in Range(graph)
  BY <1>1, ElementOfSeq
<1>8. Range(graph) \subseteq Node
  BY <1>1, RangeOfSeq
<1> QED
  BY <1>2, <1>3, <1>4, <1>5, <1>6, <1>7, <1>8

\* The queue with one more node of the graph at its end.
LEMMA Enqueue ==
  ASSUME TypeOK, NEW k \in 1 .. Len(graph), NEW longer, longer = Append(queue, graph[k])
  PROVE  /\ longer \in Seq(Range(graph))
         /\ Len(longer) = Len(queue) + 1
         /\ \A q \in 1 .. Len(queue) : longer[q] = queue[q]
         /\ longer[Len(queue) + 1] = graph[k]
         /\ Range(longer) = Range(queue) \cup {graph[k]}
<1>1. queue \in Seq(Range(graph)) /\ graph[k] \in Range(graph)
  BY GraphFacts DEF TypeOK
<1>2. /\ longer \in Seq(Range(graph))
      /\ Len(longer) = Len(queue) + 1
      /\ \A q \in 1 .. Len(queue) : longer[q] = queue[q]
      /\ longer[Len(queue) + 1] = graph[k]
  BY <1>1, AppendProperties
<1>3. Range(longer) = {longer[q] : q \in 1 .. Len(queue) + 1}
  <2>1. DOMAIN longer = 1 .. Len(longer)
    BY <1>2, LenProperties
  <2> QED
    BY <1>2, <2>1 DEF Range
<1>4. Len(queue) \in Nat /\ Range(queue) = {queue[q] : q \in 1 .. Len(queue)}
  BY GraphFacts
<1>5. Range(longer) = Range(queue) \cup {graph[k]}
  <2>1. \A q \in 1 .. Len(queue) + 1 : q \in 1 .. Len(queue) \/ q = Len(queue) + 1
    BY <1>4
  <2>2. \A q \in 1 .. Len(queue) : q \in 1 .. Len(queue) + 1
    BY <1>4
  <2>3. Len(queue) + 1 \in 1 .. Len(queue) + 1
    BY <1>4
  <2> QED
    BY <1>2, <1>3, <1>4, <2>1, <2>2, <2>3
<1> QED
  BY <1>2, <1>5

\* The innermost call, when there is one.
LEMMA TopFrame ==
  ASSUME TypeOK, stack # <<>>
  PROVE  /\ Len(stack) \in Nat \ {0}
         /\ Len(stack) \in DOMAIN stack
         /\ Top \in Frame
         /\ Top.node \in Node
         /\ Top.next \in Nat \ {0}
<1>1. stack \in Seq(Frame)
  BY DEF TypeOK
<1>2. Len(stack) \in Nat \ {0} /\ DOMAIN stack = 1 .. Len(stack)
  BY <1>1, EmptySeq, LenProperties
<1>3. Top \in Frame
  BY <1>1, <1>2, ElementOfSeq DEF Top
<1> QED
  BY <1>2, <1>3 DEF Frame

-----------------------------------------------------------------------------
(* Types.                                                                  *)

\* What a call of generate_thir_for_node leaves well typed.
LEMMA EnterTypes ==
  ASSUME TypeOK, NEW n \in Node, NEW callers \in Seq(Frame), NEW after \in Phases,
         Enter(n, callers, after)
  PROVE  /\ state' \in [Node -> {"UNRESOLVED", "RESOLVING", "RESOLVED"}]
         /\ stack' \in Seq(Frame)
         /\ phase' \in {after, "cyclic"}
<1>1. [node |-> n, next |-> 1] \in Frame
  BY DEF Frame
<1>2. Append(callers, [node |-> n, next |-> 1]) \in Seq(Frame)
  BY <1>1, AppendProperties
<1>3. CASE state[n] = "RESOLVED"
  BY <1>3 DEF Enter, TypeOK
<1>4. CASE state[n] = "RESOLVING"
  BY <1>4 DEF Enter, TypeOK
<1>5. CASE state[n] = "UNRESOLVED"
  BY <1>2, <1>5 DEF Enter, TypeOK
<1>6. state[n] \in {"UNRESOLVED", "RESOLVING", "RESOLVED"}
  BY DEF TypeOK
<1> QED
  BY <1>3, <1>4, <1>5, <1>6

\* The stack of the callers during the loop over the dependencies.
LEMMA AdvancedStack ==
  ASSUME TypeOK, stack # <<>>
  PROVE  /\ Advanced \in Seq(Frame)
         /\ Len(Advanced) = Len(stack)
         /\ \A k \in 1 .. Len(stack) :
              Advanced[k] = IF k = Len(stack)
                            THEN [node |-> Top.node, next |-> Top.next + 1]
                            ELSE stack[k]
<1> DEFINE frame == [node |-> Top.node, next |-> Top.next + 1]
<1>1. frame \in Frame
  BY TopFrame DEF Frame
<1>2. stack \in Seq(Frame) /\ Len(stack) \in 1 .. Len(stack)
  BY TopFrame DEF TypeOK
<1>3. Advanced = [stack EXCEPT ![Len(stack)] = frame]
  BY DEF Advanced
<1> HIDE DEF frame
<1>4. /\ [stack EXCEPT ![Len(stack)] = frame] \in Seq(Frame)
      /\ Len([stack EXCEPT ![Len(stack)] = frame]) = Len(stack)
      /\ \A k \in 1 .. Len(stack) : [stack EXCEPT ![Len(stack)] = frame][k]
                                     = IF k = Len(stack) THEN frame ELSE stack[k]
  BY <1>1, <1>2, ExceptSeq
<1> QED
  BY <1>3, <1>4 DEF frame

\* The stack once the innermost call has returned.
LEMMA PoppedStack ==
  ASSUME TypeOK, stack # <<>>, NEW popped, popped = SubSeq(stack, 1, Len(stack) - 1)
  PROVE  /\ popped \in Seq(Frame)
         /\ Len(popped) = Len(stack) - 1
         /\ \A k \in 1 .. Len(stack) - 1 : popped[k] = stack[k]
<1> DEFINE n == Len(stack) - 1
<1>1. n \in Nat /\ stack \in Seq(Frame)
  BY TopFrame DEF TypeOK
<1>2. \A k \in 1 .. n : stack[k] \in Frame
  BY <1>1, ElementOfSeq
<1>3. popped = SubSeq(stack, 1, n)
  OBVIOUS
<1> HIDE DEF n
<1>4. /\ popped \in Seq(Frame)
      /\ Len(popped) = IF 1 <= n THEN n - 1 + 1 ELSE 0
      /\ \A k \in 1 .. n - 1 + 1 : popped[k] = stack[1 + k - 1]
  BY <1>1, <1>2, <1>3, SubSeqProperties
<1>5. Len(popped) = n
  BY <1>1, <1>4
<1>6. \A k \in 1 .. n : popped[k] = stack[k]
  <2>1. SUFFICES ASSUME NEW k \in 1 .. n
                 PROVE  popped[k] = stack[k]
    OBVIOUS
  <2>2. k \in 1 .. n - 1 + 1 /\ 1 + k - 1 = k
    BY <1>1
  <2> QED
    BY <1>4, <2>2
<1> QED
  BY <1>4, <1>5, <1>6 DEF n

\* Every step keeps the types, and closes all calls between two of them.
LEMMA TypeStep ==
  ASSUME TypeOK, Calls, [Next]_vars
  PROVE  TypeOK' /\ Calls'
<1> USE GraphFacts
<1>1. CASE UNCHANGED vars
  BY <1>1 DEF vars, inputs, TypeOK, Calls
<1>2. CASE Visit
  <2>1. dependencies[Top.node][Top.next] \in Node
    BY <1>2, TopFrame, Dependencies, ElementOfSeq DEF Visit
  <2>2. Advanced \in Seq(Frame)
    BY <1>2, AdvancedStack DEF Visit
  <2>3. phase \in Phases \ {"count", "seed", "kahn", "done"}
    BY <1>2 DEF Visit, TypeOK, Calls, Halted
  <2>4. /\ state' \in [Node -> {"UNRESOLVED", "RESOLVING", "RESOLVED"}]
        /\ stack' \in Seq(Frame)
        /\ phase' \in {phase, "cyclic"}
    BY <1>2, <2>1, <2>2, <2>3, EnterTypes DEF Visit
  <2> QED
    BY <1>2, <2>3, <2>4 DEF Visit, TypeOK, Calls, inputs, Phases, Halted
<1>3. CASE GenerateNode
  <2>1. stack' \in Seq(Frame)
    BY <1>3, PoppedStack DEF GenerateNode
  <2>2. program' \in Seq(Node)
    BY <1>3, TopFrame, AppendProperties DEF GenerateNode, TypeOK
  <2>3. phase \notin {"count", "seed", "kahn", "done"}
    BY <1>3 DEF GenerateNode, Calls, TypeOK
  <2> QED
    BY <1>3, <2>1, <2>2, <2>3 DEF GenerateNode, TypeOK, Calls, inputs
<1>4. CASE FailNode
  BY <1>4 DEF FailNode, TypeOK, Calls, inputs, Phases, Halted
<1>5. CASE CountInDegrees
  <2>1. \A k \in DOMAIN graph : Len(dependencies[graph[k]]) \in Int
    BY Dependencies, LenProperties
  <2> QED
    BY <1>5, <2>1 DEF CountInDegrees, TypeOK, Calls, inputs, Phases
<1>6. CASE SeedQueue
  <2>1. queue' \in Seq(Range(graph))
    BY <1>6, AppendProperties DEF SeedQueue, TypeOK
  <2>2. Len(queue') >= Len(queue)
    BY <1>6, AppendProperties DEF SeedQueue, TypeOK
  <2>3. Len(queue') \in Nat
    BY <2>1, LenProperties
  <2> QED
    BY <1>6, <2>1, <2>2, <2>3 DEF SeedQueue, TypeOK, Calls, inputs
<1>7. CASE EndSeed
  BY <1>7 DEF EndSeed, TypeOK, Calls, inputs, Phases
<1>8. CASE Dequeue
  <2>1. queue[processed + 1] \in Node /\ processed + 1 \in 0 .. Len(queue)
    BY <1>8 DEF Dequeue, TypeOK
  <2>2. /\ state' \in [Node -> {"UNRESOLVED", "RESOLVING", "RESOLVED"}]
        /\ stack' \in Seq(Frame)
        /\ phase' \in {"decrement", "cyclic"}
    BY <1>8, <2>1, EnterTypes DEF Dequeue, TypeOK, Phases
  <2> QED
    BY <1>8, <2>1, <2>2 DEF Dequeue, TypeOK, Calls, inputs, Phases, Halted
<1>9. CASE Decrement
  <2>1. in_degree \in [DOMAIN graph -> Int] /\ i \in DOMAIN graph
    BY <1>9 DEF Decrement, TypeOK
  <2>2. in_degree' \in [DOMAIN graph -> Int]
    BY <1>9, <2>1 DEF Decrement
  <2>3. queue' \in Seq(Range(graph)) /\ Len(queue') >= Len(queue)
    <3>1. CASE queue' = queue
      BY <3>1 DEF TypeOK
    <3>2. CASE queue' = Append(queue, graph[i])
      <4>1. i \in 1 .. Len(graph)
        BY <2>1
      <4>2. queue' \in Seq(Range(graph)) /\ Len(queue') = Len(queue) + 1
        BY <3>2, <4>1, Enqueue
      <4> QED
        BY <4>2
    <3> QED
      BY <1>9, <3>1, <3>2 DEF Decrement
  <2>4. Len(queue') \in Nat
    BY <2>3, LenProperties
  <2> QED
    BY <1>9, <2>2, <2>3, <2>4 DEF Decrement, TypeOK, Calls, inputs
<1>10. CASE EndDecrement
  BY <1>10 DEF EndDecrement, TypeOK, Calls, inputs, Phases
<1>11. CASE EndKahn
  BY <1>11 DEF EndKahn, TypeOK, Calls, inputs, Phases
<1>12. CASE ResolveRest
  <2>1. graph[i] \in Node
    <3>1. Len(graph) \in Nat
      BY GraphFacts
    <3>2. i <= Len(graph) /\ i \in 1 .. Len(graph) + 1
      BY <1>12 DEF ResolveRest, TypeOK
    <3>3. i \in 1 .. Len(graph)
      BY <3>1, <3>2
    <3> QED
      BY <3>3, GraphFacts
  <2>2. /\ state' \in [Node -> {"UNRESOLVED", "RESOLVING", "RESOLVED"}]
        /\ stack' \in Seq(Frame)
        /\ phase' \in {phase, "cyclic"}
    BY <1>12, <2>1, EnterTypes DEF ResolveRest, TypeOK
  <2> QED
    BY <1>12, <2>2 DEF ResolveRest, TypeOK, Calls, inputs, Phases, Halted
<1>13. CASE Return
  BY <1>13 DEF Return, TypeOK, Calls, inputs, Phases, Halted
<1>14. CASE Halt
  BY <1>1, <1>14 DEF Halt
<1> QED
  BY <1>1, <1>2, <1>3, <1>4, <1>5, <1>6, <1>7, <1>8, <1>9, <1>10, <1>11, <1>12,
     <1>13, <1>14 DEF Next, generate_thir_for_node, generate_thir

-----------------------------------------------------------------------------
(* The marks and the stack of calls.                                       *)

\* A call on n, made by callers whose innermost loop stands just behind n.
LEMMA EnterWalk ==
  ASSUME TypeOK, Marks, Walk, NEW n \in Node, NEW after \in Phases,
         NEW callers \in Seq(Frame),
         Len(callers) = Len(stack),
         \A k \in 1 .. Len(stack) :
           /\ callers[k].node = stack[k].node
           /\ callers[k].next <= Len(dependencies[stack[k].node]) + 1
           /\ callers[k].next > 1
           /\ \A m \in 1 .. callers[k].next - 1 :
                \/ state[dependencies[stack[k].node][m]] = "RESOLVED"
                \/ m = callers[k].next - 1
           /\ IF k < Len(stack)
              THEN stack[k + 1].node = dependencies[stack[k].node][callers[k].next - 1]
              ELSE n = dependencies[stack[k].node][callers[k].next - 1],
         Enter(n, callers, after), UNCHANGED inputs, program' = program
  PROVE  Marks' /\ Walk'
<1> DEFINE L == Len(stack)
<1>1. L \in Nat /\ DOMAIN stack = 1 .. L
  BY LenProperties DEF TypeOK
<1>2. dependencies' = dependencies /\ Generated' = Generated
  BY DEF inputs, Generated
<1>3. \A k \in 1 .. L : stack[k].node \in Node /\ callers[k].next \in Nat
  <2>1. \A k \in 1 .. L : stack[k] \in Frame /\ callers[k] \in Frame
    BY ElementOfSeq DEF TypeOK
  <2> QED
    BY <2>1 DEF Frame
<1>4. CASE state[n] = "RESOLVED"
  <2>1. stack' = callers /\ state' = state
    BY <1>4 DEF Enter
  <2>2. DOMAIN stack' = 1 .. L /\ Len(stack') = L
    BY <1>1, <2>1, LenProperties
  <2>3. \A x \in Node : (\E k \in DOMAIN stack' : stack'[k].node = x)
                         <=> (\E k \in DOMAIN stack : stack[k].node = x)
    BY <1>1, <2>1, <2>2
  <2>4. Marks'
    BY <1>2, <2>1, <2>3 DEF Marks
  <2>5. OnceOnStack' /\ LoopBounds'
    <3>1. OnceOnStack'
      BY <1>1, <2>1, <2>2 DEF Walk, OnceOnStack
    <3>2. LoopBounds'
      BY <1>1, <1>2, <2>1, <2>2 DEF LoopBounds
    <3> QED
      BY <3>1, <3>2
  <2>6. Linked'
    <3>1. \A k \in 1 .. L : k < L => stack'[k + 1].node = stack[k + 1].node
      BY <1>1, <2>1
    <3> QED
      BY <1>1, <1>2, <2>1, <2>2, <3>1 DEF Linked
  <2>7. SeenTo'
    <3>1. SUFFICES ASSUME NEW k \in 1 .. L, NEW m \in 1 .. callers[k].next - 1
                   PROVE  \/ state[dependencies[stack[k].node][m]] = "RESOLVED"
                          \/ k < L /\ m = callers[k].next - 1
      BY <1>2, <2>1, <2>2 DEF SeenTo
    <3> QED
      BY <1>1, <1>4
  <2> QED
    BY <2>4, <2>5, <2>6, <2>7 DEF Walk
<1>5. CASE state[n] = "RESOLVING"
  <2>1. stack' = stack /\ state' = state
    BY <1>5 DEF Enter
  <2> QED
    BY <1>2, <2>1 DEF Marks, Walk, OnceOnStack, LoopBounds, Linked, SeenTo
<1>6. CASE state[n] = "UNRESOLVED"
  <2> DEFINE frame == [node |-> n, next |-> 1]
  <2>1. stack' = Append(callers, frame) /\ state' = [state EXCEPT ![n] = "RESOLVING"]
    BY <1>6 DEF Enter
  <2>2. frame \in Frame /\ frame.node = n /\ frame.next = 1
    BY DEF Frame
  <2>3. /\ DOMAIN stack' = 1 .. L + 1 /\ Len(stack') = L + 1
        /\ \A k \in 1 .. L : stack'[k] = callers[k]
        /\ stack'[L + 1] = frame
    BY <1>1, <2>1, <2>2, AppendProperties, LenProperties
  <2>4. \A k \in 1 .. L : stack[k].node # n
    BY <1>1, <1>6 DEF Marks
  <2>5. \A x \in Node : state'[x] = IF x = n THEN "RESOLVING" ELSE state[x]
    BY <2>1 DEF TypeOK
  <2> HIDE DEF frame
  <2>6. /\ \A k \in 1 .. L + 1 : k \in 1 .. L \/ k = L + 1
        /\ \A k \in 1 .. L : /\ k \in 1 .. L + 1
                             /\ stack'[k].node = stack[k].node
                             /\ stack'[k].next = callers[k].next
        /\ L + 1 \in 1 .. L + 1 /\ stack'[L + 1].node = n /\ stack'[L + 1].next = 1
    BY <1>1, <2>2, <2>3
  <2>7. Marks'
    <3>1. SUFFICES ASSUME NEW x \in Node
                   PROVE  /\ state'[x] = "RESOLVING"
                               <=> \E k \in 1 .. L + 1 : stack'[k].node = x
                          /\ state'[x] = "RESOLVED" <=> x \in Generated
      BY <1>2, <2>3 DEF Marks
    <3>2. (\E k \in 1 .. L + 1 : stack'[k].node = x)
            <=> x = n \/ (\E k \in 1 .. L : stack[k].node = x)
      BY <2>6
    <3>3. CASE x = n
      BY <1>6, <2>5, <3>2, <3>3 DEF Marks
    <3>4. CASE x # n
      BY <1>1, <2>5, <3>2, <3>4 DEF Marks
    <3> QED
      BY <3>3, <3>4
  <2>8. OnceOnStack'
    BY <1>1, <2>2, <2>3, <2>4 DEF Walk, OnceOnStack
  <2>9. LoopBounds'
    <3>1. Len(dependencies[n]) \in Nat
      BY Dependencies, LenProperties
    <3>2. SUFFICES ASSUME NEW k \in 1 .. L + 1
                   PROVE  stack'[k].next <= Len(dependencies[stack'[k].node]) + 1
      BY <1>2, <2>3 DEF LoopBounds
    <3>3. CASE k = L + 1
      BY <2>6, <3>1, <3>3
    <3>4. CASE k \in 1 .. L
      BY <2>6, <3>4
    <3> QED
      BY <2>6, <3>3, <3>4
  <2>10. Linked'
    <3>1. SUFFICES ASSUME NEW k \in 1 .. L
                   PROVE  /\ stack'[k].next > 1
                          /\ stack'[k + 1].node
                               = dependencies[stack'[k].node][stack'[k].next - 1]
      BY <1>1, <1>2, <2>3 DEF Linked
    <3>2. CASE k < L
      <4>1. k + 1 \in 1 .. L
        BY <1>1, <3>2
      <4> QED
        BY <2>3, <3>2, <4>1
    <3>3. CASE k = L
      BY <2>2, <2>3, <3>3
    <3> QED
      BY <1>1, <3>2, <3>3
  <2>11. SeenTo'
    <3>1. SUFFICES ASSUME NEW k \in 1 .. L + 1, NEW m \in 1 .. stack'[k].next - 1
                   PROVE  \/ state'[dependencies[stack'[k].node][m]] = "RESOLVED"
                          \/ k < L + 1 /\ m = stack'[k].next - 1
      BY <1>2, <2>3 DEF SeenTo
    <3>2. CASE k = L + 1
      BY <2>2, <2>3, <3>1, <3>2
    <3>3. CASE k \in 1 .. L
      <4>1. stack'[k] = callers[k] /\ stack[k].node \in Node
        BY <1>3, <2>3, <3>3
      <4>2. CASE state[dependencies[stack[k].node][m]] = "RESOLVED"
        <5>1. m \in 1 .. Len(dependencies[stack[k].node])
          BY <1>3, <3>3, <4>1, Dependencies, LenProperties
        <5>2. dependencies[stack[k].node][m] \in Node
          BY <4>1, <5>1, Dependencies, ElementOfSeq
        <5> QED
          BY <1>6, <2>5, <3>3, <4>1, <4>2, <5>2
      <4>3. CASE m = callers[k].next - 1
        BY <1>1, <3>3, <4>1, <4>3
      <4> QED
        BY <3>3, <4>1, <4>2, <4>3
    <3> QED
      BY <1>1, <3>2, <3>3
  <2> QED
    BY <2>7, <2>8, <2>9, <2>10, <2>11 DEF Walk
<1> QED
  BY <1>4, <1>5, <1>6 DEF TypeOK

\* The steps that neither enter nor leave a call of generate_thir_for_node.
Unmoved == UNCHANGED <<graph, dependencies, state, stack, program>>

LEMMA UnmovedSteps ==
  ASSUME \/ FailNode \/ CountInDegrees \/ SeedQueue \/ EndSeed \/ Decrement
         \/ EndDecrement \/ EndKahn \/ Return \/ Halt \/ UNCHANGED vars
  PROVE  Unmoved
BY DEF Unmoved, inputs, vars, FailNode, CountInDegrees, SeedQueue, EndSeed, Decrement,
       EndDecrement, EndKahn, Return, Halt

\* Every step is one of those, or one of four.
LEMMA StepCases ==
  ASSUME [Next]_vars
  PROVE  Unmoved \/ Visit \/ GenerateNode \/ Dequeue \/ ResolveRest
BY UnmovedSteps DEF Next, generate_thir_for_node, generate_thir

\* The call Dequeue or ResolveRest makes is the first one on the stack.
LEMMA FirstCall ==
  ASSUME TypeOK, Calls
  PROVE  /\ Dequeue => /\ stack = <<>>
                       /\ queue[processed + 1] \in Node
                       /\ Enter(queue[processed + 1], stack, "decrement")
         /\ ResolveRest => /\ stack = <<>>
                           /\ graph[i] \in Node
                           /\ Enter(graph[i], stack, phase)
<1>1. Dequeue => queue[processed + 1] \in Node
  BY GraphFacts DEF Dequeue, TypeOK
<1>2. ResolveRest => graph[i] \in Node
  BY GraphFacts DEF ResolveRest, TypeOK
<1> QED
  BY <1>1, <1>2 DEF Dequeue, ResolveRest, Calls

\* The call a loop over the dependencies makes.
LEMMA NextCall ==
  ASSUME TypeOK, Visit, NEW n, n = dependencies[Top.node][Top.next]
  PROVE  /\ Top.next \in 1 .. Len(dependencies[Top.node])
         /\ n \in Node
         /\ n \in DependsOn(Top.node)
         /\ Enter(n, Advanced, phase)
<1>1. Top.next \in 1 .. Len(dependencies[Top.node])
  BY TopFrame, Dependencies, LenProperties DEF Visit
<1>2. n \in Node /\ n \in DependsOn(Top.node)
  BY <1>1, TopFrame, Dependencies, ElementOfSeq DEF Visit
<1> QED
  BY <1>1, <1>2 DEF Visit

\* The program with one more node.
LEMMA ProgramGrows ==
  ASSUME TypeOK, GenerateNode
  PROVE  /\ Len(program) \in Nat /\ DOMAIN program = 1 .. Len(program)
         /\ DOMAIN program' = 1 .. Len(program) + 1
         /\ \A k \in 1 .. Len(program) : program'[k] = program[k]
         /\ program'[Len(program) + 1] = Top.node
         /\ Generated = {program[k] : k \in 1 .. Len(program)}
         /\ Generated' = Generated \cup {Top.node}
<1>1. Top.node \in Node /\ program \in Seq(Node) /\ program' = Append(program, Top.node)
  BY TopFrame DEF GenerateNode, TypeOK
<1>2. /\ Len(program) \in Nat /\ DOMAIN program = 1 .. Len(program)
      /\ DOMAIN program' = 1 .. Len(program) + 1
      /\ \A k \in 1 .. Len(program) : program'[k] = program[k]
      /\ program'[Len(program) + 1] = Top.node
  BY <1>1, AppendProperties, LenProperties
<1>3. /\ Generated = {program[k] : k \in 1 .. Len(program)}
      /\ Generated' = {program'[k] : k \in 1 .. Len(program) + 1}
  BY <1>2 DEF Generated, Range
<1>4. /\ \A k \in 1 .. Len(program) + 1 : k \in 1 .. Len(program) \/ k = Len(program) + 1
      /\ \A k \in 1 .. Len(program) : k \in 1 .. Len(program) + 1
      /\ Len(program) + 1 \in 1 .. Len(program) + 1
  BY <1>2
<1>5. Generated' = Generated \cup {Top.node}
  BY <1>2, <1>3, <1>4
<1> QED
  BY <1>2, <1>3, <1>5

LEMMA WalkStep ==
  ASSUME TypeOK, Calls, Marks, Walk, [Next]_vars
  PROVE  Marks' /\ Walk'
<1>1. CASE Unmoved
  <2>1. Generated' = Generated
    BY <1>1 DEF Unmoved, Generated
  <2> QED
    BY <1>1, <2>1 DEF Unmoved, Marks, Walk, OnceOnStack, LoopBounds, Linked, SeenTo
<1>2. CASE Visit
  <2> DEFINE L == Len(stack)
             n == dependencies[Top.node][Top.next]
  <2>1. /\ Top.next \in 1 .. Len(dependencies[Top.node])
        /\ n \in Node
        /\ Enter(n, Advanced, phase)
    BY <1>2, NextCall
  <2>2. L \in Nat \ {0} /\ DOMAIN stack = 1 .. L /\ Len(stack) = L /\ stack[L] = Top
    BY <1>2, TopFrame, LenProperties DEF Visit, TypeOK, Top
  <2>3. /\ Advanced \in Seq(Frame) /\ Len(Advanced) = L
        /\ \A k \in 1 .. L : Advanced[k] = IF k = L
                THEN [node |-> Top.node, next |-> Top.next + 1] ELSE stack[k]
    BY <1>2, AdvancedStack DEF Visit
  <2>4. UNCHANGED inputs /\ program' = program /\ phase \in Phases
    BY <1>2 DEF Visit, TypeOK
  <2>5. Len(dependencies[Top.node]) \in Nat
    BY <1>2, TopFrame, Dependencies, LenProperties DEF Visit
  <2> HIDE DEF n, L
  <2>6. ASSUME NEW k \in 1 .. L
        PROVE  /\ Advanced[k].node = stack[k].node
               /\ Advanced[k].next <= Len(dependencies[stack[k].node]) + 1
               /\ Advanced[k].next > 1
               /\ \A m \in 1 .. Advanced[k].next - 1 :
                    \/ state[dependencies[stack[k].node][m]] = "RESOLVED"
                    \/ m = Advanced[k].next - 1
               /\ IF k < L
                  THEN stack[k + 1].node = dependencies[stack[k].node][Advanced[k].next - 1]
                  ELSE n = dependencies[stack[k].node][Advanced[k].next - 1]
    <3>1. CASE k < L
      <4>1. Advanced[k] = stack[k]
        BY <2>2, <2>3, <3>1
      <4>2. stack[k].next <= Len(dependencies[stack[k].node]) + 1
        BY <2>2 DEF Walk, LoopBounds
      <4>3. stack[k].next > 1
            /\ stack[k + 1].node = dependencies[stack[k].node][stack[k].next - 1]
        BY <2>2, <3>1 DEF Walk, Linked
      <4>4. \A m \in 1 .. stack[k].next - 1 :
              \/ state[dependencies[stack[k].node][m]] = "RESOLVED"
              \/ m = stack[k].next - 1
        BY <2>2 DEF Walk, SeenTo
      <4> QED
        BY <3>1, <4>1, <4>2, <4>3, <4>4
    <3>2. CASE k = L
      <4>1. Advanced[k].node = Top.node /\ Advanced[k].next = Top.next + 1
        BY <2>3, <3>2
      <4>2. stack[k] = Top
        BY <2>2, <3>2
      <4>3. \A m \in 1 .. Top.next - 1 : state[dependencies[Top.node][m]] = "RESOLVED"
        BY <2>2, <3>2, <4>2 DEF Walk, SeenTo
      <4>4. \A m \in 1 .. Top.next : m \in 1 .. Top.next - 1 \/ m = Top.next
        BY <2>1, <2>5
      <4>5. Top.next + 1 - 1 = Top.next /\ Top.next + 1 > 1
            /\ Top.next + 1 <= Len(dependencies[Top.node]) + 1
        BY <2>1, <2>5
      <4>6. ~ (k < L)
        BY <2>2, <3>2
      <4>7. n = dependencies[Top.node][Top.next]
        BY DEF n
      <4>8. Advanced[k].next - 1 = Top.next
        BY <2>1, <2>5, <4>1
      <4>9. \A m \in 1 .. Advanced[k].next - 1 :
              \/ state[dependencies[stack[k].node][m]] = "RESOLVED"
              \/ m = Advanced[k].next - 1
        BY <4>2, <4>3, <4>4, <4>8
      <4>10. n = dependencies[stack[k].node][Advanced[k].next - 1]
        BY <4>2, <4>7, <4>8
      <4> QED
        BY <4>1, <4>2, <4>5, <4>6, <4>9, <4>10
    <3> QED
      BY <2>2, <3>1, <3>2
  <2>7. \A k \in 1 .. L :
               /\ Advanced[k].node = stack[k].node
               /\ Advanced[k].next <= Len(dependencies[stack[k].node]) + 1
               /\ Advanced[k].next > 1
               /\ \A m \in 1 .. Advanced[k].next - 1 :
                    \/ state[dependencies[stack[k].node][m]] = "RESOLVED"
                    \/ m = Advanced[k].next - 1
               /\ IF k < L
                  THEN stack[k + 1].node = dependencies[stack[k].node][Advanced[k].next - 1]
                  ELSE n = dependencies[stack[k].node][Advanced[k].next - 1]
    BY <2>6
  <2> QED
    BY <2>1, <2>2, <2>3, <2>4, <2>7, EnterWalk
<1>3. CASE GenerateNode
  <2> DEFINE L == Len(stack)
  <2>1. /\ L \in Nat \ {0} /\ DOMAIN stack = 1 .. L
        /\ Top.node \in Node /\ stack[L] = Top /\ Len(stack) = L
    BY <1>3, TopFrame, LenProperties DEF GenerateNode, TypeOK, Top
  <2>2. /\ Len(stack') = L - 1 /\ DOMAIN stack' = 1 .. L - 1
        /\ \A k \in 1 .. L - 1 : stack'[k] = stack[k]
    BY <1>3, PoppedStack, LenProperties DEF GenerateNode
  <2> HIDE DEF L
  <2>3. /\ dependencies' = dependencies
        /\ \A x \in Node : state'[x] = IF x = Top.node THEN "RESOLVED" ELSE state[x]
    BY <1>3, <2>1 DEF GenerateNode, inputs, TypeOK
  <2>4. Generated' = Generated \cup {Top.node}
    BY <1>3, ProgramGrows
  <2>5. \A k \in 1 .. L : k \in 1 .. L - 1 \/ k = L
    BY <2>1
  <2>6. \A k \in 1 .. L - 1 : k \in 1 .. L /\ k # L /\ stack[k].node # Top.node
    BY <2>1 DEF Walk, OnceOnStack
  <2>7. Marks'
    <3>1. SUFFICES ASSUME NEW x \in Node
                   PROVE  /\ state'[x] = "RESOLVING"
                               <=> \E k \in 1 .. L - 1 : stack[k].node = x
                          /\ state'[x] = "RESOLVED" <=> x \in Generated \cup {Top.node}
      BY <2>2, <2>4 DEF Marks
    <3>2. CASE x = Top.node
      BY <2>3, <2>6, <3>2
    <3>3. CASE x # Top.node
      <4>1. (\E k \in 1 .. L : stack[k].node = x) <=> (\E k \in 1 .. L - 1 : stack[k].node = x)
        BY <2>1, <2>5, <2>6, <3>3
      <4> QED
        BY <2>1, <2>3, <3>3, <4>1 DEF Marks
    <3> QED
      BY <3>2, <3>3
  <2>8. OnceOnStack' /\ LoopBounds'
    <3>1. OnceOnStack'
      BY <2>1, <2>2, <2>6 DEF Walk, OnceOnStack
    <3>2. LoopBounds'
      BY <2>1, <2>2, <2>3, <2>6 DEF Walk, LoopBounds
    <3> QED
      BY <3>1, <3>2
  <2>9. Linked'
    <3>1. SUFFICES ASSUME NEW k \in 1 .. L - 1, k < L - 1
                   PROVE  /\ stack[k].next > 1
                          /\ stack[k + 1].node
                               = dependencies[stack[k].node][stack[k].next - 1]
      <4>1. \A k \in 1 .. L - 1 : k < L - 1 => k + 1 \in 1 .. L - 1
        BY <2>1
      <4> QED
        BY <2>2, <2>3, <4>1 DEF Linked
    <3> QED
      BY <2>1, <3>1 DEF Walk, Linked
  <2>10. SeenTo'
    <3>1. SUFFICES ASSUME NEW k \in 1 .. L - 1, NEW m \in 1 .. stack[k].next - 1
                   PROVE  \/ state'[dependencies[stack[k].node][m]] = "RESOLVED"
                          \/ k < L - 1 /\ m = stack[k].next - 1
      BY <2>2, <2>3 DEF SeenTo
    <3>2. \/ state[dependencies[stack[k].node][m]] = "RESOLVED"
          \/ m = stack[k].next - 1
      BY <2>1, <2>6 DEF Walk, SeenTo
    <3>3. stack[k].node \in Node /\ stack[k].next \in Nat \ {0}
          /\ stack[k].next <= Len(dependencies[stack[k].node]) + 1
      <4>1. stack[k] \in Frame
        BY <2>1, <2>6, ElementOfSeq DEF TypeOK
      <4> QED
        BY <2>1, <2>6, <4>1 DEF Walk, LoopBounds, Frame
    <3>4. dependencies[stack[k].node][m] \in Node
      <4>1. m \in 1 .. Len(dependencies[stack[k].node])
        BY <3>3, Dependencies, LenProperties
      <4> QED
        BY <3>3, <4>1, Dependencies, ElementOfSeq
    <3>5. CASE m = stack[k].next - 1 /\ k = L - 1
      <4>1. stack[k + 1].node = dependencies[stack[k].node][stack[k].next - 1]
        BY <2>1, <2>6, <3>5 DEF Walk, Linked
      <4>2. dependencies[stack[k].node][m] = Top.node
        BY <2>1, <3>5, <4>1
      <4> QED
        BY <2>1, <2>3, <4>2
    <3> QED
      BY <2>1, <2>3, <3>2, <3>4, <3>5
  <2> QED
    BY <2>7, <2>8, <2>9, <2>10 DEF Walk
<1>4. CASE Dequeue \/ ResolveRest
  <2>1. PICK n \in Node, after \in Phases : Enter(n, stack, after)
    BY <1>4, FirstCall DEF TypeOK, Phases
  <2>2. stack = <<>> /\ stack \in Seq(Frame) /\ Len(stack) = 0
    BY <1>4, FirstCall, EmptySeq DEF TypeOK
  <2>3. UNCHANGED inputs /\ program' = program
    BY <1>4 DEF Dequeue, ResolveRest
  <2>4. \A k \in 1 .. Len(stack) : FALSE
    BY <2>2
  <2> QED
    BY <2>1, <2>2, <2>3, <2>4, EnterWalk
<1> QED
  BY <1>1, <1>2, <1>3, <1>4, StepCases

-----------------------------------------------------------------------------
(* The order of generation.                                                *)

\* A call that has come to the end of its loop may generate its node.
LEMMA TopReady ==
  ASSUME TypeOK, Marks, Walk, stack # <<>>, Top.next > Len(dependencies[Top.node])
  PROVE  /\ Top.node \notin Generated
         /\ DependsOn(Top.node) \subseteq Generated
<1>1. /\ Len(stack) \in DOMAIN stack /\ Top.node \in Node /\ Top.next \in Nat
      /\ stack[Len(stack)] = Top
  BY TopFrame DEF Top
<1>2. state[Top.node] = "RESOLVING"
  BY <1>1 DEF Marks
<1>3. ASSUME NEW d \in DependsOn(Top.node)
      PROVE  d \in Generated
  <2>1. PICK m \in 1 .. Len(dependencies[Top.node]) : d = dependencies[Top.node][m]
    BY <1>1, Dependencies
  <2>2. Len(dependencies[Top.node]) \in Nat /\ d \in Node
    BY <1>1, Dependencies, LenProperties
  <2>3. m \in 1 .. Top.next - 1
    BY <1>1, <2>2
  <2>4. ~ (Len(stack) < Len(stack))
    BY TopFrame
  <2>5. state[d] = "RESOLVED"
    BY <1>1, <2>1, <2>3, <2>4 DEF Walk, SeenTo
  <2> QED
    BY <2>2, <2>5 DEF Marks
<1> QED
  BY <1>1, <1>2, <1>3 DEF Marks

LEMMA OrderStep ==
  ASSUME TypeOK, Calls, Marks, Walk, GenerationOrder, [Next]_vars
  PROVE  GenerationOrder'
<1>1. CASE UNCHANGED <<dependencies, program>>
  BY <1>1 DEF GenerationOrder, DependsOn
<1>2. CASE GenerateNode
  <2>1. dependencies' = dependencies
    BY <1>2 DEF GenerateNode, inputs
  <2>2. Top.node \notin Generated /\ DependsOn(Top.node) \subseteq Generated
    BY <1>2, TopReady DEF GenerateNode
  <2> DEFINE n == Len(program)
  <2>3. /\ n \in Nat /\ DOMAIN program = 1 .. n /\ DOMAIN program' = 1 .. n + 1
        /\ \A k \in 1 .. n : program'[k] = program[k]
        /\ program'[n + 1] = Top.node
        /\ Generated = {program[k] : k \in 1 .. n}
    BY <1>2, ProgramGrows
  <2> HIDE DEF n
  <2>4. \A k \in 1 .. n + 1 : k \in 1 .. n \/ k = n + 1
    BY <2>3
  <2>5. IsInjective(program')
    <3>1. \A j, k \in 1 .. n : program[j] = program[k] => j = k
      BY <2>3 DEF GenerationOrder, IsInjective
    <3>2. \A k \in 1 .. n : program[k] # Top.node
      BY <2>2, <2>3
    <3> QED
      BY <2>3, <2>4, <3>1, <3>2 DEF IsInjective
  <2>6. ASSUME NEW k \in 1 .. n + 1, NEW d \in DependsOn(program'[k])
        PROVE  \E j \in 1 .. k - 1 : program'[j] = d
    <3>1. CASE k \in 1 .. n
      <4>1. PICK j \in 1 .. k - 1 : program[j] = d
        BY <2>3, <2>6, <3>1 DEF GenerationOrder
      <4>2. j \in 1 .. n
        BY <2>3, <3>1
      <4> QED
        BY <2>3, <4>1, <4>2
    <3>2. CASE k = n + 1
      <4>1. PICK j \in 1 .. n : program[j] = d
        BY <2>2, <2>3, <2>6, <3>2
      <4>2. j \in 1 .. k - 1
        BY <2>3, <3>2
      <4> QED
        BY <2>3, <4>1, <4>2
    <3> QED
      BY <2>4, <3>1, <3>2
  <2> QED
    BY <2>1, <2>3, <2>5, <2>6 DEF GenerationOrder, DependsOn
<1> QED
  BY <1>1, <1>2, StepCases DEF Unmoved, Visit, Dequeue, ResolveRest, inputs

-----------------------------------------------------------------------------
(* What the roots need.                                                    *)

LEMMA NeededFacts ==
  ASSUME TypeOK
  PROVE  /\ Roots \subseteq Needed
         /\ \A n \in Needed : DependsOn(n) \subseteq Needed
<1>1. Roots \subseteq Node
  BY GraphFacts, RangeOfSeq DEF TypeOK, WellFormed, Roots
<1>2. Roots \subseteq Needed
  BY <1>1 DEF Needed
<1>3. ASSUME NEW n \in Needed, NEW d \in DependsOn(n)
      PROVE  d \in Needed
  <2>1. n \in Node
    BY DEF Needed
  <2>2. d \in Node
    BY <1>3, <2>1, Dependencies
  <2>3. ASSUME NEW S \in SUBSET Node, Roots \subseteq S, Closed(S)
        PROVE  d \in S
    BY <1>3, <2>3 DEF Needed, Closed
  <2> QED
    BY <2>2, <2>3 DEF Needed
<1> QED
  BY <1>2, <1>3

LEMMA NeededConstant ==
  ASSUME UNCHANGED inputs
  PROVE  Needed' = Needed /\ Roots' = Roots /\ \A n : DependsOn(n)' = DependsOn(n)
BY DEF inputs, Needed, Roots, Closed, DependsOn

LEMMA NeededStep ==
  ASSUME TypeOK, Calls, Marks, Walk, OnlyNeeded, [Next]_vars
  PROVE  OnlyNeeded'
<1>1. ASSUME NEW n \in Needed, NEW after, NEW callers \in Seq(Frame),
             Len(callers) = Len(stack),
             \A k \in 1 .. Len(stack) : callers[k].node = stack[k].node,
             Enter(n, callers, after), UNCHANGED inputs, program' = program
      PROVE  OnlyNeeded'
  <2> DEFINE frame == [node |-> n, next |-> 1]
             L == Len(stack)
  <2>1. L \in Nat /\ DOMAIN stack = 1 .. L
    BY LenProperties DEF TypeOK
  <2>2. n \in Node /\ frame \in Frame /\ frame.node = n
    BY DEF Needed, Frame
  <2>3. Needed' = Needed /\ Generated' = Generated
    BY <1>1, NeededConstant DEF Generated
  <2>4. stack' = stack \/ stack' = callers \/ stack' = Append(callers, frame)
    BY <1>1 DEF Enter
  <2> HIDE DEF frame
  <2>5. ASSUME NEW k \in DOMAIN stack' PROVE stack'[k].node \in Needed
    <3>1. CASE stack' = stack
      BY <2>5, <3>1 DEF OnlyNeeded
    <3>2. CASE stack' = callers
      <4>1. k \in 1 .. Len(stack)
        BY <1>1, <2>5, <3>2, LenProperties
      <4> QED
        BY <1>1, <2>1, <3>2, <4>1 DEF OnlyNeeded
    <3>3. CASE stack' = Append(callers, frame)
      <4>1. /\ DOMAIN stack' = 1 .. L + 1
            /\ \A j \in 1 .. L : stack'[j] = callers[j]
            /\ stack'[L + 1] = frame
        BY <1>1, <2>2, <3>3, AppendProperties, LenProperties
      <4>2. k \in 1 .. L \/ k = L + 1
        BY <2>1, <2>5, <4>1
      <4> QED
        BY <1>1, <2>1, <2>2, <4>1, <4>2 DEF OnlyNeeded
    <3> QED
      BY <2>4, <3>1, <3>2, <3>3
  <2> QED
    BY <2>3, <2>5 DEF OnlyNeeded
<1>2. CASE Unmoved
  BY <1>2, NeededConstant DEF Unmoved, inputs, OnlyNeeded, Generated
<1>3. CASE Visit
  <2>1. Top.node \in Needed
    BY <1>3, TopFrame DEF Visit, OnlyNeeded, Top
  <2>2. dependencies[Top.node][Top.next] \in Needed
    BY <1>3, <2>1, NextCall, NeededFacts
  <2>3. \A k \in 1 .. Len(stack) : Advanced[k].node = stack[k].node
    BY <1>3, AdvancedStack DEF Visit, Top
  <2> QED
    BY <1>1, <1>3, <2>2, <2>3, AdvancedStack DEF Visit
<1>4. CASE GenerateNode
  <2>1. Top.node \in Needed
    BY <1>4, TopFrame DEF GenerateNode, OnlyNeeded, Top
  <2>2. Generated' \subseteq Needed
    BY <1>4, <2>1, ProgramGrows DEF OnlyNeeded
  <2>3. \A k \in DOMAIN stack' : stack'[k].node \in Needed
    <3>1. /\ Len(stack) \in Nat \ {0} /\ DOMAIN stack = 1 .. Len(stack)
          /\ DOMAIN stack' = 1 .. Len(stack) - 1
          /\ \A k \in 1 .. Len(stack) - 1 : stack'[k] = stack[k]
      BY <1>4, TopFrame, PoppedStack, LenProperties DEF GenerateNode, TypeOK
    <3>2. \A k \in 1 .. Len(stack) - 1 : k \in 1 .. Len(stack)
      BY <3>1
    <3> QED
      BY <3>1, <3>2 DEF OnlyNeeded
  <2>4. Needed' = Needed
    BY <1>4, NeededConstant DEF GenerateNode
  <2> QED
    BY <2>2, <2>3, <2>4 DEF OnlyNeeded
<1>5. CASE Dequeue \/ ResolveRest
  <2>1. PICK n \in Roots, after \in Phases : Enter(n, stack, after)
    <3>1. Dequeue => queue[processed + 1] \in Roots
      BY GraphFacts DEF Dequeue, TypeOK, Roots
    <3>2. ResolveRest => graph[i] \in Roots
      BY GraphFacts DEF ResolveRest, TypeOK, Roots
    <3> QED
      BY <1>5, <3>1, <3>2, FirstCall DEF TypeOK, Phases
  <2>2. UNCHANGED inputs /\ program' = program /\ stack \in Seq(Frame)
    BY <1>5 DEF Dequeue, ResolveRest, TypeOK
  <2> QED
    BY <1>1, <2>1, <2>2, NeededFacts
<1> QED
  BY <1>2, <1>3, <1>4, <1>5, StepCases

\* The active calls from stack[k] up, when the innermost of them depends on the
\* node of stack[k]: a cycle.
LEMMA StackCycle ==
  ASSUME TypeOK, Walk, OnlyNeeded, stack # <<>>,
         NEW k \in DOMAIN stack, stack[k].node \in DependsOn(Top.node)
  PROVE  \E C \in SUBSET Needed : C # {} /\ \A n \in C : DependsOn(n) \cap C # {}
<1> DEFINE L == Len(stack)
           C == {stack[m].node : m \in k .. L}
<1>1. /\ L \in Nat \ {0} /\ DOMAIN stack = 1 .. L /\ Len(stack) = L
      /\ stack[L] = Top /\ k \in 1 .. L
  BY TopFrame, LenProperties DEF TypeOK, Top
<1> HIDE DEF L
<1>2. \A m \in k .. L : m \in 1 .. L /\ (m < L => m + 1 \in k .. L)
  BY <1>1
<1>3. C \in SUBSET Needed
  BY <1>1, <1>2 DEF OnlyNeeded
<1>4. stack[k].node \in C
  BY <1>1
<1>5. ASSUME NEW n \in C
      PROVE  DependsOn(n) \cap C # {}
  <2>1. PICK m \in k .. L : n = stack[m].node
    OBVIOUS
  <2>2. CASE m = L
    BY <1>1, <1>4, <2>1, <2>2
  <2>3. CASE m < L
    <3>1. stack[m + 1].node = dependencies[n][stack[m].next - 1] /\ stack[m].next > 1
      BY <1>1, <1>2, <2>1, <2>3 DEF Walk, Linked
    <3>2. stack[m] \in Frame
      BY <1>1, <1>2, ElementOfSeq DEF TypeOK
    <3>3. n \in Node /\ stack[m].next \in Nat
      BY <2>1, <3>2 DEF Frame
    <3>4. stack[m].next <= Len(dependencies[n]) + 1 /\ Len(dependencies[n]) \in Nat
      BY <1>1, <1>2, <2>1, <3>3, Dependencies, LenProperties DEF Walk, LoopBounds
    <3>5. stack[m].next - 1 \in 1 .. Len(dependencies[n])
      BY <3>1, <3>3, <3>4
    <3>6. stack[m + 1].node \in DependsOn(n)
      BY <3>1, <3>3, <3>5, Dependencies
    <3>7. stack[m + 1].node \in C
      BY <1>2, <2>3
    <3> QED
      BY <3>6, <3>7
  <2> QED
    BY <1>1, <2>2, <2>3
<1> QED
  BY <1>3, <1>4, <1>5

LEMMA CyclicStep ==
  ASSUME TypeOK, Calls, Marks, Walk, OnlyNeeded, CyclicOnlyOnCycle, [Next]_vars
  PROVE  CyclicOnlyOnCycle'
<1>1. UNCHANGED inputs
  BY DEF Next, vars, inputs, generate_thir_for_node, generate_thir, Visit, GenerateNode,
         FailNode, CountInDegrees, SeedQueue, EndSeed, Dequeue, Decrement,
         EndDecrement, EndKahn, ResolveRest, Return, Halt
<1>2. SUFFICES ASSUME phase' = "cyclic"
               PROVE  \E C \in SUBSET Needed : C # {} /\ \A n \in C : DependsOn(n) \cap C # {}
  <2>1. Needed' = Needed /\ \A n : DependsOn(n)' = DependsOn(n)
    BY <1>1, NeededConstant
  <2> QED
    BY <2>1 DEF CyclicOnlyOnCycle
<1>3. CASE phase = "cyclic"
  BY <1>3 DEF CyclicOnlyOnCycle
<1>4. CASE Visit /\ phase # "cyclic"
  <2> DEFINE n == dependencies[Top.node][Top.next]
  <2>1. n \in Node /\ n \in DependsOn(Top.node) /\ Enter(n, Advanced, phase)
    BY <1>4, NextCall
  <2>2. state[n] = "RESOLVING"
    BY <1>2, <1>4, <2>1 DEF Enter
  <2>3. PICK k \in DOMAIN stack : stack[k].node = n
    BY <2>1, <2>2 DEF Marks
  <2> QED
    BY <1>4, <2>1, <2>3, StackCycle DEF Visit
<1>5. CASE (Dequeue \/ ResolveRest) /\ phase # "cyclic"
  <2>1. PICK n \in Node, after \in {"decrement", "rest"} : Enter(n, stack, after)
    BY <1>5, FirstCall DEF ResolveRest
  <2>2. state[n] = "RESOLVING"
    BY <1>2, <2>1 DEF Enter
  <2>3. stack = <<>> /\ Len(<<>>) = 0 /\ DOMAIN stack = 1 .. Len(stack)
    BY <1>5, FirstCall, EmptySeq, LenProperties DEF TypeOK
  <2> QED
    BY <2>1, <2>2, <2>3 DEF Marks
<1> QED
  BY <1>2, <1>3, <1>4, <1>5 DEF Next, vars, generate_thir_for_node, generate_thir,
     GenerateNode, FailNode, CountInDegrees, SeedQueue, EndSeed, Decrement,
     EndDecrement, EndKahn, Return, Halt

LEMMA RestStep ==
  ASSUME TypeOK, Calls, Marks, RestPassed, [Next]_vars
  PROVE  RestPassed'
<1> USE GraphFacts
<1>1. ASSUME NEW n \in Node, NEW after, NEW callers, Enter(n, callers, after)
      PROVE  /\ \A x \in Node : state'[x] = "UNRESOLVED" => state[x] = "UNRESOLVED" /\ x # n
             /\ phase' \in {after, "cyclic"}
  BY <1>1 DEF Enter, TypeOK
<1>2. CASE Visit
  <2>1. phase \notin Halted /\ graph' = graph /\ i' = i
    BY <1>2 DEF Visit, inputs
  <2>2. /\ \A x \in Node : state'[x] = "UNRESOLVED" => state[x] = "UNRESOLVED"
        /\ phase' \in {phase, "cyclic"}
    BY <1>1, <1>2, NextCall
  <2>3. \A j \in 1 .. i - 1 : graph[j] \in Node
    BY DEF TypeOK
  <2> QED
    BY <2>1, <2>2, <2>3 DEF RestPassed, Halted
<1>3. CASE GenerateNode
  <2>1. phase \notin Halted /\ graph' = graph /\ i' = i /\ phase' = phase
    BY <1>3 DEF GenerateNode, inputs
  <2>2. \A x \in Node : state'[x] = "UNRESOLVED" => state[x] = "UNRESOLVED"
    BY <1>3, TopFrame DEF GenerateNode, TypeOK
  <2>3. \A j \in 1 .. i - 1 : graph[j] \in Node
    BY DEF TypeOK
  <2> QED
    BY <2>1, <2>2, <2>3 DEF RestPassed, Halted
<1>4. CASE ResolveRest
  <2>1. phase = "rest" /\ graph' = graph /\ i' = i + 1 /\ i \in 1 .. Len(graph)
    BY <1>4 DEF ResolveRest, inputs, TypeOK
  <2>2. /\ \A x \in Node : state'[x] = "UNRESOLVED" => state[x] = "UNRESOLVED" /\ x # graph[i]
        /\ phase' \in {phase, "cyclic"}
    BY <1>1, <1>4, FirstCall
  <2>3. \A j \in 1 .. i + 1 - 1 : graph[j] \in Node /\ (j \in 1 .. i - 1 \/ j = i)
    BY <2>1
  <2> QED
    BY <2>1, <2>2, <2>3 DEF RestPassed
<1>5. CASE Return
  <2>1. phase = "rest" /\ stack = <<>> /\ i = Len(graph) + 1 /\ phase' = "done"
        /\ graph' = graph /\ state' = state
    BY <1>5 DEF Return, TypeOK, inputs
  <2>2. \A j \in 1 .. Len(graph) : state[graph[j]] # "UNRESOLVED"
    BY <2>1 DEF RestPassed
  <2>3. \A x \in Node : state[x] # "RESOLVING"
    <3>1. DOMAIN stack = 1 .. 0
      BY <2>1
    <3> QED
      BY <3>1 DEF Marks
  <2>4. \A j \in DOMAIN graph : state[graph[j]] = "RESOLVED"
    BY <2>2, <2>3 DEF TypeOK
  <2> QED
    BY <2>1, <2>4 DEF RestPassed
<1>6. CASE Dequeue
  <2>1. phase' \in {"decrement", "cyclic"}
    BY <1>1, <1>6, FirstCall
  <2> QED
    BY <2>1 DEF RestPassed
<1>7. CASE EndKahn
  BY <1>7 DEF EndKahn, RestPassed
<1>8. CASE \/ FailNode \/ CountInDegrees \/ SeedQueue \/ EndSeed \/ Decrement \/ EndDecrement
  BY <1>8 DEF FailNode, CountInDegrees, SeedQueue, EndSeed, Decrement, EndDecrement, RestPassed
<1>9. CASE Halt \/ UNCHANGED vars
  BY <1>9 DEF Halt, vars, inputs, RestPassed
<1> QED
  BY <1>2, <1>3, <1>4, <1>5, <1>6, <1>7, <1>8, <1>9 DEF Next, generate_thir_for_node, generate_thir

\* When the generator is done nothing the roots need is missing.
LEMMA Completeness ==
  ASSUME TypeOK, Marks, OnlyNeeded, RestPassed, GenerationOrder
  PROVE  DoneIsComplete
<1>1. SUFFICES ASSUME phase = "done" PROVE Needed \subseteq Generated
  BY DEF DoneIsComplete, OnlyNeeded
<1>2. Roots \subseteq Generated
  <2>1. \A k \in DOMAIN graph : graph[k] \in Generated
    BY <1>1, GraphFacts DEF RestPassed, Marks
  <2> QED
    BY <2>1 DEF Roots, Range
<1>3. Generated \in SUBSET Node
  BY RangeOfSeq DEF Generated, TypeOK
<1>4. Closed(Generated)
  <2>1. ASSUME NEW n \in Generated, NEW d \in DependsOn(n) PROVE d \in Generated
    <3>1. DOMAIN program = 1 .. Len(program) /\ Len(program) \in Nat
      BY LenProperties DEF TypeOK
    <3>2. PICK k \in DOMAIN program : n = program[k]
      BY DEF Generated, Range
    <3>3. PICK j \in 1 .. k - 1 : program[j] = d
      BY <2>1, <3>2 DEF GenerationOrder
    <3>4. j \in DOMAIN program
      BY <3>1, <3>2
    <3> QED
      BY <3>3, <3>4 DEF Generated, Range
  <2> QED
    BY <2>1 DEF Closed
<1> QED
  BY <1>2, <1>3, <1>4 DEF Needed

-----------------------------------------------------------------------------
(* The queue and the counts.                                               *)

\* A sequence without repetitions over the elements of another is no longer.
LEMMA InjectiveBound ==
  ASSUME NEW S, NEW s \in Seq(S), NEW t \in Seq(Range(s)),
         IsInjective(s), IsInjective(t)
  PROVE  Len(t) <= Len(s)
<1>1. IsFiniteSet(Range(s)) /\ Cardinality(Range(s)) = Len(s)
  BY InjectiveSeq
<1>2. Cardinality(Range(t)) = Len(t)
  BY InjectiveSeq
<1>3. Range(t) \in SUBSET Range(s)
  BY RangeOfSeq
<1> QED
  BY <1>1, <1>2, <1>3, FS_Subset

\* The loops that append to the queue keep what is in it.
LEMMA QueueGrows ==
  ASSUME TypeOK, SeedQueue \/ Decrement
  PROVE  /\ i \in 1 .. Len(graph)
         /\ Len(queue') \in Nat /\ Len(queue') >= Len(queue)
         /\ \A q \in 1 .. Len(queue) : queue'[q] = queue[q]
         /\ \/ queue' = queue
            \/ /\ queue' = Append(queue, graph[i])
               /\ Range(queue') = Range(queue) \cup {graph[i]}
<1>1. i \in 1 .. Len(graph) /\ Len(queue) \in Nat
  BY GraphFacts DEF TypeOK, SeedQueue, Decrement
<1>2. CASE queue' = queue
  BY <1>1, <1>2
<1>3. CASE queue' = Append(queue, graph[i])
  <2>1. /\ Len(queue') = Len(queue) + 1
        /\ \A q \in 1 .. Len(queue) : queue'[q] = queue[q]
        /\ Range(queue') = Range(queue) \cup {graph[i]}
    BY <1>1, <1>3, Enqueue
  <2> QED
    BY <1>1, <1>3, <2>1
<1> QED
  BY <1>2, <1>3 DEF SeedQueue, Decrement

\* The loops of the first phase and the calls made from it.
LEMMA InDegreesStep ==
  ASSUME TypeOK, Calls, InDegrees, Queued, QueueInBounds, [Next]_vars
  PROVE  InDegrees'
<1> USE GraphFacts
<1>1. ASSUME UNCHANGED <<graph, dependencies, in_degree>>, Counted,
             \A k \in 1 .. Len(graph) : Taken(k)' = Taken(k)
      PROVE  InDegrees'
  BY <1>1 DEF InDegrees, DependsOn
<1>2. CASE ~ Counted'
  BY <1>2 DEF InDegrees
<1>3. CASE CountInDegrees
  <2>1. Taken(1)' = {} /\ \A k : Taken(k)' = {}
    <3>1. processed' = 0 /\ phase' = "seed"
      BY <1>3 DEF CountInDegrees, Queued, TypeOK
    <3> QED
      BY <3>1 DEF Taken
  <2>2. \A k \in 1 .. Len(graph) :
          in_degree'[k] = Cardinality(DependsOn(graph[k]) \ {})
    <3>1. \A k \in 1 .. Len(graph) : in_degree'[k] = Len(dependencies[graph[k]])
      BY <1>3 DEF CountInDegrees
    <3>2. \A k \in 1 .. Len(graph) :
            Cardinality(DependsOn(graph[k])) = Len(dependencies[graph[k]])
      BY Dependencies
    <3>3. \A S : S \ {} = S
      OBVIOUS
    <3> QED
      BY <3>1, <3>2, <3>3
  <2>3. graph' = graph /\ \A n : DependsOn(n)' = DependsOn(n)
    BY <1>3 DEF CountInDegrees, inputs, DependsOn
  <2> QED
    BY <2>1, <2>2, <2>3 DEF InDegrees
<1>4. CASE SeedQueue
  <2>1. processed = 0 /\ processed' = 0 /\ phase = "seed" /\ phase' = "seed"
    BY <1>4 DEF SeedQueue, Queued
  <2>2. \A k : Taken(k)' = {} /\ Taken(k) = {}
    BY <2>1 DEF Taken
  <2> QED
    BY <1>1, <1>4, <2>1, <2>2 DEF SeedQueue, inputs, Counted
<1>5. CASE EndSeed
  <2>1. \A k : Taken(k)' = Taken(k)
    BY <1>5 DEF EndSeed, Taken
  <2> QED
    BY <1>1, <1>5, <2>1 DEF EndSeed, inputs, Counted
<1>6. CASE Dequeue /\ Counted'
  <2>1. phase' = "decrement" /\ i' = 1 /\ processed' = processed + 1 /\ queue' = queue
        /\ phase = "kahn"
    BY <1>6, FirstCall DEF Dequeue, Enter, Counted
  <2>2. \A k \in 1 .. Len(graph) : k >= i' /\ processed' - 1 = processed
    BY <2>1 DEF TypeOK
  <2>3. \A k \in 1 .. Len(graph) : Taken(k)' = Taken(k)
    BY <2>1, <2>2 DEF Taken
  <2> QED
    BY <1>1, <1>6, <2>1, <2>3 DEF Dequeue, inputs, Counted
<1>7. CASE Decrement
  <2> DEFINE x == queue[processed]
             D == DependsOn(graph[i])
             T == {queue[q] : q \in 1 .. processed - 1}
  <2>1. /\ phase = "decrement" /\ phase' = phase /\ processed' = processed /\ i' = i + 1
        /\ graph' = graph /\ \A n : DependsOn(n)' = DependsOn(n)
        /\ processed \in 1 .. Len(queue) /\ i \in 1 .. Len(graph)
        /\ in_degree \in [1 .. Len(graph) -> Int]
    BY <1>7 DEF Decrement, inputs, DependsOn, Queued, TypeOK
  <2>2. \A q \in 1 .. processed : queue'[q] = queue[q]
    BY <1>7, <2>1, QueueGrows
  <2>3. ASSUME NEW k \in 1 .. Len(graph), k # i
        PROVE  Taken(k)' = Taken(k) /\ in_degree'[k] = in_degree[k]
    <3>1. (k >= i <=> k >= i + 1)
      BY <2>1, <2>3
    <3>2. \A q \in 1 .. processed - 1 : q \in 1 .. processed
      BY <2>1
    <3>3. Taken(k)' = Taken(k)
      BY <2>1, <2>2, <3>1, <3>2 DEF Taken
    <3>4. in_degree'[k] = in_degree[k]
      BY <1>7, <2>1, <2>3 DEF Decrement
    <3> QED
      BY <3>3, <3>4
  <2>4. ASSUME NEW k, k = i
        PROVE  Taken(k) = T /\ Taken(k)' = T \cup {x}
    <3>1. k >= i /\ ~ (k >= i + 1)
      BY <2>1, <2>4
    <3>2. Taken(k) = T
      BY <2>1, <3>1 DEF Taken
    <3>3. Taken(k)' = {queue'[q] : q \in 1 .. processed}
      BY <2>1, <3>1 DEF Taken
    <3>4. \A q \in 1 .. processed : q \in 1 .. processed - 1 \/ q = processed
      BY <2>1
    <3>5. processed \in 1 .. processed /\ \A q \in 1 .. processed - 1 : q \in 1 .. processed
      BY <2>1
    <3> QED
      BY <2>2, <3>2, <3>3, <3>4, <3>5
  <2>5. x \notin T
    <3>1. \A q \in 1 .. processed - 1 : q \in 1 .. Len(queue) /\ q # processed
      BY <2>1
    <3> QED
      BY <2>1, <3>1 DEF QueueInBounds, IsInjective
  <2>6. IsFiniteSet(D) /\ IsFiniteSet(D \ T)
    BY <2>1, Dependencies, FS_Difference
  <2>7. in_degree[i] = Cardinality(D \ T)
    <3>1. PICK k \in 1 .. Len(graph) : k = i
      BY <2>1
    <3> QED
      BY <2>1, <2>4, <3>1 DEF InDegrees, Counted
  <2>8. in_degree'[i] = Cardinality(D \ (T \cup {x}))
    <3>1. CASE x \in D
      <4>1. in_degree'[i] = in_degree[i] - 1
        BY <1>7, <2>1, <3>1 DEF Decrement
      <4>2. D \ (T \cup {x}) = (D \ T) \ {x} /\ x \in D \ T
        BY <2>5, <3>1
      <4>3. Cardinality((D \ T) \ {x}) = Cardinality(D \ T) - 1
        BY <2>6, <4>2, FS_RemoveElement
      <4> QED
        BY <2>7, <4>1, <4>2, <4>3
    <3>2. CASE x \notin D
      <4>1. in_degree' = in_degree
        BY <1>7, <3>2 DEF Decrement
      <4>2. D \ (T \cup {x}) = D \ T
        BY <3>2
      <4> QED
        BY <2>7, <4>1, <4>2
    <3> QED
      BY <3>1, <3>2
  <2>9. ASSUME NEW k \in 1 .. Len(graph)
        PROVE  in_degree'[k] = Cardinality(DependsOn(graph[k]) \ Taken(k)')
    <3>1. CASE k = i
      BY <2>4, <2>8, <3>1
    <3>2. CASE k # i
      <4>1. in_degree[k] = Cardinality(DependsOn(graph[k]) \ Taken(k))
        BY <2>1 DEF InDegrees, Counted
      <4> QED
        BY <2>3, <3>2, <4>1
    <3> QED
      BY <3>1, <3>2
  <2> QED
    BY <2>1, <2>9 DEF InDegrees
<1>8. CASE EndDecrement
  <2>1. phase = "decrement" /\ phase' = "kahn" /\ i > Len(graph) /\ processed' = processed
        /\ queue' = queue
    BY <1>8 DEF EndDecrement
  <2>2. \A k \in 1 .. Len(graph) : ~ (k >= i)
    BY <2>1 DEF TypeOK
  <2>3. \A k \in 1 .. Len(graph) : Taken(k)' = Taken(k)
    BY <2>1, <2>2 DEF Taken
  <2> QED
    BY <1>1, <1>8, <2>1, <2>3 DEF EndDecrement, inputs, Counted
<1>9. CASE (Visit \/ GenerateNode) /\ Counted'
  <2>1. phase' = phase /\ UNCHANGED <<i, processed, queue, graph, dependencies, in_degree>>
    BY <1>9, NextCall DEF Visit, Enter, GenerateNode, Counted, inputs
  <2>2. \A k : Taken(k)' = Taken(k)
    BY <2>1 DEF Taken
  <2> QED
    BY <1>1, <1>9, <2>1, <2>2 DEF Counted
<1>10. CASE UNCHANGED vars \/ Halt
  <2>1. \A k : Taken(k)' = Taken(k)
    BY <1>10 DEF Halt, vars, Taken
  <2> QED
    BY <1>1, <1>2, <1>10, <2>1 DEF Halt, vars, inputs, Counted
<1>11. CASE FailNode \/ EndKahn \/ ResolveRest \/ Return
  BY <1>2, <1>11 DEF FailNode, EndKahn, ResolveRest, Return, Enter, Counted
<1> QED
  BY <1>2, <1>3, <1>4, <1>5, <1>6, <1>7, <1>8, <1>9, <1>10, <1>11
     DEF Next, generate_thir_for_node, generate_thir

\* While the counts are alive they are cardinalities.
LEMMA InDegreeNat ==
  ASSUME TypeOK, InDegrees, Counted
  PROVE  \A k \in 1 .. Len(graph) :
           /\ in_degree[k] \in Nat
           /\ in_degree[k] = 0 => DependsOn(graph[k]) \subseteq Taken(k)
<1>1. SUFFICES ASSUME NEW k \in 1 .. Len(graph)
               PROVE  /\ in_degree[k] \in Nat
                      /\ in_degree[k] = 0 => DependsOn(graph[k]) \subseteq Taken(k)
  OBVIOUS
<1> DEFINE R == DependsOn(graph[k]) \ Taken(k)
<1>2. IsFiniteSet(R) /\ in_degree[k] = Cardinality(R)
  BY GraphFacts, Dependencies, FS_Difference DEF InDegrees
<1>3. Cardinality(R) \in Nat /\ (Cardinality(R) = 0 <=> R = {})
  BY <1>2, FS_CardinalityType, FS_EmptySet
<1> QED
  BY <1>2, <1>3

\* No node enters the queue twice.
LEMMA QueueStep ==
  ASSUME TypeOK, Calls, InDegrees, Queued, QueueInBounds, [Next]_vars
  PROVE  Queued' /\ IsInjective(queue')
<1> USE GraphFacts
<1>1. CASE SeedQueue \/ Decrement
  <2>1. /\ i \in 1 .. Len(graph)
        /\ Len(queue) \in Nat
        /\ \A q \in 1 .. Len(queue) : queue'[q] = queue[q]
        /\ graph' = graph /\ i' = i + 1 /\ phase' = phase /\ processed' = processed
        /\ phase \in {"seed", "decrement"}
        /\ phase = "seed" => processed = 0
        /\ phase = "decrement" => processed >= 1
    BY <1>1, QueueGrows DEF SeedQueue, Decrement, inputs, Queued
  <2>2. \A k \in 1 .. Len(graph) : k < i + 1 <=> k < i \/ k = i
    BY <2>1
  <2>3. \A k \in 1 .. Len(graph) :
          graph[k] \in Range(queue) <=> in_degree[k] = 0 /\ (phase = "seed" => k < i)
    BY <2>1 DEF Queued, Counted
  <2>4. \A k \in 1 .. Len(graph) : in_degree[k] \in Nat
    BY <2>1, InDegreeNat DEF Counted
  <2>5. CASE queue' = queue
    <3>1. \A k \in 1 .. Len(graph) : in_degree'[k] = 0 <=> in_degree[k] = 0
      <4>1. CASE in_degree' = in_degree
        BY <4>1
      <4>2. CASE Decrement /\ queue[processed] \in DependsOn(graph[i])
        <5>1. in_degree' = [in_degree EXCEPT ![i] = @ - 1] /\ in_degree[i] # 1
          <6>1. in_degree[i] # 1
            <7>1. ASSUME in_degree[i] = 1 PROVE FALSE
              <8>1. queue' = Append(queue, graph[i])
                BY <4>2, <7>1 DEF Decrement
              <8>2. Len(queue') = Len(queue) + 1
                BY <2>1, <8>1, Enqueue
              <8> QED
                BY <2>1, <2>5, <8>2
            <7> QED
              BY <7>1
          <6> QED
            BY <4>2, <6>1 DEF Decrement
        <5>2. in_degree[i] # 0
          <6>1. PICK k \in 1 .. Len(graph) : k = i
            BY <2>1
          <6>2. /\ phase = "decrement" /\ processed \in 1 .. Len(queue)
                /\ queue[processed] \in DependsOn(graph[k])
            BY <2>1, <4>2, <6>1 DEF Decrement, TypeOK
          <6>3. Taken(k) = {queue[q] : q \in 1 .. processed - 1}
            BY <6>1, <6>2 DEF Taken
          <6>4. queue[processed] \notin Taken(k)
            <7>1. \A q \in 1 .. processed - 1 : q \in 1 .. Len(queue) /\ q # processed
              BY <6>2
            <7> QED
              BY <6>2, <6>3, <7>1 DEF QueueInBounds, IsInjective
          <6> QED
            BY <6>1, <6>2, <6>4, InDegreeNat DEF Counted
        <5>3. in_degree \in [1 .. Len(graph) -> Int]
          BY <2>1 DEF TypeOK
        <5> QED
          BY <2>1, <2>4, <5>1, <5>2, <5>3
      <4> QED
        BY <1>1, <4>1, <4>2 DEF SeedQueue, Decrement
    <3>2. phase = "seed" => in_degree' = in_degree /\ in_degree[i] # 0
      <4>1. ASSUME phase = "seed", in_degree[i] = 0 PROVE FALSE
        <5>1. queue' = Append(queue, graph[i])
          BY <1>1, <4>1 DEF SeedQueue, Decrement
        <5>2. Len(queue') = Len(queue) + 1
          BY <2>1, <5>1, Enqueue
        <5> QED
          BY <2>1, <2>5, <5>2
      <4> QED
        BY <1>1, <4>1 DEF SeedQueue, Decrement
    <3>3. \A k \in 1 .. Len(graph) :
            graph[k] \in Range(queue) <=> in_degree'[k] = 0 /\ (phase = "seed" => k < i + 1)
      BY <2>1, <2>2, <2>3, <3>1, <3>2
    <3>4. IsInjective(queue')
      BY <2>5 DEF QueueInBounds
    <3> QED
      BY <2>1, <2>5, <3>3, <3>4 DEF Queued, Counted
  <2>6. CASE queue' = Append(queue, graph[i]) /\ queue' # queue
    <3>1. /\ DOMAIN queue' = 1 .. Len(queue) + 1
          /\ queue'[Len(queue) + 1] = graph[i]
          /\ Range(queue') = Range(queue) \cup {graph[i]}
      <4>1. queue' \in Seq(Range(graph)) /\ Len(queue') = Len(queue) + 1
        BY <2>1, <2>6, Enqueue
      <4> QED
        BY <2>1, <2>6, <4>1, Enqueue, LenProperties
    <3>2. /\ graph[i] \notin Range(queue) /\ in_degree'[i] = 0
          /\ \A k \in 1 .. Len(graph) : k # i => in_degree'[k] = in_degree[k]
      <4>1. CASE SeedQueue
        <5>1. phase = "seed" /\ in_degree' = in_degree /\ in_degree[i] = 0
          BY <2>6, <4>1 DEF SeedQueue
        <5>2. ~ (i < i)
          BY <2>1
        <5> QED
          BY <2>1, <2>3, <5>1, <5>2
      <4>2. CASE Decrement
        <5>1. in_degree' = [in_degree EXCEPT ![i] = @ - 1] /\ in_degree[i] = 1
          BY <2>6, <4>2 DEF Decrement
        <5>2. in_degree \in [1 .. Len(graph) -> Int]
          BY <4>2 DEF TypeOK, Decrement
        <5> QED
          BY <2>1, <2>3, <5>1, <5>2
      <4> QED
        BY <1>1, <4>1, <4>2
    <3>3. \A k \in 1 .. Len(graph) : graph[k] \in Range(queue')
                                     <=> k = i \/ graph[k] \in Range(queue)
      BY <2>1, <3>1
    <3>4. \A k \in 1 .. Len(graph) :
            graph[k] \in Range(queue') <=> in_degree'[k] = 0 /\ (phase = "seed" => k < i + 1)
      <4>1. ASSUME NEW k \in 1 .. Len(graph)
            PROVE  graph[k] \in Range(queue')
                     <=> in_degree'[k] = 0 /\ (phase = "seed" => k < i + 1)
        <5>1. CASE k = i
          BY <2>2, <3>2, <3>3, <5>1
        <5>2. CASE k # i
          BY <2>2, <2>3, <3>2, <3>3, <5>2
        <5> QED
          BY <5>1, <5>2
      <4> QED
        BY <4>1
    <3>5. IsInjective(queue')
      <4>1. \A j, q \in 1 .. Len(queue) : queue[j] = queue[q] => j = q
        BY DEF QueueInBounds, IsInjective
      <4>2. \A q \in 1 .. Len(queue) : queue[q] # graph[i]
        BY <3>2
      <4>3. \A q \in 1 .. Len(queue) + 1 : q \in 1 .. Len(queue) \/ q = Len(queue) + 1
        BY <2>1
      <4> QED
        BY <2>1, <3>1, <4>1, <4>2, <4>3 DEF IsInjective
    <3> QED
      BY <2>1, <3>4, <3>5 DEF Queued, Counted
  <2> QED
    BY <1>1, <2>5, <2>6, QueueGrows
<1>2. CASE CountInDegrees
  <2>1. /\ phase' = "seed" /\ i' = 1 /\ queue' = queue /\ Len(queue) = 0
        /\ processed' = 0 /\ graph' = graph
    BY <1>2 DEF CountInDegrees, Queued, inputs, TypeOK
  <2>2. \A k \in 1 .. Len(graph) : graph[k] \notin Range(queue) /\ ~ (k < 1)
    BY <2>1
  <2> QED
    BY <2>1, <2>2 DEF Queued, QueueInBounds
<1>3. CASE EndSeed
  <2>1. /\ phase = "seed" /\ phase' = "kahn" /\ i > Len(graph)
        /\ UNCHANGED <<queue, in_degree, graph>>
    BY <1>3 DEF EndSeed, inputs
  <2>2. \A k \in 1 .. Len(graph) : k < i
    BY <2>1 DEF TypeOK
  <2> QED
    BY <2>1, <2>2 DEF Queued, Counted, QueueInBounds
<1>4. CASE Dequeue
  <2>1. phase = "kahn" /\ phase' \in {"decrement", "cyclic"}
        /\ UNCHANGED <<queue, in_degree, graph>> /\ processed' >= 1
    BY <1>4, FirstCall DEF Dequeue, Enter, TypeOK, inputs
  <2> QED
    BY <2>1 DEF Queued, Counted, QueueInBounds
<1>5. CASE EndDecrement \/ EndKahn
  BY <1>5 DEF EndDecrement, EndKahn, inputs, Queued, Counted, QueueInBounds
<1>6. CASE Visit \/ GenerateNode
  <2>1. phase' \in {phase, "cyclic"} /\ UNCHANGED <<queue, in_degree, graph, i, processed>>
    BY <1>6, NextCall DEF Visit, Enter, GenerateNode, inputs
  <2> QED
    BY <2>1 DEF Queued, Counted, QueueInBounds
<1>7. CASE FailNode \/ ResolveRest \/ Return
  <2>1. phase' \in {"failed", "rest", "cyclic", "done"} /\ queue' = queue
    BY <1>7, FirstCall DEF FailNode, ResolveRest, Return, Enter
  <2> QED
    BY <2>1 DEF Queued, Counted, QueueInBounds
<1>8. CASE Halt \/ UNCHANGED vars
  BY <1>8 DEF Halt, vars, inputs, Queued, Counted, QueueInBounds
<1> QED
  BY <1>1, <1>2, <1>3, <1>4, <1>5, <1>6, <1>7, <1>8
     DEF Next, generate_thir_for_node, generate_thir

LEMMA BoundsStep ==
  ASSUME TypeOK, InDegrees, QueueInBounds, [Next]_vars,
         TypeOK', InDegrees', IsInjective(queue')
  PROVE  QueueInBounds'
<1>1. Len(queue') <= Len(graph')
  <2>1. /\ graph' \in Seq(Node) /\ IsInjective(graph') /\ queue' \in Seq(Range(graph'))
    BY DEF TypeOK, WellFormed
  <2> QED
    BY <2>1, InjectiveBound
<1>2. \A k \in DOMAIN in_degree' : in_degree'[k] >= 0
  <2>1. CASE Counted'
    <3>1. \A k \in DOMAIN graph' :
            /\ DependsOn(graph[k])' \in SUBSET Node
            /\ in_degree'[k] = Cardinality(DependsOn(graph[k])' \ Taken(k)')
            /\ IsFiniteSet(DependsOn(graph[k])')
      <4>1. ASSUME NEW k \in DOMAIN graph'
            PROVE  /\ DependsOn(graph[k])' \in SUBSET Node
                   /\ IsFiniteSet(DependsOn(graph[k])')
        <5>1. graph' \in Seq(Node) /\ dependencies' \in [Node -> Seq(Node)]
              /\ \A n \in Node : IsInjective(dependencies'[n])
          BY DEF TypeOK, WellFormed
        <5>2. graph'[k] \in Node
          BY <5>1, LenProperties, ElementOfSeq
        <5>3. dependencies'[graph'[k]] \in Seq(Node) /\ IsInjective(dependencies'[graph'[k]])
          BY <5>1, <5>2
        <5> QED
          BY <5>3, InjectiveSeq, RangeOfSeq DEF DependsOn
      <4> QED
        BY <2>1, <4>1 DEF InDegrees
    <3>2. DOMAIN in_degree' = DOMAIN graph'
      BY <2>1 DEF TypeOK, Counted
    <3>3. ASSUME NEW k \in DOMAIN graph'
          PROVE  in_degree'[k] >= 0
      <4>1. IsFiniteSet(DependsOn(graph[k])' \ Taken(k)')
        BY <3>1, FS_Difference
      <4>2. Cardinality(DependsOn(graph[k])' \ Taken(k)') \in Nat
        BY <4>1, FS_CardinalityType
      <4> QED
        BY <3>1, <4>2
    <3> QED
      BY <3>2, <3>3
  <2>2. CASE ~ Counted' /\ in_degree' = in_degree
    BY <2>2 DEF QueueInBounds
  <2>3. CASE ~ Counted' /\ in_degree' # in_degree
    BY <2>3 DEF Next, vars, generate_thir_for_node, generate_thir, Visit, GenerateNode,
       FailNode, CountInDegrees, SeedQueue, EndSeed, Dequeue, Decrement, EndDecrement,
       EndKahn, ResolveRest, Return, Halt, Counted
  <2> QED
    BY <2>1, <2>2, <2>3
<1> QED
  BY <1>1, <1>2 DEF QueueInBounds

-----------------------------------------------------------------------------
(* The first phase never recurses.                                         *)

\* The one call the first phase has active.
LEMMA FirstPhaseCall ==
  ASSUME TypeOK, FirstPhase, phase = "decrement", stack # <<>>
  PROVE  /\ Generated = {queue[q] : q \in 1 .. processed - 1}
         /\ Len(stack) = 1 /\ processed \in 1 .. Len(queue)
         /\ stack[1].node = queue[processed] /\ i = 1
<1>1. /\ Generated = {queue[q] : q \in 1 .. processed - Len(stack)}
      /\ Len(stack) = 1 /\ processed >= 1
      /\ stack[1].node = queue[processed] /\ i = 1
  BY DEF FirstPhase
<1>2. Generated = {queue[q] : q \in 1 .. processed - 1}
  BY <1>1
<1>3. processed \in 1 .. Len(queue)
  BY <1>1, GraphFacts DEF TypeOK
<1> QED
  BY <1>1, <1>2, <1>3

LEMMA FirstPhaseStep ==
  ASSUME TypeOK, Calls, Marks, Walk, InDegrees, Queued, QueueInBounds, FirstPhase,
         [Next]_vars
  PROVE  FirstPhase'
<1> USE GraphFacts
<1> DEFINE First == phase \in {"count", "seed", "kahn", "decrement"}
<1>1. CASE ~ First'
  BY <1>1 DEF FirstPhase
<1>2. CASE SeedQueue \/ Decrement
  <2>1. /\ First /\ stack = <<>> /\ stack' = <<>> /\ processed' = processed
        /\ Generated' = Generated /\ processed \in 0 .. Len(queue) /\ Len(<<>>) = 0
    BY <1>2, EmptySeq DEF SeedQueue, Decrement, Calls, Generated, TypeOK
  <2>2. Generated = {queue[q] : q \in 1 .. processed}
    BY <2>1 DEF FirstPhase
  <2>3. \A q \in 1 .. processed : queue'[q] = queue[q]
    BY <1>2, <2>1, QueueGrows
  <2> QED
    BY <2>1, <2>2, <2>3 DEF FirstPhase
<1>3. CASE CountInDegrees \/ EndSeed \/ EndDecrement
  <2>1. First /\ UNCHANGED <<stack, processed, queue, program>> /\ stack = <<>>
    BY <1>3 DEF CountInDegrees, EndSeed, EndDecrement, Calls
  <2> QED
    BY <2>1 DEF FirstPhase, Generated
<1>4. CASE Dequeue
  <2> DEFINE n == queue[processed + 1]
  <2>1. /\ phase = "kahn" /\ stack = <<>> /\ Len(<<>>) = 0 /\ DOMAIN stack = 1 .. Len(stack)
        /\ n \in Node /\ Enter(n, stack, "decrement")
        /\ processed \in 0 .. Len(queue) /\ processed + 1 \in 1 .. Len(queue)
        /\ processed' = processed + 1 /\ i' = 1 /\ queue' = queue /\ Generated' = Generated
    BY <1>4, FirstCall, EmptySeq, LenProperties DEF Dequeue, TypeOK, Generated
  <2>2. Generated = {queue[q] : q \in 1 .. processed}
    BY <2>1 DEF FirstPhase
  <2>3. n \notin Generated
    <3>1. \A q \in 1 .. processed : q \in 1 .. Len(queue) /\ q # processed + 1
      BY <2>1
    <3> QED
      BY <2>1, <2>2, <3>1 DEF QueueInBounds, IsInjective
  <2>4. state[n] # "RESOLVED" /\ state[n] # "RESOLVING"
    BY <2>1, <2>3 DEF Marks
  <2>5. stack' = Append(stack, [node |-> n, next |-> 1])
    BY <2>1, <2>4 DEF Enter
  <2>6. Len(stack') = 1 /\ stack'[1].node = n
    <3>1. [node |-> n, next |-> 1] \in Frame /\ stack \in Seq(Frame)
      BY <2>1 DEF Frame, TypeOK
    <3>2. Len(stack') = 0 + 1 /\ stack'[0 + 1] = [node |-> n, next |-> 1]
      BY <2>1, <2>5, <3>1, AppendProperties
    <3> QED
      BY <3>2
  <2>7. processed' - Len(stack') = processed /\ processed' >= 1
    BY <2>1, <2>6
  <2> QED
    BY <2>1, <2>2, <2>6, <2>7 DEF FirstPhase
<1>5. CASE Visit /\ First'
  <2>1. /\ phase = "decrement" /\ stack # <<>>
        /\ Generated' = Generated /\ UNCHANGED <<i, processed, queue>>
    <3>1. phase' \in {phase, "cyclic"}
      BY <1>5, NextCall DEF Enter
    <3> QED
      BY <1>5, <3>1 DEF Visit, Calls, Generated
  <2>2. /\ Generated = {queue[q] : q \in 1 .. processed - 1}
        /\ Len(stack) = 1 /\ processed \in 1 .. Len(queue)
        /\ stack[1].node = queue[processed] /\ i = 1
    BY <2>1, FirstPhaseCall
  <2>3. Top = stack[1] /\ Top.node = queue[processed]
    BY <2>2 DEF Top
  <2>4. PICK k \in 1 .. Len(graph) : graph[k] = queue[processed]
    BY <2>2 DEF Range
  <2>5. Taken(k) = Generated
    BY <2>1, <2>2 DEF Taken
  <2>6. DependsOn(Top.node) \subseteq Generated
    <3>1. graph[k] \in Range(queue)
      BY <2>2, <2>4
    <3>2. in_degree[k] = 0
      BY <2>1, <3>1 DEF Queued, Counted
    <3> QED
      BY <2>1, <2>3, <2>4, <2>5, <3>2, InDegreeNat DEF Counted
  <2>7. stack' = Advanced
    <3>1. PICK n : n = dependencies[Top.node][Top.next]
      OBVIOUS
    <3>2. n \in Node /\ n \in DependsOn(Top.node) /\ Enter(n, Advanced, phase)
      BY <1>5, <3>1, NextCall
    <3>3. state[n] = "RESOLVED"
      BY <2>6, <3>2 DEF Marks
    <3> QED
      BY <3>2, <3>3 DEF Enter
  <2>8. Len(stack') = 1 /\ stack'[1].node = queue[processed]
    <3>1. Len(Advanced) = Len(stack) /\ 1 \in 1 .. Len(stack)
          /\ Advanced[1] = [node |-> Top.node, next |-> Top.next + 1]
      BY <2>1, <2>2, AdvancedStack
    <3> QED
      BY <2>2, <2>3, <2>7, <3>1
  <2> QED
    BY <2>1, <2>2, <2>8 DEF FirstPhase
<1>6. CASE GenerateNode /\ First'
  <2>1. /\ phase = "decrement" /\ stack # <<>>
        /\ UNCHANGED <<i, processed, queue>>
    BY <1>6 DEF GenerateNode, Calls
  <2>2. /\ Generated = {queue[q] : q \in 1 .. processed - 1}
        /\ Len(stack) = 1 /\ processed \in 1 .. Len(queue)
        /\ stack[1].node = queue[processed] /\ i = 1
    BY <2>1, FirstPhaseCall
  <2>3. Generated' = Generated \cup {queue[processed]}
    BY <1>6, <2>2, ProgramGrows DEF Top
  <2>4. stack' = <<>> /\ Len(stack') = 0
    <3>1. stack' \in Seq(Frame) /\ Len(stack') = 0
      BY <1>6, <2>2, PoppedStack DEF GenerateNode
    <3> QED
      BY <3>1, EmptySeq
  <2>5. /\ \A q \in 1 .. processed : q \in 1 .. processed - 1 \/ q = processed
        /\ \A q \in 1 .. processed - 1 : q \in 1 .. processed
        /\ processed \in 1 .. processed
    BY <2>2
  <2>6. Generated' = {queue[q] : q \in 1 .. processed}
    BY <2>2, <2>3, <2>5
  <2>7. processed' - Len(stack') = processed
    BY <2>1, <2>2, <2>4
  <2> QED
    BY <2>1, <2>4, <2>6, <2>7 DEF FirstPhase
<1>7. CASE FailNode \/ EndKahn \/ ResolveRest \/ Return
  BY <1>1, <1>7, FirstCall DEF FailNode, EndKahn, ResolveRest, Return, Enter
<1>8. CASE Halt \/ UNCHANGED vars
  BY <1>8 DEF Halt, vars, inputs, FirstPhase, Generated
<1> QED
  BY <1>1, <1>2, <1>3, <1>4, <1>5, <1>6, <1>7, <1>8
     DEF Next, generate_thir_for_node, generate_thir

-----------------------------------------------------------------------------
(* The theorems.                                                           *)

LEMMA InvInit == Init => Inv
<1> SUFFICES ASSUME Init PROVE Inv
  OBVIOUS
<1>1. WellFormed(graph, dependencies)
  BY InputsAssumption DEF Init
<1>2. Len(graph) \in Nat /\ DOMAIN graph = 1 .. Len(graph)
  BY <1>1, LenProperties DEF WellFormed
<1>3. /\ Len(<<>>) = 0 /\ DOMAIN <<>> = 1 .. 0
      /\ <<>> \in Seq(Range(graph)) /\ <<>> \in Seq(Frame) /\ <<>> \in Seq(Node)
  BY EmptySeq
<1>4. TypeOK
  <2>1. in_degree \in [IF phase = "count" THEN {} ELSE DOMAIN graph -> Int]
    BY DEF Init, Idle
  <2> QED
    BY <1>1, <1>2, <1>3, <2>1 DEF Init, Idle, TypeOK, Phases
<1>5. Generated = {} /\ DOMAIN stack = {} /\ DOMAIN program = {}
  BY <1>3 DEF Init, Idle, Generated, Range
<1>6. Calls /\ Marks /\ Walk /\ OnlyNeeded /\ RestPassed
  BY <1>5 DEF Init, Idle, Calls, Marks, Walk, OnceOnStack, LoopBounds, Linked, SeenTo,
              OnlyNeeded, RestPassed
<1>7. GenerationOrder /\ CyclicOnlyOnCycle
  BY <1>5 DEF Init, Idle, GenerationOrder, IsInjective, CyclicOnlyOnCycle
<1>8. InDegrees /\ Queued
  BY DEF Init, Idle, InDegrees, Queued, Counted
<1>9. FirstPhase
  <2>1. processed = 0 /\ stack = <<>>
    BY DEF Init, Idle
  <2>2. Len(stack) = 0
    BY <1>3, <2>1
  <2>3. processed - Len(stack) = 0
    <3>1. \A a, b : a = 0 /\ b = 0 => a - b = 0
      OBVIOUS
    <3> QED
      BY <2>1, <2>2, <3>1
  <2> QED
    BY <1>5, <2>1, <2>3 DEF FirstPhase
<1>10. QueueInBounds
  BY <1>2, <1>3 DEF Init, Idle, QueueInBounds, IsInjective
<1> QED
  BY <1>4, <1>6, <1>7, <1>8, <1>9, <1>10 DEF Inv

LEMMA InvStep == Inv /\ [Next]_vars => Inv'
<1> SUFFICES ASSUME Inv, [Next]_vars PROVE Inv'
  OBVIOUS
<1> USE DEF Inv
<1>1. TypeOK' /\ Calls'
  BY TypeStep
<1>2. Marks' /\ Walk'
  BY WalkStep
<1>3. OnlyNeeded' /\ RestPassed'
  BY NeededStep, RestStep
<1>4. GenerationOrder' /\ CyclicOnlyOnCycle'
  BY OrderStep, CyclicStep
<1>5. InDegrees' /\ Queued' /\ IsInjective(queue')
  BY InDegreesStep, QueueStep
<1>6. QueueInBounds'
  BY <1>1, <1>5, BoundsStep
<1>7. FirstPhase'
  BY FirstPhaseStep
<1> QED
  BY <1>1, <1>2, <1>3, <1>4, <1>5, <1>6, <1>7

\* The inductive invariant holds of every run of the generator: the marks, the
\* active calls, the queue and the counts agree with one another and with the
\* program at every step (typer.c:230-299).
THEOREM Invariance == Spec => []Inv
BY InvInit, InvStep, PTL DEF Spec

\* Every variable of the generator keeps its type.
THEOREM TypeCorrectness == Spec => []TypeOK
<1>1. Inv => TypeOK
  BY DEF Inv
<1> QED
  BY <1>1, Invariance, PTL

\* Whatever the graph, program->statements is an order of generation: no node
\* is typed twice or before a node it depends on (typer.c:230-248).
THEOREM OrderCorrectness == Spec => []GenerationOrder
<1>1. Inv => GenerationOrder
  BY DEF Inv
<1> QED
  BY <1>1, Invariance, PTL

\* "cyclic dependency detected" is never reported of a graph without a cycle
\* among the nodes the declarations need (typer.c:233-236).
THEOREM CycleCorrectness == Spec => []CyclicOnlyOnCycle
<1>1. Inv => CyclicOnlyOnCycle
  BY DEF Inv
<1> QED
  BY <1>1, Invariance, PTL

LEMMA InvComplete == Inv => DoneIsComplete
BY Completeness DEF Inv

LEMMA InvCompleteNext == Inv /\ [Next]_vars => DoneIsComplete'
BY InvComplete, InvStep, PTL

\* A program that generate_thir returns holds what the declarations need and
\* nothing else (typer.c:271-298).
THEOREM CompletenessCorrectness == Spec => []DoneIsComplete
BY InvComplete, Invariance, PTL

\* The queue never outgrows the graph->length slots it was allocated with, and
\* no in-degree is counted below zero (typer.c:257, 278-284).
THEOREM QueueCorrectness == Spec => []QueueInBounds
<1>1. Inv => QueueInBounds
  BY DEF Inv
<1> QED
  BY <1>1, Invariance, PTL

\* In the first phase generate_thir_for_node is never more than one call deep
\* and generates only what the queue holds (typer.c:271-273).
THEOREM FirstPhaseCorrectness == Spec => []QueueNeverRecurses
<1>1. Inv => QueueNeverRecurses
  <2>1. SUFFICES ASSUME Inv, phase \in {"kahn", "decrement"}
                 PROVE  Len(stack) <= 1 /\ Generated \subseteq Range(queue)
    BY DEF QueueNeverRecurses
  <2>2. TypeOK /\ FirstPhase
    BY <2>1 DEF Inv
  <2>3. Len(stack) <= 1 /\ Len(stack) \in Nat
    <3>1. CASE stack = <<>>
      BY <3>1, EmptySeq
    <3>2. CASE stack # <<>>
      <4>1. Len(stack) = 1
        BY <2>1, <2>2, <3>2 DEF FirstPhase
      <4> QED
        BY <4>1
    <3> QED
      BY <3>1, <3>2
  <2>4. \A q \in 1 .. processed - Len(stack) : q \in DOMAIN queue
    BY <2>2, <2>3, GraphFacts DEF TypeOK
  <2> QED
    BY <2>1, <2>2, <2>3, <2>4 DEF FirstPhase, Range
<1> QED
  BY <1>1, Invariance, PTL

-----------------------------------------------------------------------------
(* The generator implements the abstract order of generation.              *)

\* The two modules mean the same by what the roots need.
LEMMA OrderNeeded ==
  /\ Order!Needed = Needed
  /\ Order!Generated = Generated
  /\ \A n : Order!DependsOn(n) = DependsOn(n)
<1>1. \A f : Order!Range(f) = Range(f)
  BY DEF Order!Range, Range
<1>2. Order!Generated = Generated /\ Order!Roots = Roots
  BY <1>1 DEF Order!Generated, Generated, Order!Roots, Roots
<1>3. \A n : Order!DependsOn(n) = DependsOn(n)
  BY <1>1 DEF Order!DependsOn, DependsOn
<1>4. \A S : Order!Closed(S) <=> Closed(S)
  BY <1>3 DEF Order!Closed, Closed
<1>5. Order!Needed = Needed
  BY <1>2, <1>4 DEF Order!Needed, Needed
<1> QED
  BY <1>2, <1>3, <1>5

LEMMA OrderReady ==
  ASSUME Inv, phase \notin Halted, stack # <<>>, Top.next > Len(dependencies[Top.node])
  PROVE  Top.node \in Node /\ Order!Ready(Top.node)
<1>1. Top.node \in Node /\ Top.node \in Needed
  BY TopFrame DEF Inv, OnlyNeeded, Top
<1>2. Top.node \notin Generated /\ DependsOn(Top.node) \subseteq Generated
  BY TopReady DEF Inv
<1> QED
  BY <1>1, <1>2, OrderNeeded DEF Order!Ready

LEMMA OrderStepRefined ==
  ASSUME Inv, [Next]_vars
  PROVE  [Order!Next]_(Order!vars)
<1>1. CASE GenerateNode
  <2>1. Top.node \in Node /\ Order!Ready(Top.node)
    BY <1>1, OrderReady DEF GenerateNode
  <2>2. /\ verdict = "running" /\ verdict' = verdict
        /\ program' = Append(program, Top.node) /\ UNCHANGED <<graph, dependencies>>
    BY <1>1 DEF GenerateNode, verdict, inputs
  <2> QED
    BY <2>1, <2>2 DEF Order!Next, Order!Generate
<1>2. CASE FailNode
  <2>1. Top.node \in Node /\ Order!Ready(Top.node)
    BY <1>2, OrderReady DEF FailNode
  <2>2. /\ verdict = "running" /\ verdict' = "failed"
        /\ UNCHANGED <<graph, dependencies, program>>
    BY <1>2 DEF FailNode, verdict, inputs, Halted
  <2> QED
    BY <2>1, <2>2 DEF Order!Next, Order!RejectNode
<1>3. CASE Return
  <2>1. Inv' /\ phase' = "done" /\ UNCHANGED <<graph, dependencies, program>>
    BY <1>3, InvStep DEF Return, inputs
  <2>2. DoneIsComplete'
    BY InvCompleteNext
  <2>3. Order!Needed \subseteq Order!Generated
    <3>1. Needed' = Needed /\ Generated' = Generated
      BY <2>1, NeededConstant DEF Generated, inputs
    <3> QED
      BY <2>1, <2>2, <3>1, OrderNeeded DEF DoneIsComplete
  <2>4. verdict = "running" /\ verdict' = "done"
    BY <1>3 DEF Return, verdict, Halted
  <2> QED
    BY <2>1, <2>3, <2>4 DEF Order!Next, Order!Finish
<1>4. CASE (Visit \/ Dequeue \/ ResolveRest) /\ phase' = "cyclic"
  <2>1. /\ CyclicOnlyOnCycle' /\ Needed' = Needed
        /\ \A n : DependsOn(n)' = DependsOn(n)
        /\ UNCHANGED <<graph, dependencies, program>>
    <3>1. UNCHANGED inputs /\ UNCHANGED program
      BY <1>4 DEF Visit, Dequeue, ResolveRest
    <3>2. CyclicOnlyOnCycle'
      BY InvStep DEF Inv
    <3> QED
      BY <3>1, <3>2, NeededConstant DEF inputs
  <2>2. PICK C \in SUBSET Needed : C # {} /\ \A n \in C : DependsOn(n) \cap C # {}
    BY <1>4, <2>1 DEF CyclicOnlyOnCycle
  <2>3. Order!Cyclic
    BY <2>2, OrderNeeded DEF Order!Cyclic
  <2>4. verdict = "running" /\ verdict' = "cyclic"
    BY <1>4 DEF Visit, Dequeue, ResolveRest, verdict, Halted
  <2> QED
    BY <2>1, <2>3, <2>4 DEF Order!Next, Order!RejectCycle
<1>5. CASE (Visit \/ Dequeue \/ ResolveRest) /\ phase' # "cyclic"
  <2>1. phase \notin Halted /\ phase' \notin Halted
    BY <1>5, NextCall, FirstCall DEF Inv, Visit, Dequeue, ResolveRest, Enter, Halted
  <2>2. UNCHANGED <<graph, dependencies, program, verdict>>
    BY <1>5, <2>1 DEF Visit, Dequeue, ResolveRest, inputs, verdict
  <2> QED
    BY <2>2 DEF Order!vars
<1>6. CASE \/ CountInDegrees \/ SeedQueue \/ EndSeed \/ Decrement \/ EndDecrement
           \/ EndKahn \/ Halt \/ UNCHANGED vars
  BY <1>6 DEF CountInDegrees, SeedQueue, EndSeed, Decrement, EndDecrement, EndKahn,
     Halt, vars, inputs, verdict, Halted, Order!vars
<1> QED
  BY <1>1, <1>2, <1>3, <1>4, <1>5, <1>6 DEF Next, generate_thir_for_node, generate_thir

\* Every behaviour of the generator is one of CompileOrder: it starts from an
\* empty program, adds only nodes that are ready, and ends with the verdict the
\* abstract specification allows (the safety part of ImplementsCompileOrder).
THEOREM Refinement == Spec => Order!Init /\ [][Order!Next]_(Order!vars)
<1>1. Init => Order!Init
  BY InputsAssumption DEF Init, Idle, WellFormed, Order!Init, verdict, Halted
<1>2. Inv /\ [Next]_vars => [Order!Next]_(Order!vars)
  BY OrderStepRefined
<1> QED
  BY <1>1, <1>2, Invariance, PTL DEF Spec

=============================================================================
