---------------------------- MODULE StorageProofs ----------------------------
(***************************************************************************)
(* Theorems about Storage, for every arena, list and number of nodes:      *)
(* Spec => []TypeOK, Spec => []NodesAreApart, Spec => []ListHoldsNodes and *)
(* Spec => []StartsZeroed.                                                 *)
(***************************************************************************)
EXTENDS Storage, SequenceTheorems, TLAPS

-----------------------------------------------------------------------------
(***************************************************************************)
(* The type invariant                                                      *)
(***************************************************************************)
LEMMA ArenaType ==
  ASSUME TypeOK
  PROVE  /\ arena.limit \in Nat /\ arena.limit > 0
         /\ arena.room \in Nat
         /\ arena.size \in Nat /\ arena.size > 0
         /\ arena.zeroed \in BOOLEAN /\ arena.clears \in BOOLEAN
         /\ arena.limit - 1 + arena.size <= arena.room
BY StorageAssumption DEF TypeOK, ArenaKinds

\* A list that is full grows: one and a half times its block is more than the
\* block, unless that has a single cell.
LEMMA GrownIsNat ==
  ASSUME NEW c \in Nat, list \in Lists
  PROVE  Grown(c) \in Nat
<1>1. list \in {"vector", "node_list", "dep_list"}
  BY StorageAssumption
<1>2. CASE list = "vector"
  BY <1>2 DEF Grown
<1>3. CASE list = "node_list"
  BY <1>3 DEF Grown
<1>4. CASE list = "dep_list"
  <2>1. (3 * c) \div 2 \in Nat
    OBVIOUS
  <2> QED BY <2>1, <1>4 DEF Grown
<1> QED BY <1>1, <1>2, <1>3, <1>4

LEMMA GrownGrows ==
  ASSUME NEW c \in Nat, list \in Lists, list = "dep_list" => c # 1
  PROVE  Grown(c) > c /\ Grown(c) # 0 /\ (list = "dep_list" => Grown(c) # 1)
<1>1. list \in {"vector", "node_list", "dep_list"}
  BY StorageAssumption
<1>2. CASE list = "vector"
  BY <1>2 DEF Grown
<1>3. CASE list = "node_list"
  BY <1>3 DEF Grown
<1>4. CASE list = "dep_list"
  <2>1. c > 1 => (3 * c) \div 2 > c
    OBVIOUS
  <2> QED BY <2>1, <1>4 DEF Grown
<1> QED BY <1>1, <1>2, <1>3, <1>4

-----------------------------------------------------------------------------
(***************************************************************************)
(* The type invariant                                                      *)
(***************************************************************************)
Chunk  == 1 .. Len(chunks)
Record == [address : Addresses, zeroed : BOOLEAN]

\* The chunk arena_alloc looks at is there, and its length a number.
LEMMA ChunkAt ==
  ASSUME TypeOK, at # 0
  PROVE  at \in Chunk /\ chunks[at] \in Nat /\ Len(chunks) \in Nat
BY DEF TypeOK, Chunk

\* The chunks there are stay, and a last one may join them.
LEMMA MoreChunks ==
  ASSUME TypeOK, NextChunk
  PROVE  /\ chunks' \in Seq(Nat) /\ chunks' # <<>> /\ at' \in 0 .. Len(chunks')
         /\ Chunk \subseteq Chunk'
         /\ \A c \in Chunk : chunks'[c] = chunks[c]
<1>1. at \in Chunk /\ Len(chunks) \in Nat /\ chunks \in Seq(Nat) /\ at' = at + 1
  BY ChunkAt DEF NextChunk, TypeOK
<1>2. CASE at = Len(chunks)
  <2>1. chunks' = Append(chunks, 0)
    BY <1>2 DEF NextChunk
  <2>2. chunks' \in Seq(Nat) /\ Len(chunks') = Len(chunks) + 1
    BY <1>1, <2>1
  <2>3. \A c \in Chunk : chunks'[c] = chunks[c]
    BY <1>1, <2>1 DEF Chunk
  <2> QED
    BY <1>1, <2>2, <2>3 DEF Chunk
<1>3. CASE at # Len(chunks)
  <2>1. chunks' = chunks
    BY <1>3 DEF NextChunk
  <2> QED
    BY <1>1, <1>3, <2>1 DEF Chunk
<1> QED
  BY <1>2, <1>3

\* What Allocate appends is a record of a node.
LEMMA NewNode ==
  ASSUME TypeOK, at # 0
  PROVE  Taken(Address(at, chunks[at]), arena.clears \/ (arena.zeroed /\ at = 1)) \in Record
<1>1. Address(at, chunks[at]) \in Addresses
  BY ChunkAt DEF TypeOK, Address, Addresses, Chunk
<1>2. (arena.clears \/ (arena.zeroed /\ at = 1)) \in BOOLEAN
  OBVIOUS
<1> QED
  BY <1>1, <1>2 DEF Taken, Record

\* realloc gives a block of the capacity that was asked for, and keeps what
\* was in the old one.
LEMMA ResizedBlock ==
  ASSUME TypeOK, NEW c \in Nat
  PROVE  /\ Resized(c) \in Seq(Addresses)
         /\ Len(Resized(c)) = c
         /\ \A k \in 1 .. c : k <= capacity => Resized(c)[k] = data[k]
<1>1. Junk \in Addresses
  BY DEF Junk, Address, Addresses
<1>2. data \in Seq(Addresses) /\ capacity \in Nat
  BY DEF TypeOK, capacity
<1>3. \A k \in 1 .. c : (IF k <= capacity THEN data[k] ELSE Junk) \in Addresses
  BY <1>1, <1>2 DEF capacity
<1>4. Resized(c) \in [1 .. c -> Addresses]
  BY <1>3 DEF Resized
<1>5. Resized(c) \in Seq(Addresses) /\ Len(Resized(c)) = c
  BY <1>4, SeqDef, LenProperties
<1> QED
  BY <1>5 DEF Resized

\* The block Push writes to: the old one, or a larger one that starts with it.
Block == IF length >= capacity THEN Resized(Grown(capacity)) ELSE data

LEMMA BlockType ==
  ASSUME TypeOK
  PROVE  Block \in Seq(Addresses) /\ Len(Block) \in Nat /\ capacity \in Nat
<1>1. data \in Seq(Addresses) /\ capacity \in Nat /\ list \in Lists
  BY DEF TypeOK, capacity
<1>2. Grown(capacity) \in Nat
  BY <1>1, GrownIsNat
<1> QED
  BY <1>1, <1>2, ResizedBlock DEF Block

\* A node is pushed to the block, whether it has a cell for it or not.
LEMMA PushBlock ==
  ASSUME Push
  PROVE  /\ at = 0 /\ length < Len(nodes)
         /\ data' = [Block EXCEPT ![length + 1] = nodes[Len(nodes)].address]
         /\ length' = length + 1
         /\ UNCHANGED <<arena, chunks, at, nodes, list>>
BY DEF Push, Block, arena_vars

\* The node pushed is the last that was taken.
LEMMA LastNode ==
  ASSUME TypeOK, Push
  PROVE  Len(nodes) \in 1 .. Len(nodes) /\ nodes[Len(nodes)].address \in Addresses
<1>1. Len(nodes) \in Nat /\ length \in Nat /\ length < Len(nodes) /\ nodes \in Seq(Record)
  BY PushBlock DEF TypeOK, Record
<1>2. Len(nodes) \in 1 .. Len(nodes)
  BY <1>1
<1>3. nodes[Len(nodes)] \in Record
  BY <1>1, <1>2, ElementOfSeq
<1> QED
  BY <1>2, <1>3 DEF Record

\* The block after Push has the cells of the block before.
LEMMA PushedBlock ==
  ASSUME TypeOK, Push
  PROVE  /\ data' \in Seq(Addresses) /\ Len(data') = Len(Block)
         /\ \A k \in 1 .. Len(Block) :
              data'[k] = IF k = length + 1 THEN nodes[Len(nodes)].address ELSE Block[k]
<1>1. Block \in [1 .. Len(Block) -> Addresses] /\ Len(Block) \in Nat
  BY BlockType
<1>2. data' = [Block EXCEPT ![length + 1] = nodes[Len(nodes)].address]
  BY PushBlock
<1>3. data' \in [1 .. Len(Block) -> Addresses]
  BY <1>1, <1>2, LastNode
<1>4. data' \in Seq(Addresses) /\ Len(data') = Len(Block)
  BY <1>1, <1>3, SeqDef, LenProperties
<1>5. ASSUME NEW k \in 1 .. Len(Block)
      PROVE  data'[k] = IF k = length + 1 THEN nodes[Len(nodes)].address ELSE Block[k]
  BY <1>1, <1>2
<1> QED
  BY <1>4, <1>5

\* There is always a first chunk.
Typed == TypeOK /\ chunks # <<>>

\* The variables keep their types; arena_alloc looks at a chunk that is there.
THEOREM TypeCorrect == Spec => []TypeOK
<1>1. Init => Typed
  BY StorageAssumption DEF Init, TypeOK, Typed
<1>2. Typed /\ [Next]_vars => Typed'
  <2> SUFFICES ASSUME TypeOK, chunks # <<>>, [Next]_vars
               PROVE  TypeOK' /\ chunks' # <<>>
    BY DEF Typed
  <2> USE DEF TypeOK
  <2>1. CASE AskForNode
    <3>1. chunks \in Seq(Nat) /\ Len(chunks) \in Nat /\ Len(chunks) > 0
      BY EmptySeq
    <3>2. at' \in 0 .. Len(chunks')
      BY <2>1, <3>1 DEF AskForNode
    <3> QED BY <2>1, <3>2 DEF AskForNode, list_vars
  <2>2. CASE Allocate
    <3>1. nodes' \in Seq(Record)
      BY <2>2, NewNode DEF Allocate, Record
    <3>2. chunks' \in Seq(Nat) /\ Len(chunks') \in Nat /\ chunks' # <<>>
      BY <2>2, ChunkAt, ArenaType DEF Allocate, Chunk
    <3> QED BY <2>2, <3>1, <3>2 DEF Allocate, Record, list_vars
  <2>3. CASE NextChunk
    <3>1. chunks' \in Seq(Nat) /\ at' \in 0 .. Len(chunks') /\ chunks' # <<>>
      BY <2>3, MoreChunks
    <3> QED BY <2>3, <3>1 DEF NextChunk, list_vars
  <2>4. CASE Push
    BY <2>4, PushBlock, PushedBlock
  <2>5. CASE UNCHANGED vars
    BY <2>5 DEF vars, arena_vars, list_vars
  <2> QED
    BY <2>1, <2>2, <2>3, <2>4, <2>5 DEF Next, Take, Full
<1>3. Typed => TypeOK
  BY DEF Typed
<1> QED
  BY <1>1, <1>2, <1>3, PTL DEF Spec

-----------------------------------------------------------------------------
(***************************************************************************)
(* The list                                                                *)
(***************************************************************************)
\* Besides what ListHoldsNodes says: a list of DepNodes never has a block of
\* one cell, and the list is at most one node behind the arena, none while a
\* node is being taken.
ListInv ==
  /\ TypeOK
  /\ ListHoldsNodes
  /\ list = "dep_list" => capacity # 1
  /\ length <= Len(nodes) /\ Len(nodes) <= length + 1
  /\ at # 0 => Len(nodes) = length

LEMMA ListInvInit == Init => ListInv
BY StorageAssumption DEF Init, TypeOK, ListInv, ListHoldsNodes, capacity

\* The block Push writes to has a cell for the node.
LEMMA BlockHasRoom ==
  ASSUME ListInv, Push
  PROVE  /\ length < Len(Block)
         /\ list = "dep_list" => Len(Block) # 1
         /\ \A k \in 1 .. length : Block[k] = data[k]
<1>1. TypeOK /\ capacity \in Nat /\ length \in Nat /\ length <= capacity /\ list \in Lists
  BY BlockType DEF ListInv, ListHoldsNodes, TypeOK
<1>2. CASE length >= capacity
  <2>1. /\ Grown(capacity) \in Nat /\ Grown(capacity) > capacity
        /\ list = "dep_list" => Grown(capacity) # 1
    BY <1>1, GrownIsNat, GrownGrows DEF ListInv
  <2>2. Block = Resized(Grown(capacity))
    BY <1>2 DEF Block
  <2>3. /\ Len(Block) = Grown(capacity)
        /\ \A k \in 1 .. Grown(capacity) : k <= capacity => Block[k] = data[k]
    BY <1>1, <2>1, <2>2, ResizedBlock
  <2>4. length = capacity
    BY <1>1, <1>2
  <2> HIDE DEF capacity
  <2>5. \A k \in 1 .. length : k \in 1 .. Grown(capacity) /\ k <= capacity
    BY <1>1, <2>1, <2>4
  <2> QED
    BY <1>1, <2>1, <2>3, <2>4, <2>5
<1>3. CASE ~(length >= capacity)
  BY <1>1, <1>3 DEF Block, ListInv, capacity
<1> QED
  BY <1>2, <1>3

LEMMA ListInvPush ==
  ASSUME ListInv, Push, TypeOK'
  PROVE  ListInv'
<1>1. TypeOK /\ length \in Nat /\ Len(nodes) \in Nat
  BY DEF ListInv, TypeOK
<1>2. /\ length' = length + 1 /\ nodes' = nodes /\ at' = at /\ list' = list
      /\ at = 0 /\ Len(nodes) = length + 1
  BY <1>1, PushBlock DEF ListInv
<1>3. Len(Block) \in Nat /\ capacity' = Len(Block)
  BY <1>1, BlockType, PushedBlock DEF capacity
<1>4. length' <= capacity' /\ (list' = "dep_list" => capacity' # 1)
  BY <1>1, <1>2, <1>3, BlockHasRoom
<1>5. ASSUME NEW k \in 1 .. length'
      PROVE  data'[k] = nodes'[k].address
  <2>1. k \in 1 .. Len(Block)
    BY <1>1, <1>2, <1>3, <1>4
  <2>2. data'[k] = IF k = length + 1 THEN nodes[Len(nodes)].address ELSE Block[k]
    BY <1>1, <2>1, PushedBlock
  <2>3. CASE k = length + 1
    BY <1>2, <2>2, <2>3
  <2>4. CASE k # length + 1
    <3>1. k \in 1 .. length
      BY <1>1, <1>2, <2>4
    <3> QED
      BY <1>2, <2>2, <2>4, <3>1, BlockHasRoom DEF ListInv, ListHoldsNodes
  <2> QED
    BY <2>3, <2>4
<1> QED
  BY <1>1, <1>2, <1>4, <1>5 DEF ListInv, ListHoldsNodes

\* The list holds the nodes, in every state, through every move of its block.
THEOREM ListIsKept == Spec => []ListHoldsNodes
<1>1. ListInv /\ TypeOK' /\ [Next]_vars => ListInv'
  <2> SUFFICES ASSUME ListInv, TypeOK', [Next]_vars
               PROVE  ListInv'
    OBVIOUS
  <2>1. CASE AskForNode
    BY <2>1 DEF AskForNode, Idle, list_vars, ListInv, ListHoldsNodes, capacity
  <2>2. CASE Allocate
    <3>1. nodes \in Seq(Record) /\ Len(nodes) = length /\ length \in Nat
      BY <2>2 DEF ListInv, TypeOK, Allocate, Record
    <3>2. Len(nodes') = Len(nodes) + 1 /\ \A k \in 1 .. Len(nodes) : nodes'[k] = nodes[k]
      BY <2>2, <3>1 DEF Allocate
    <3>3. ListHoldsNodes'
      BY <2>2, <3>1, <3>2 DEF Allocate, list_vars, ListInv, ListHoldsNodes, capacity
    <3> QED
      BY <2>2, <3>1, <3>2, <3>3 DEF Allocate, list_vars, ListInv, capacity
  <2>3. CASE NextChunk
    <3>1. at # 0 /\ UNCHANGED <<nodes, list, data, length>>
      BY <2>3 DEF NextChunk, list_vars
    <3> QED
      BY <3>1 DEF ListInv, ListHoldsNodes, capacity
  <2>4. CASE Push
    BY <2>4, ListInvPush
  <2>5. CASE UNCHANGED vars
    BY <2>5 DEF vars, arena_vars, list_vars, ListInv, ListHoldsNodes, capacity
  <2> QED
    BY <2>1, <2>2, <2>3, <2>4, <2>5 DEF Next, Take, Full
<1>2. ListInv => ListHoldsNodes
  BY DEF ListInv
<1> QED
  BY <1>1, <1>2, ListInvInit, TypeCorrect, PTL DEF Spec

-----------------------------------------------------------------------------
(***************************************************************************)
(* The arena                                                               *)
(***************************************************************************)
\* Every node lies in front of the end of its chunk.
ArenaInv ==
  /\ TypeOK
  /\ NodesAreApart
  /\ \A k \in DOMAIN nodes :
       /\ nodes[k].address.chunk \in Chunk
       /\ nodes[k].address.offset + arena.size <= chunks[nodes[k].address.chunk]

\* The facts about a node that was taken.
LEMMA TakenNode ==
  ASSUME TypeOK, NEW k \in DOMAIN nodes
  PROVE  k \in 1 .. Len(nodes) /\ nodes[k].address.chunk \in Nat /\ nodes[k].address.offset \in Nat
<1>1. k \in 1 .. Len(nodes) /\ nodes \in Seq(Record)
  BY DEF TypeOK, Record
<1>2. nodes[k] \in Record
  BY <1>1, ElementOfSeq
<1> QED
  BY <1>1, <1>2 DEF Record, Addresses

\* What Allocate does to the chunks and the nodes.
LEMMA AllocateFacts ==
  ASSUME TypeOK, Allocate
  PROVE  /\ at \in Chunk /\ chunks[at] \in Nat /\ chunks[at] < arena.limit
         /\ arena' = arena /\ Chunk' = Chunk
         /\ chunks'[at] = chunks[at] + arena.size
         /\ \A c \in Chunk : c # at => chunks'[c] = chunks[c]
         /\ Len(nodes) \in Nat /\ Len(nodes') = Len(nodes) + 1
         /\ DOMAIN nodes' = 1 .. Len(nodes) + 1
         /\ DOMAIN nodes = 1 .. Len(nodes)
         /\ \A k \in 1 .. Len(nodes) : nodes'[k] = nodes[k]
         /\ nodes'[Len(nodes) + 1].address.chunk = at
         /\ nodes'[Len(nodes) + 1].address.offset = chunks[at]
         /\ nodes'[Len(nodes) + 1].zeroed = (arena.clears \/ (arena.zeroed /\ at = 1))
<1>1. at \in Chunk /\ chunks[at] \in Nat /\ Len(chunks) \in Nat
  BY ChunkAt DEF Allocate
<1>2. chunks[at] < arena.limit /\ arena' = arena
  BY DEF Allocate, HasRoom
<1>3. chunks' = [chunks EXCEPT ![at] = chunks[at] + arena.size] /\ chunks \in Seq(Nat)
  BY DEF Allocate, TypeOK
<1>4. Chunk' = Chunk /\ chunks'[at] = chunks[at] + arena.size
      /\ \A c \in Chunk : c # at => chunks'[c] = chunks[c]
  BY <1>1, <1>3 DEF Chunk
<1> DEFINE new == Taken(Address(at, chunks[at]), arena.clears \/ (arena.zeroed /\ at = 1))
<1>5. nodes' = Append(nodes, new) /\ nodes \in Seq(Record) /\ new \in Record
  BY NewNode DEF Allocate, TypeOK, Record
<1>6. new.address.chunk = at /\ new.address.offset = chunks[at]
      /\ new.zeroed = (arena.clears \/ (arena.zeroed /\ at = 1))
  BY DEF Taken, Address
<1> HIDE DEF new
<1>7. /\ Len(nodes) \in Nat /\ Len(nodes') = Len(nodes) + 1
      /\ DOMAIN nodes' = 1 .. Len(nodes) + 1
      /\ DOMAIN nodes = 1 .. Len(nodes)
      /\ nodes'[Len(nodes) + 1] = new
      /\ \A k \in 1 .. Len(nodes) : nodes'[k] = nodes[k]
  BY <1>5
<1> QED
  BY <1>1, <1>2, <1>4, <1>6, <1>7

LEMMA ArenaInvAllocate ==
  ASSUME ArenaInv, Allocate, TypeOK'
  PROVE  ArenaInv'
<1>1. TypeOK
  BY DEF ArenaInv
<1> DEFINE n == Len(nodes) + 1
           Old(k) == k \in 1 .. Len(nodes)
<1>2. arena.size \in Nat /\ arena.limit \in Nat /\ arena.room \in Nat
      /\ arena.limit - 1 + arena.size <= arena.room
  BY <1>1, ArenaType
<1>3. \A k \in DOMAIN nodes' : Old(k) \/ k = n
  BY <1>1, AllocateFacts
<1>4. ASSUME NEW k \in DOMAIN nodes', Old(k)
      PROVE  /\ nodes'[k] = nodes[k] /\ k \in DOMAIN nodes
             /\ nodes[k].address.chunk \in Chunk /\ nodes[k].address.offset \in Nat
             /\ nodes[k].address.offset + arena.size <= chunks[nodes[k].address.chunk]
             /\ nodes[k].address.offset + arena.size <= arena.room
  BY <1>1, <1>4, AllocateFacts, TakenNode DEF ArenaInv, NodesAreApart
<1>5. /\ nodes'[n].address.chunk = at /\ nodes'[n].address.offset = chunks[at]
      /\ at \in Chunk /\ chunks[at] \in Nat /\ chunks[at] < arena.limit
  BY <1>1, AllocateFacts
<1>6. ASSUME NEW k \in DOMAIN nodes'
      PROVE  /\ nodes'[k].address.chunk \in Chunk'
             /\ nodes'[k].address.offset + arena'.size <= chunks'[nodes'[k].address.chunk]
             /\ nodes'[k].address.offset + arena'.size <= arena'.room
  <2>1. CASE Old(k)
    <3> DEFINE c == nodes[k].address.chunk
    <3>1. c \in Chunk /\ chunks[c] \in Nat
      BY <1>1, <1>4, <2>1 DEF TypeOK, Chunk
    <3> HIDE DEF c
    <3>2. chunks[c] <= chunks'[c] /\ chunks'[c] \in Nat
      <4>1. CASE c = at
        BY <1>1, <1>2, <1>5, <4>1, AllocateFacts
      <4>2. CASE c # at
        BY <1>1, <3>1, <4>2, AllocateFacts
      <4> QED
        BY <4>1, <4>2
    <3>4. nodes'[k] = nodes[k] /\ Chunk' = Chunk /\ arena' = arena
          /\ nodes[k].address.offset \in Nat
          /\ nodes[k].address.offset + arena.size <= chunks[c]
          /\ nodes[k].address.offset + arena.size <= arena.room
      BY <1>1, <1>4, <2>1, AllocateFacts DEF c
    <3>5. nodes[k].address.offset + arena.size <= chunks'[c]
      BY <1>2, <3>1, <3>2, <3>4
    <3> QED
      BY <3>1, <3>4, <3>5 DEF c
  <2>2. CASE k = n
    BY <1>1, <1>2, <1>5, <2>2, AllocateFacts
  <2> QED
    BY <1>3, <2>1, <2>2
<1>7. ASSUME NEW j \in DOMAIN nodes', NEW k \in DOMAIN nodes',
             nodes'[j].address.chunk = nodes'[k].address.chunk, j < k
      PROVE  nodes'[j].address.offset + arena'.size <= nodes'[k].address.offset
  <2>1. Old(j)
    BY <1>1, <1>3, <1>7, AllocateFacts
  <2>2. CASE Old(k)
    <3>1. j < k /\ nodes[j].address.chunk = nodes[k].address.chunk
      BY <1>4, <1>7, <2>1, <2>2
    <3>2. nodes[j].address.offset + arena.size <= nodes[k].address.offset
      BY <1>4, <2>1, <2>2, <3>1 DEF ArenaInv, NodesAreApart
    <3> QED
      BY <1>1, <1>4, <2>1, <2>2, <3>2, AllocateFacts
  <2>3. CASE k = n
    BY <1>1, <1>4, <1>5, <1>7, <2>1, <2>3, AllocateFacts
  <2> QED
    BY <1>3, <2>2, <2>3
<1> QED
  BY <1>6, <1>7 DEF ArenaInv, NodesAreApart

LEMMA ArenaInvNextChunk ==
  ASSUME ArenaInv, NextChunk, TypeOK'
  PROVE  ArenaInv'
<1>1. nodes' = nodes /\ arena' = arena /\ TypeOK
  BY DEF NextChunk, ArenaInv
<1>2. /\ Chunk \subseteq Chunk'
      /\ \A c \in Chunk : chunks'[c] = chunks[c]
  BY <1>1, MoreChunks
<1> QED
  BY <1>1, <1>2 DEF ArenaInv, NodesAreApart

LEMMA ArenaInvIdle ==
  ASSUME ArenaInv, UNCHANGED <<arena, chunks, nodes>>, TypeOK'
  PROVE  ArenaInv'
<1>1. Chunk' = Chunk
  BY DEF Chunk
<1> QED
  BY <1>1 DEF ArenaInv, NodesAreApart

\* No two nodes share memory, and each lies in its chunk.
THEOREM NodesStayApart == Spec => []NodesAreApart
<1>1. Init => ArenaInv
  BY StorageAssumption DEF Init, TypeOK, ArenaInv, NodesAreApart
<1>2. ArenaInv /\ TypeOK' /\ [Next]_vars => ArenaInv'
  <2> SUFFICES ASSUME ArenaInv, TypeOK', [Next]_vars
               PROVE  ArenaInv'
    OBVIOUS
  <2>1. CASE Allocate
    BY <2>1, ArenaInvAllocate
  <2>2. CASE NextChunk
    BY <2>2, ArenaInvNextChunk
  <2>3. CASE AskForNode \/ Push \/ UNCHANGED vars
    <3>1. UNCHANGED <<arena, chunks, nodes>>
      BY <2>3 DEF AskForNode, Push, vars, arena_vars
    <3> QED
      BY <3>1, ArenaInvIdle
  <2> QED
    BY <2>1, <2>2, <2>3 DEF Next, Take, Full
<1>3. ArenaInv => NodesAreApart
  BY DEF ArenaInv
<1> QED
  BY <1>1, <1>2, <1>3, TypeCorrect, PTL DEF Spec

-----------------------------------------------------------------------------
(***************************************************************************)
(* Zeroes                                                                  *)
(***************************************************************************)
\* Either all nodes are of the first chunk and fill what is taken of it, or it
\* has been filled and another node taken since.
AllInFirst == /\ \A k \in DOMAIN nodes : nodes[k].address.chunk = 1
              /\ chunks[1] = Len(nodes) * arena.size
              /\ at # 0 /\ at # 1 => chunks[1] >= arena.limit

FirstIsFull == /\ chunks[1] >= arena.limit
               /\ Len(nodes) * arena.size > arena.limit

ZeroInv ==
  /\ TypeOK
  /\ 1 \in Chunk
  /\ \A k \in DOMAIN nodes :
       nodes[k].zeroed = (arena.clears \/ (arena.zeroed /\ nodes[k].address.chunk = 1))
  /\ AllInFirst \/ FirstIsFull

LEMMA OneMore ==
  ASSUME NEW n \in Nat, NEW s \in Nat
  PROVE  /\ n * s \in Nat
         /\ (n + 1) * s = n * s + s
OBVIOUS

LEMMA ZeroInvAllocate ==
  ASSUME ZeroInv, Allocate, TypeOK'
  PROVE  ZeroInv'
<1>1. TypeOK /\ 1 \in Chunk /\ chunks[1] \in Nat
  BY DEF ZeroInv, TypeOK, Chunk
<1>2. arena.size \in Nat /\ arena.size > 0 /\ arena.limit \in Nat /\ arena' = arena
  BY <1>1, ArenaType, AllocateFacts
<1> DEFINE n == Len(nodes)
           bytes == n * arena.size
           k1 == n + 1
<1>3. n \in Nat /\ DOMAIN nodes = 1 .. n /\ DOMAIN nodes' = 1 .. k1 /\ Len(nodes') = k1
  BY <1>1, AllocateFacts
<1>4. bytes \in Nat /\ Len(nodes') * arena.size = bytes + arena.size
  BY <1>2, <1>3, OneMore
<1>5. \A k \in DOMAIN nodes' :
        nodes'[k].zeroed = (arena'.clears \/ (arena'.zeroed /\ nodes'[k].address.chunk = 1))
  <2> SUFFICES ASSUME NEW k \in DOMAIN nodes'
      PROVE  nodes'[k].zeroed = (arena.clears \/ (arena.zeroed /\ nodes'[k].address.chunk = 1))
    BY <1>2
  <2>1. CASE k = k1
    BY <1>1, <2>1, AllocateFacts
  <2>2. CASE k # k1
    <3>1. k \in DOMAIN nodes /\ nodes'[k] = nodes[k]
      BY <1>1, <1>3, <2>2, AllocateFacts
    <3> QED
      BY <3>1 DEF ZeroInv
  <2> QED
    BY <2>1, <2>2
<1>6. at' = 0 /\ 1 \in Chunk' /\ chunks'[1] \in Nat /\ chunks'[1] >= chunks[1]
  <2>1. CASE at = 1
    BY <1>1, <1>2, <2>1, AllocateFacts DEF Allocate
  <2>2. CASE at # 1
    BY <1>1, <2>2, AllocateFacts DEF Allocate
  <2> QED
    BY <2>1, <2>2
<1>7. CASE AllInFirst /\ at = 1
  <2>1. chunks'[1] = bytes + arena.size
    BY <1>1, <1>7, AllocateFacts DEF AllInFirst
  <2>2. ASSUME NEW k \in DOMAIN nodes'
        PROVE  nodes'[k].address.chunk = 1
    <3>1. CASE k = k1
      BY <1>1, <1>7, <3>1, AllocateFacts
    <3>2. CASE k # k1
      <4>1. k \in DOMAIN nodes /\ nodes'[k] = nodes[k]
        BY <1>1, <1>3, <3>2, AllocateFacts
      <4> QED
        BY <1>7, <4>1 DEF AllInFirst
    <3> QED
      BY <3>1, <3>2
  <2>3. AllInFirst'
    BY <1>2, <1>4, <1>6, <2>1, <2>2 DEF AllInFirst
  <2> QED
    BY <1>5, <1>6, <2>3 DEF ZeroInv
<1>8. CASE AllInFirst /\ at # 1
  <2>1. chunks[1] >= arena.limit /\ chunks[1] = bytes
    BY <1>8 DEF AllInFirst, Allocate
  <2>2. FirstIsFull'
    BY <1>1, <1>2, <1>4, <1>6, <2>1 DEF FirstIsFull
  <2> QED
    BY <1>5, <1>6, <2>2 DEF ZeroInv
<1>9. CASE FirstIsFull
  <2>1. chunks[1] >= arena.limit /\ bytes > arena.limit
    BY <1>9 DEF FirstIsFull
  <2>2. FirstIsFull'
    BY <1>1, <1>2, <1>4, <1>6, <2>1 DEF FirstIsFull
  <2> QED
    BY <1>5, <1>6, <2>2 DEF ZeroInv
<1> QED
  BY <1>7, <1>8, <1>9 DEF ZeroInv

LEMMA ZeroInvNextChunk ==
  ASSUME ZeroInv, NextChunk, TypeOK'
  PROVE  ZeroInv'
<1>1. nodes' = nodes /\ arena' = arena /\ TypeOK /\ at # 0 /\ chunks[at] \in Nat
      /\ ~(chunks[at] < arena.limit)
  BY ChunkAt DEF NextChunk, ZeroInv, HasRoom
<1>2. 1 \in Chunk' /\ chunks'[1] = chunks[1]
  BY <1>1, MoreChunks DEF ZeroInv
<1>3. AllInFirst => AllInFirst'
  <2> SUFFICES ASSUME AllInFirst
               PROVE  chunks[1] >= arena.limit
    BY <1>1, <1>2 DEF AllInFirst
  <2>1. CASE at = 1
    BY <1>1, <2>1, ArenaType
  <2>2. CASE at # 1
    BY <1>1, <2>2 DEF AllInFirst
  <2> QED
    BY <2>1, <2>2
<1>4. FirstIsFull => FirstIsFull'
  BY <1>1, <1>2 DEF FirstIsFull
<1> QED
  BY <1>1, <1>2, <1>3, <1>4 DEF ZeroInv

LEMMA ZeroInvIdle ==
  ASSUME ZeroInv, UNCHANGED <<arena, chunks, nodes>>, at' = at \/ at' = 1, TypeOK'
  PROVE  ZeroInv'
<1>1. Chunk' = Chunk
  BY DEF Chunk
<1>2. (AllInFirst => AllInFirst') /\ (FirstIsFull => FirstIsFull')
  BY DEF AllInFirst, FirstIsFull
<1> QED
  BY <1>1, <1>2 DEF ZeroInv

\* Nodes start with zeroes while the first chunk lasts.
THEOREM NodesStartZeroed == Spec => []StartsZeroed
<1>1. Init => ZeroInv
  <2> SUFFICES ASSUME Init
               PROVE  ZeroInv
    OBVIOUS
  <2>1. TypeOK
    BY StorageAssumption DEF Init, TypeOK
  <2>2. chunks = <<0>> /\ 1 \in Chunk /\ chunks[1] = 0 /\ nodes = <<>> /\ at = 0
    BY DEF Init, Chunk
  <2>3. Len(nodes) = 0 /\ DOMAIN nodes = {} /\ Len(nodes) * arena.size = 0
    BY <2>1, <2>2, ArenaType
  <2> QED
    BY <2>1, <2>2, <2>3 DEF ZeroInv, AllInFirst
<1>2. ZeroInv /\ TypeOK' /\ [Next]_vars => ZeroInv'
  <2> SUFFICES ASSUME ZeroInv, TypeOK', [Next]_vars
               PROVE  ZeroInv'
    OBVIOUS
  <2>1. CASE Allocate
    BY <2>1, ZeroInvAllocate
  <2>2. CASE NextChunk
    BY <2>2, ZeroInvNextChunk
  <2>3. CASE AskForNode \/ Push \/ UNCHANGED vars
    <3>1. UNCHANGED <<arena, chunks, nodes>> /\ (at' = at \/ at' = 1)
      BY <2>3 DEF AskForNode, Push, vars, arena_vars
    <3> QED
      BY <3>1, ZeroInvIdle
  <2> QED
    BY <2>1, <2>2, <2>3 DEF Next, Take, Full
<1>3. ZeroInv => StartsZeroed
  <2> SUFFICES ASSUME ZeroInv, NEW k \in DOMAIN nodes,
                      arena.clears \/ (arena.zeroed /\ Len(nodes) * arena.size <= arena.limit)
               PROVE  nodes[k].zeroed
    BY DEF StartsZeroed
  <2>1. nodes[k].zeroed = (arena.clears \/ (arena.zeroed /\ nodes[k].address.chunk = 1))
    BY DEF ZeroInv
  <2>2. CASE AllInFirst
    BY <2>1, <2>2 DEF AllInFirst
  <2>3. CASE FirstIsFull
    <3>1. arena.limit \in Nat /\ arena.size \in Nat /\ Len(nodes) \in Nat
      BY ArenaType DEF ZeroInv, TypeOK
    <3>2. Len(nodes) * arena.size \in Nat
      BY <3>1, OneMore
    <3>3. ~(Len(nodes) * arena.size <= arena.limit)
      BY <2>3, <3>1, <3>2 DEF FirstIsFull
    <3> QED
      BY <2>1, <3>3
  <2> QED
    BY <2>2, <2>3 DEF ZeroInv
<1> QED
  BY <1>1, <1>2, <1>3, TypeCorrect, PTL DEF Spec
=============================================================================
