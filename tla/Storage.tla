------------------------------ MODULE Storage -------------------------------
(***************************************************************************)
(* Where the nodes live: an arena of chunks, from which AST and THIR nodes *)
(* are taken (ast_arena_alloc, src/parser.h; arena_alloc, src/core.h), and *)
(* a list of pointers to them, which moves to a larger block when it is    *)
(* full.  The code has the list four times over with three ways to grow    *)
(* (src/core.h, src/parser.h, src/thir.h, src/graph.h).                    *)
(*                                                                         *)
(* An AST arena counts nodes and fills each chunk; the THIR arena counts   *)
(* bytes, may overshoot its limit once, and its chunks are far larger than *)
(* that.  Nothing is ever given back.                                      *)
(***************************************************************************)
EXTENDS Integers, Sequences

CONSTANTS
  Arenas,              \* the arenas there are: AST_Arena and the Arena of the THIR
  Lists,               \* the kinds of lists
  MaxNodes             \* a bound on the nodes that are taken

\* What an arena asks before it gives out memory of a chunk (limit), what the
\* chunk has room for (room), the size of a node, whether the first chunk is
\* zeroed, and whether each node is.
ArenaKinds == [limit : Nat \ {0}, room : Nat, size : Nat \ {0}, zeroed : BOOLEAN, clears : BOOLEAN]

ASSUME StorageAssumption ==
  /\ Arenas \subseteq ArenaKinds
  /\ \A a \in Arenas : a.limit - 1 + a.size <= a.room
  /\ Lists \subseteq {"vector", "node_list", "dep_list"}
  /\ MaxNodes \in Nat

VARIABLES
  arena,               \* the arena
  chunks,              \* the length of each of its chunks
  at,                  \* the chunk arena_alloc looks at, or 0
  nodes,               \* the nodes that were taken, in order
  list,                \* the kind of the list
  data,                \* its block: a cell for each element it has room for
  length               \* its length

arena_vars == <<arena, chunks, at, nodes>>
list_vars  == <<list, data, length>>
vars       == <<arena_vars, list_vars>>

Address(chunk, offset) == [chunk |-> chunk, offset |-> offset]
Junk == Address(0, 0)          \* what a new cell starts with

Taken(address, zeroed) == [address |-> address, zeroed |-> zeroed]

Addresses == [chunk : Nat, offset : Nat]
capacity  == Len(data)

TypeOK ==
  /\ arena \in Arenas
  /\ chunks \in Seq(Nat)
  /\ at \in 0 .. Len(chunks)
  /\ nodes \in Seq([address : Addresses, zeroed : BOOLEAN])
  /\ list \in Lists
  /\ data \in Seq(Addresses)
  /\ length \in Nat

-----------------------------------------------------------------------------
\* arena_init; the AST arena is a local of main, its first chunk part of it.
Init == /\ arena \in Arenas
        /\ chunks = <<0>>
        /\ at = 0
        /\ nodes = <<>>
        /\ list \in Lists
        /\ data = <<>>
        /\ length = 0

\* The node taken last is in the list: the client is free to take another.
Idle == at = 0 /\ Len(nodes) = length

AskForNode == /\ Idle /\ Len(nodes) < MaxNodes
              /\ at' = 1
              /\ UNCHANGED <<arena, chunks, nodes, list_vars>>

\* A mutant of HasRoom: the node at the limit is given out too.
HasRoomAtLimit(k) == chunks[k] <= arena.limit

\* A mutant of HasRoom: the last node of a chunk is not given out.
HasRoomButOne(k) == chunks[k] < arena.limit - 1

HasRoom(k) == chunks[k] < arena.limit

\* The chunk has room: the node starts where the last one ended.
Allocate ==
  /\ at # 0 /\ HasRoom(at)
  /\ nodes' = Append(nodes, Taken(Address(at, chunks[at]),
                                  arena.clears \/ (arena.zeroed /\ at = 1)))
  /\ chunks' = [chunks EXCEPT ![at] = @ + arena.size]
  /\ at' = 0
  /\ UNCHANGED <<arena, list_vars>>

\* A mutant of NextChunk: the recursion is on the same chunk.
NextChunkSame ==
  /\ at # 0 /\ ~HasRoom(at)
  /\ chunks' = IF at = Len(chunks) THEN Append(chunks, 0) ELSE chunks
  /\ UNCHANGED <<arena, at, nodes, list_vars>>

\* It has none: the next one is asked, and made if it does not exist.
NextChunk ==
  /\ at # 0 /\ ~HasRoom(at)
  /\ chunks' = IF at = Len(chunks) THEN Append(chunks, 0) ELSE chunks
  /\ at' = at + 1
  /\ UNCHANGED <<arena, nodes, list_vars>>

-----------------------------------------------------------------------------
\* A mutant of Grown: a list of DepNodes starts with one cell, and one and a
\* half of it is one.
GrownFromOne(c) == IF c = 0 THEN 1
                   ELSE CASE list = "vector"    -> 2 * c
                          [] list = "node_list" -> 4 * c
                          [] list = "dep_list"  -> (3 * c) \div 2

\* The new capacity.
Grown(c) == CASE list = "vector"    -> IF c = 0 THEN 1 ELSE 2 * c
              [] list = "node_list" -> IF c = 0 THEN 1 ELSE 4 * c
              [] list = "dep_list"  -> IF c = 0 THEN 32 ELSE (3 * c) \div 2

\* realloc: what was in the block is in the new one.
Resized(c) == [k \in 1 .. c |-> IF k <= capacity THEN data[k] ELSE Junk]

\* The list grows if it is full, and takes the node; nobody looks again
\* whether it has grown.
Push ==
  /\ at = 0 /\ length < Len(nodes)
  /\ \E block \in {IF length >= capacity THEN Resized(Grown(capacity)) ELSE data} :
       data' = [block EXCEPT ![length + 1] = nodes[Len(nodes)].address]
  /\ length' = length + 1
  /\ UNCHANGED <<arena_vars, list>>

Take == AskForNode \/ Allocate \/ NextChunk \/ Push

Full == Idle /\ Len(nodes) = MaxNodes /\ UNCHANGED vars

Next == Take \/ Full

\* What was begun is finished; nobody has to ask for a node.
Spec == Init /\ [][Next]_vars /\ WF_vars(Allocate \/ NextChunk \/ Push)
-----------------------------------------------------------------------------
(***************************************************************************)
(* Properties                                                              *)
(***************************************************************************)
\* The nodes lie in their chunks, whichever way the limit is counted, and no
\* two of them share a byte: each chunk gives out what follows, to the end, and
\* none is used before the one in front of it is full (core.h:171-184,
\* parser.h:162-178).
NodesAreApart ==
  /\ \A k \in DOMAIN nodes : nodes[k].address.offset + arena.size <= arena.room
  /\ \A j, k \in DOMAIN nodes :
       nodes[j].address.chunk = nodes[k].address.chunk /\ j < k =>
         nodes[j].address.offset + arena.size <= nodes[k].address.offset

\* The list holds all the nodes in the order they were taken, through every
\* move of its block; its block has room for them, though the code does not look
\* again after it has grown: one and a half times as many cells are more only if
\* there were two (core.h:122-130, parser.h:197-203, thir.h:43-49, graph.h:82-131).
ListHoldsNodes ==
  /\ length <= capacity
  /\ \A k \in 1 .. length : data[k] = nodes[k].address

\* A node starts with zeroes: always, if its taker sees to it (thir.h:132-139),
\* else as long as the first chunk lasts.  The parser, which leaves out fields
\* of the nodes it makes, relies on that and never looks (main.c:37, parser.h:171).
StartsZeroed ==
  (arena.clears \/ (arena.zeroed /\ Len(nodes) * arena.size <= arena.limit)) =>
    \A k \in DOMAIN nodes : nodes[k].zeroed

\* A node that is asked for is taken and joins the list.
NodesArrive == (at # 0) ~> (at = 0 /\ length = Len(nodes))
=============================================================================
