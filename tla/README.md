# Verification of the iterative compiler experiment

The repository is a small compiler in C: it reads `max.it`, parses it, builds a
graph of which declaration needs which, generates a typed tree (THIR) in an
order in which every declaration comes after what it needs, emits LLVM IR, and
calls clang. It is one thread from end to end. Nothing is persisted, nothing is
sent, and no callback is registered, so the models have no messages, crashes
with restart, or interleavings of processes. What is hard here is of another
kind: passes that rely on what an earlier pass left behind, marks and tables
that several walks share, loops and recursions whose end depends on the input,
and an order of work that nobody chose explicitly.

## 1. Inventory

| Component | Source | State it keeps | Operations | What makes it correct |
|---|---|---|---|---|
| Lexer | `src/lexer.h` | the text, a position, eight tokens of lookahead | `get_token`, `token_peek`, `token_eat`, `token_lookahead`, `token_expect` | every call returns; the tokens cover the text; looking ahead changes nothing |
| Parser | `src/parser.c`, `src/parser.h`, `parse_program` in `src/main.c` | the rest of the tokens, the open blocks, a symbol table per scope | `parse_next_statement` and one function per construct, `insert_symbol`, `find_symbol` | the tree is the text; names are unique where later passes assume it; it ends |
| Dependency graph builder | `src/graph.c`, `src/graph.h` | the registry of DepNodes, the graph, the dependency lists | `populate_dep_graph`, the `graph_builder_*` functions, `create_dep_node`, `add_dep_to_dep_node` | one node per syntax node; the graph is the program's declarations; every use is a dependency |
| Graph printer | `src/graph.h` 133-161 | the C stack | `print_graph`, `print_node` | it returns |
| THIR generation order | `src/typer.c` 230-299 | a mark per node, in-degrees, a queue, the C stack, the program | `generate_thir`, `generate_thir_for_node` | dependencies first, each node once, nothing lost, cycles reported and only cycles |
| Type table | `src/type.h` | `type_table` | `create_type`, `find_type`, `get_type`, `create_or_find_function_type` | a type is what was declared |
| Typer | `src/typer.c` 29-228, `src/thir.h` | the type table and one list of symbols for the whole program | `generate_thir_from_ast` | signatures survive; an error is reported of a program that has it |
| THIR printer | `src/typer.c` 301-432 | - | `pretty_print_thir` | switched off in `main` |
| LLVM back end | `src/backend.c` | the LLVM builder's position, `llvm_type` and `llvm_function` caches | `emit_thir_*` | code lands in its function; a variable is one variable |
| Containers and arenas | `src/core.h`, `src/parser.h`, `src/thir.h` | vectors, the AST and THIR arenas | `vector_push`, `arena_alloc`, `ast_arena_alloc` | no pointer survives the growth of what it points into; memory is zeroed where it is assumed to be |
| Driver | `src/main.c` 28-87 | - | the order of the passes | a pass starts only when the one before it has succeeded |

How they interact: the parser pulls tokens; the graph builder reads the syntax
tree and the parser's symbol tables; the printer and the generator walk the
same DepNodes one after the other; the generator calls the typer once per node,
and the typer's two tables are the only memory between those calls; the back
end reads THIR and types. A pass ends the process with `exit(1)` when it finds
an error.

The hazards, each at its line, are in `PROJECT.json`. The most important: the
marks shared by two walks (`typer.c:231`), the unchecked queue (`typer.c:281`),
in-degrees that also count nodes outside the graph (`typer.c:294`), forward
references (`graph.h:42`), the unmarked recursion of the printer
(`graph.h:150`), the first-statement-only view of a block (`graph.c:47`), the
function type cache (`type.h:108`), the flat symbol list (`thir.h:103`), the
block that never ends (`parser.c:174`), the character that is unread at the end
of the text (`lexer.h:327`), the lexer running eight tokens ahead
(`lexer.h:388`), the flag that decides between a value and its address
(`main.c:74`, `backend.c:86`), the declaration that is emitted at each use
(`backend.c:278`), the builder that is never moved back (`backend.c:242`), the array
one cell too small (`backend.c:122`), and the memory of the second chunk (`parser.h:171`).

## 2. The modules

| Module | Models | Uses |
|---|---|---|
| `Characters` | classes of characters, the tables of operators and keywords | - |
| `TokenStream` | abstract: the tokens of a text, read through a cursor | `Characters` |
| `Lexer` | `lexer.h` | implements `TokenStream` |
| `Storage` | the arenas and the lists of nodes | - |
| `Ast` | the syntax tree, symbol tables and scopes | - |
| `Parser` | `parse_program` and all of `parser.c` | `Ast` |
| `DepGraph` | `populate_dep_graph` | `Ast` |
| `GraphPrinter` | `print_graph`, `print_node` | - |
| `CompileOrder` | abstract: what an order of generation is | - |
| `Scheduler` | `generate_thir`, `generate_thir_for_node` | implements `CompileOrder` |
| `FrontEnd` | `main` from the tree to the typed program | composes `DepGraph`, `GraphPrinter`, `Scheduler` |
| `Types` | `type.h` | - |
| `Typing` | `generate_thir_from_ast` | `Ast`, `Types` |
| `Compiler` | the front end with its typer | composes `FrontEnd`, `Typing` |
| `BackEnd` | `backend.c` | `Compiler` |
| `SchedulerProofs`, `GraphPrinterProofs`, `ParserProofs`, `StorageProofs`, `LexerProofs` | theorems about the module of that name | `TLAPS` |
| `FrontEndProofs` | theorems about `DepGraph` and `FrontEnd` | instances of the first two |
| `CompilerProofs` | theorems about `Compiler` | `FrontEndProofs` |
| `Recursion` | lemmas: induction, functions defined by recursion, joined sequences, iteration | - |
| `MC*` | instances for TLC | the module of that name |

`Lexer`. A step is one round of a loop of `get_token`, the start of a token, or
the answer to a call; `mode` is the loop it is in. Before any call answers, the
buffer is filled with `Slots` tokens (`BeginToken`), which is where the lexer
runs ahead of its client. The client calls what it likes. A token keeps the
place of its characters instead of the characters, so that a value outside the
text can be seen. A position is put back at the end of a word (`Unread`), even
if there was nothing to put back; the line is not. Columns are left out. The
byte 255 is `EOF`, as in the code.

`TokenStream` is what a client may rely on: `ReadAt(text, p)` defines, without a
scan, which token is read at a place - the longest word, number or operator at
the first place that is neither blank nor comment - and `Take` and `Look` read
through a cursor. `Lexer` implements it with the cursor at the first token of the
buffer. Two oddities are part of the promise: an unknown character ends the
process up to eight tokens early, and the last character of a word that ends
the text is read again.

`Storage`. One arena and one list. `Arenas` holds the parameters that tell the AST
arena (it counts nodes; its first chunk is zeroed) from that of the THIR (it
counts bytes against a limit of 1024 in chunks of 512 KiB, so it overshoots;
`THIR_ALLOC` clears each node). `Allocate`, `NextChunk` are the two branches of
`arena_alloc`; `Push` grows a full block by doubling, by four, or by a half, and
writes without looking again. A new cell holds `Junk`, so what is lost in a move
would be seen.

`Ast`. A program is a sequence of records; names are strings, literals have no
text, source locations are gone. A node is named by its path (`<<d, k, 0>>` is
the value of the k-th statement of the d-th declaration), which stands for its
address. `Accepted` says which programs `insert_symbol` lets through; `DepGraph`
assumes it of its inputs, and `ReadProgramsAreAccepted` says it of every program
the parser returns.

`Parser`. `calls` are the active calls of the parsing functions, each with the
node it fills in and, for a block, its symbols; `value` is the expression that
`parse_postfix_expression` has so far. A step is one statement, one item of a list,
one attribute, one operand, or the return of `parse_binary_expression` to its caller
(`EndArgument`, `EndReturn`, `EndVariable`, `EndStatement`); each either eats its tokens
or ends the process with the message of `token_expect` or of the function. Symbols are
entered where the code enters them: a variable behind its value, a function before its
block. `CloseBlock` is the end of `parse_block`. `NullStatement` is what its loop
does at the end of the input.
`Written` is the way back, from a tree to its tokens. A tree does not keep a comma
before a closing bracket, a `void` that was written out, nor the order of attributes and
how often they stand there; so `ReadsWhatIsWritten` compares the two words without
their commas, `@`, `extern`, `entry` and `void` (`Forgotten`).

`DepGraph`. A handler creates its node in one step (`FunctionDeclaration`,
`TypeDeclaration`) and then makes one `AddDependency` step per call of
`add_dep_to_dep_node`, in the order of the code (`pending`). A DepNode is its
place in the registry. `EndStatement` is the return from a handler, which is
where a type joins the graph; a function joins it before its parameters.
`NullSymbol` is `symbol->node` of a callee that nobody declared.

`GraphPrinter`. `calls` are the active calls of `print_node`, each with its loop
variable. The C stack holds `MaxDepth` of them; one more is an overflow.

`Scheduler`. `stack` are the active calls of `generate_thir_for_node`, each with
its loop variable. The phases are the loops of `generate_thir`; a step is one
round of a loop or one call, return or mark of the recursion. In this module
`generate_thir_from_ast` either appends the node's THIR or ends the process,
without saying which; `Compiler` decides it.

`CompileOrder` is the promise: starting from nothing, generate any node that is
needed and whose dependencies are generated; end when all that is needed is
there, or because there is a cycle among it, or because a node is in error.

`FrontEnd` runs the three over the same `registry`, `graph` and `dependencies`,
each starting when the one before it has finished. `Compiler` adds the type
table, the symbols and the THIR. Where the scheduler is about to generate a node,
`typing` holds the active calls of `generate_thir_from_ast`, each with the trees
its children have returned: `OpenAst` is a call, `CloseAst` its return to the call
on the parent, `TypeNode` the return to `generate_thir_for_node`, and `RejectNode`
the exit or crash of any of them. `Asts` gives each program the nodes of its tree.

`BackEnd` adds the last phase: `emit_thir_program` on the finished THIR. The
operators are named after the C functions; each maps the context it is given to
the one it leaves: the functions with their blocks of instructions, where the
builder stands, `dont_load`, and the value returned. LLVM's builder is external:
`Build` appends an instruction where the builder stands. What the code leaves
undefined is a choice or an outcome. `dont_load` starts with
either value, because `main` never sets it. The type of a variadic function is made in
an array that is one cell short (`Overruns`, `backend.c:119-128`): the emission goes on
where the compiler's frame happens to have room (`spare`) and is "undefined" where it
has not. A parameter behind the first "..." is handed to LLVM as `malloc` left it
(`HasUnsetParameters`, `backend.c:214-224`), and a call or a load of what is no function
or no variable means nothing in LLVM: both are "undefined" too, and no property says
anything of what follows. LLVM's folding of constants is left out: an operator always
makes an instruction.

`Types` and `Typing` are operators. A type's id is its place in the table. `Children`
are the nodes that are typed before a node, in the order of the calls in the code;
`Objection` is what is looked up before them; `Typed` makes the tree of a node from
theirs and extends the two tables. Side effects are seen exactly where the code
sees them: a block before its function's signature, a struct in the table before
its members, and, in between, whatever a declaration in the block adds. Reads through the wrong arm of a union are modelled by what is
there (the size of a member in the place of a return type; a pointer in the
place of a length). "crash" is a null pointer followed.

## 3. What the runs check

| Run | What it shows | Bounds |
|---|---|---|
| `scheduler` | generation order, cycles reported only of cycles, nothing lost, queue in its buffer, no recursion in the first phase; refinement of `CompileOrder`, termination, the inductive invariant | every graph of four nodes (three or four of them declarations) with up to two dependencies each, up to the order inside a list |
| `graph_printer` | what is printed to the end is acyclic, overflow only on a cycle, termination, the inductive invariant | every graph of four nodes with three roots |
| `front_end` | one node per syntax node, a graph of exactly the declarations with well-formed dependency lists; hand-over between the passes; no cycle reaches the generator; the types in signatures come first; every declaration once; `main` always gets on | some 6,600 programs of three top-level statements with blocks of up to two, and 1,440 of four |
| `front_end_cycles` (violated) | the diagnosis of a cycle is never given: the printer overflows first | the programs of four statements |
| `compiler` | function types fit, parameters keep their types, the type table is complete, no statement and no whole initialiser that compiles calls what nobody declares; of entries such as those of the samples, the emitted module is well formed, its types agree, and it calls what the text calls, in that order | 4,190 programs, ten orders of the text: 3,200 like `max.it` and `plans.it`, with a function and a type in a block of the second function, and 990 unlike them |
| `compiler_returns`, `compiler_undeclared`, `compiler_members`, `back_end_variables` (violated) | see below | the same |
| `parser` | the tree is the text, the programs are `Accepted` trees, closed texts end | 13,668 texts: whole, cut off at every token, each token left out, a comma too many anywhere |
| `lexer` | refinement of `TokenStream`, order and place of tokens, the end is final, lines, every call answered or an open comment | every text of up to three characters over eight classes, up to five over the marks of comments, up to four over words and lines; a buffer of two |
| `storage` | nodes apart, lists keep what was pushed, which nodes start zeroed, a node that is asked for arrives | 75 nodes, chunks of five and of three: fifteen or more chunks, a list of `DepNode`s that grows three times |

Why the bounds are enough. Four nodes make every shape the scheduler tells
apart: a chain, a diamond, cycles of two to four nodes, a cycle behind nodes in
good order, a diamond with a cycle under it, a dependency outside the graph.
`MaxDeps = 2` is what a diamond needs. For the printer `MaxDepth`
equals the number of nodes: a path without repetition is never longer. Programs
are closed under the six (ten) orders of their declarations that are listed,
because order is what the passes are sensitive to, and hold each case of every
`switch`. `MaxNodes` bounds the registry: a step that would need
one more node is not taken (`Fits`). The values used (6, 8) are larger than what any of these
programs needs; one that needed more would show as a deadlock.
`MaxNulls` caps how many null statements an unclosed block is seen to collect. For
the lexer, a comment needs four characters and what follows it one; a keyword two
and its unread end one; two slots are the least that have a first and a last.

The violated runs are disagreements between the code and what it says:

- `compiler_undeclared`: the graph builder looks at the first handled statement
  of a block only, so a declared function that is called later in a block may
  not have been typed yet and is "undeclared" (`typer.c:80`).
- `compiler_returns`: the comparison of return types is inverted (`type.h:108`). A
  function gets the type of an earlier one with the same parameters and another
  return type. The sample `plans.it` is such a program.
- `compiler_members`: a local variable resolves to a variable of the same name in
  another function, and is said to lack a member it has (`thir.h:103`,
  `typer.c:72`).
- `front_end_cycles`: "cyclic dependency detected" (`typer.c:234`) cannot be
  reached; `print_graph` recurses over the cycle first.
- `back_end_variables`: each use of a variable emits its declaration again, so the
  value assigned is in a cell nobody reads (`backend.c:278`); the sample `max.it`
  shows it in `generated/output.ll`.

What the properties of the back end assume. `ModuleIsWellFormed` and
`CallsKeepTheirOrder` are about entries that are `Plain`, as `main` in `max.it` is: the
only function emitted with a block is the entry, names are names of variables, and no
assignment is used for its value; and which return, if at all, at the end. Each clause
is needed, and the run has programs without it. Emitting a
function with a block moves the builder there (`backend.c:250`) and nothing moves it
back: behind a call of such a function, or behind one that is declared in the entry's
block, the rest of the entry lands behind the callee's return, and the entry's own block
has none. `plans.it`, which calls `clamp` in the first line of `main`, is such a program. `CallsKeepTheirOrder` also leaves out
variables whose initialiser calls something, if they are used: each use calls it again.
`TypesAgree` asks in addition that `dont_load` was false, that the typer finds, or
would find if it looked, the same type on both sides of an operator, and that what
stands on the left of a dot or an equals sign is a variable or its member, with no
initialiser that reads a variable (`AddressesPlaces`): such an initialiser is
emitted under `dont_load` and yields an address.

Smaller ones of the same origin have no run of their own: an unclosed block is
filled with null statements for ever (`parser.c:174`;
`ClosedTextsEnd` leaves it out); all operators bind from the left, the assignment too, so
`x = 1 + 2` is `(x = 1) + 2` (`parser.c:7`), though `lexer.h:213-262` has a table of
precedences, which nothing reads (the flat text of `ReadsWhatIsWritten` cannot tell
how operators bind); `dont_load` is never initialised (`main.c:74`), so that names may be
addresses where they should be values; the array for the parameters of
`printf(String, ...)` has a cell less than is written to it (`backend.c:122`); the type a variadic function is called with is not
variadic (`backend.c:130`), while the one it is declared with is; an open comment keeps the lexer
busy for ever (`CallsAreAnswered` excludes it); `graph.c:12` promises a
dependency for a member access, for which the `switch` below it has no case; a
call of something undeclared as the first handled statement is a null pointer in
the graph builder (`NullSymbol`) before the typer can report it; `typer.c:291` says
that the second pass handles cycles, and it ends the process.

Fairness. Every specification assumes weak fairness of the whole next-state
relation and nothing finer: one thread, no lock, no input to wait for, so a step
that is possible is taken. `CompilerSpec` and `BackEndSpec` have none, because no liveness is
claimed of them. In `Lexer` and `Storage` only the work that was asked for is
fair (`Serve`; `Allocate`, `NextChunk`, `Push`): nobody has to call. Final states loop (`Halt`, `End`), so deadlock is checked
everywhere.

Every property of a passing run has a mutant in `PROJECT.json`: a named variant
of a definition, next to it in the module, with a plausible mistake (a loop that
starts late, a mark not set, a comparison left out) which violates it.

## 4. What is proved

TLAPS checks, for every value of the constants:

- `SchedulerProofs`: `Inv` is inductive (`Invariance`). Consequences: `TypeOK`,
  `GenerationOrder`, `CyclicOnlyOnCycle`, `DoneIsComplete`, `QueueInBounds`,
  `QueueNeverRecurses`, for any set of nodes and any inputs that satisfy
  `InputsAssumption` (distinct entries in the graph and in each dependency
  list, which `FrontEndProofs` proves of the builder). `Refinement`:
  initial states and steps map to `CompileOrder`.
- `GraphPrinterProofs`: `Inv` is inductive; `PrintedIsAcyclic` and
  `OverflowOnlyOnCycle` follow, for any finite graph and any `MaxDepth` that is
  at least the number of nodes.

Why the invariants are needed. `GenerationOrder` alone is not inductive: that a
call's dependencies are generated when its loop ends follows only if each call
on the stack knows that the dependencies before its loop variable are resolved
or are what the call above it works on (`SeenTo`), and if the marks say exactly
who is on the stack and what is in the program (`Marks`). `CyclicOnlyOnCycle`
follows from the stack being a path of the graph (`Linked`): a mark met twice
closes it to a cycle. `QueueInBounds` needs `in_degree[k]` to be the number of
dependencies of `graph[k]` not yet taken from the queue (`InDegrees`), and that a
node is queued exactly when that number is zero (`Queued`); then no node is
queued twice. `DoneIsComplete` needs that the second pass leaves no root
behind (`RestPassed`). For the printer, the nodes below the loop variable of a
call cannot reach a cycle, and an overflow is a path with more calls than nodes,
so two calls on one node (pigeonhole).

- `FrontEndProofs`: of the builder, for any set of accepted programs and any bound on
  the registry, `TypeOK`, `OneNodePerAst`, `FeedsScheduler`, `GraphIsProgram`
  and `OnlyDeclarationsDepend` (no run checks the last); of the three passes
  together, from `MaxDepth >= MaxNodes`, `Handoff`, `CycleNeverReachesGenerator`,
  `EveryDeclarationGenerated` and `SignatureTypesComeFirst`.
- `ParserProofs`: `Inv` is inductive; `ReadProgramsAreAccepted` and
  `ReadsWhatIsWritten`, for any set of texts, nested as deep as they like, and any
  `MaxNulls`. The first is the assumption of `FrontEndProofs` and `CompilerProofs`
  on their programs.
- `StorageProofs`: `TypeOK`, `ListHoldsNodes`, `NodesAreApart` and `StartsZeroed`,
  for any limit, size and room of a chunk in which a node that starts below the limit
  fits, and any number of nodes.
- `LexerProofs`: `TypeOK`, `ValuesInsideText`, `TokensInOrder`, `EndIsFinal`,
  `LineIsNear`, and that `Lexer` implements `TokenStream` (`ReadsTheStream`, the
  whole temporal formula), for any alphabet whose classes are disjoint, any texts
  and any number of slots.
- `CompilerProofs`: `FunctionTypesFit`, `ParametersKeepTheirTypes`, `TypesAreComplete`
  and `NothingUndeclaredCompiles`, for any set of accepted programs (below).
- `Recursion`: what the prover's library cannot say to its provers. The principle of
  induction there takes an operator; here it is a statement about a *set* of numbers
  (`Induction`: a set with 0 and with every successor contains all of `Nat`), proved
  from the smallest element that is missing. With it, recursive functions over
  sequences are reasoned about: that the function inside `FlattenSeq` exists, its
  equation, its elements, and what it makes of one sequence more (`FlattenAppend`) or of
  two joined (`FlattenJoin`); and the equation of the function inside `Written`
  (`Iteration`).

For the builder, that a declaration joins the graph only once needs to know which
have joined it already: those the loop has passed, and a function while its
handler runs (`Joined`, `InGraph`, and conversely `Entered`); that a dependency is
recorded at the right node needs `Handling`: while a handler runs, `Parent` is the
node of the statement. `DependsWell` is what is known of each list of dependencies
at any time, not only at the end. `SignatureTypesComeFirst` needs the other
direction: that a function which has joined the graph depends on *every* declared
type its signature names, which is `FlattenSeq` of two singletons per parameter
(hence `Recursion`), and that what the programs are made of are trees (`IsTree`: the
fields `parser.c` fills, and no more). The nodes of operands and of local variables
play no part, which is why nothing about `pending` is needed.

For the front end, `FrontEndInv` is the three invariants, each from the moment its
pass starts, and `PassesInTurn`: a pass that has not started has not changed
anything. The proofs of the printer and of the generator are instances for
every graph over the registry. The step from one pass to the next is that an
idle printer or generator satisfies its own invariant on whatever the builder
has made so far (`PrinterStarts`, `GeneratorStarts`). `CycleNeverReachesGenerator`
then follows from two theorems of different modules: the generator reports only
real cycles, and the printer returns only from graphs that have none.

For the parser, that the names of a program are new where they must be needs to say
of the stack what each call knows of the ones below it (`IsStack`): a call is on top of
one that makes it, the lists of its node have no hole, the names its block declares are
among its symbols, and no symbol is also one of a block around it. A function whose
block is closed then keeps the promise of `Accepted` for its own block, and its name is
already one of the symbols of the block it joins.

That a program is its text needs to say what is written of a tree that is not finished.
`SoFar` gives the pieces of the node of each call, up to where the call has come: a
function without its closing curly, a binary expression without its right side.
`Stands` puts those of the stack one behind the other, `ValuePieces` adds the value, and
`Owes` says that with the tokens left this is the text, but for what is `Forgotten`.
`Reading` has these three; each action takes pieces from the tokens to the stack. An
action that finishes a node replaces the pieces of two calls by one tree, which is
written with the same tokens. `Written` expands a tree level by level, as
often as it is told to; `Spells` says that a node is written out after no more
levels than it has tokens, so the length of the text is always enough.

For the storage, `ListHoldsNodes` needs that a block is never one cell large where
the list grows by a half (it would not grow), and that a list is at most one node
behind the arena. `NodesAreApart` needs that the arena's next node starts after the
end of the last one. `StartsZeroed` needs that nodes are in the first chunk, or
that it is full.

For the lexer, that the position never leaves the text when a word is unread
needs that a word has eaten a character (`Reading`); the order of the tokens
needs to say of the last one where the next will be read from (`Asked`); that
nothing follows the end needs that the scanner is then at the end and in no comment
(`AtEnd`). `LineIsNear` needs that the line is the number of line ends before the
position except for those eaten by a peek too many, which are counted (`Lines`).

That the lexer reads the stream: `TokenStream` finds a token by a search over the
whole text, `Lexer` one character per step. Between the two is `Promise`. Its first
half, `Scan`, says of the token being read that what was eaten is a beginning of what
`ReadAt` gives for the place it was asked from: in a word, that the characters so far
continue it; in a comment or a blank, that the token is the one read from behind it.
Its second half, `Buffer`, says that the tokens in the buffer are `ReadAt` from the
place of the first, each from where the one before ends. `Start` and `Ahead` are
recursive functions of `TokenStream`; their equations are proved once, by induction
over the distance to the end of the text.

For the typer, `CompilerProofs` proves the four properties of `Compiler` that the
run `compiler` checks, for `CompilerSpec` and any set of accepted programs. The
invariant, `CompilerInv`, adds to `FrontEndInv`:

- `SyntaxInv`: every node of the registry is a node of the tree, and those that are
  no statements of the program are children of one (`IsAst`), so that a function or
  type generated for such a node is one that a block declares;
- `Tables`: the type table begins with the builtin types, every other entry has an
  `Origin` (a function type, a type of a block, or *the* tree of one declaration of
  the program), every symbol is declared somewhere, and every tree of the program
  fits its declaration (`TreeFits`). What was found in a list is found again in any
  that `Extends` it, so the trees of earlier nodes go on fitting (`FitsStay`);
- `Calling`: the active calls go down the tree from the node the generator is at, and
  what each has typed so far has found its callees (`Passed`).

`FunctionTypesFit` is then what the cache compares, kept by growth.
`ParametersKeepTheirTypes` is `SignatureTypesComeFirst`, proved of the graph, carried
over to the type table. `TypesAreComplete` needs that all declarations are generated
once (`EveryDeclarationGenerated`) for the entry to exist, and `Origin` for it to be
the only one. `NothingUndeclaredCompiles` needs `Calling`, since the graph knows the
first statement of a block only.

What is assumed of the programs, besides `ProgramsAssumption`, is `SyntaxAssumption`:
`Asts` holds the statements and the children of whatever it holds, names are not
empty, children are lists, and only blocks have declarations for children. TLC
evaluates both on the programs of the runs. `Accepted` and `IsTree`, the premises of
the first, are proved of what the parser returns (`ReadProgramsAccepted`). A larger `Asts`
makes `DeclaredSomewhere` and `DeclaredInBlock` weaker; the theorems hold for the
smallest, which is the one the runs use.

Only model-checked, because the provers cannot: liveness under fairness
(`Terminates`, `FrontEndTerminates`, `CallsAreAnswered`, `ClosedTextsEnd`,
`NodesArrive`), and the three properties of `BackEnd` (`ModuleIsWellFormed`,
`TypesAgree`, `CallsKeepTheirOrder`): its operators are recursive over trees. For the
same reason the theorems about `Compiler` are about `CompilerSpec`; the run `compiler`
checks the properties while `BackEnd` goes on from there, which leaves the variables
of `Compiler` alone.

## 5. What is not modelled

- Of the back end: the target machine, LLVM's own passes and verifier, the file
  written, and the escapes of string literals (`backend.c:20-84`, 147-200).
- Freeing of memory: nothing is freed before the process ends. Pointers into a
  vector that moves (`type.h:49`): no caller keeps one across a push.
- The uninitialised root of the tree (`main.c:38`): a dirty stack would end the
  process at the first symbol; there is nothing to say about what follows.
- The THIR printer (off), the reading of the file, clang, and the run of the
  result (I/O), `src/plans/` (design notes).
- Texts of names and literals, columns, memory exhaustion.
- Symbols a nested declaration has inside its own block, for the passes after the
  parser.

## 6. Plan

In order of importance; all done.

1. The order of generation: `CompileOrder`, `Scheduler`, proofs.
2. What feeds it: `Ast`, `DepGraph`, `GraphPrinter` with proofs, `FrontEnd`.
3. The typer: `Types`, `Typing`, `Compiler`.
4. The parser: `Parser`.
5. The lexer: `Characters`, `TokenStream`, `Lexer`.
6. The back end: `BackEnd`.
7. Memory: `Storage` with proofs.
8. Proofs of what feeds the generator and of the passes together: `FrontEndProofs`;
   of the tokens and the stream they make: `LexerProofs`, with `Recursion`; of the
   typer: `CompilerProofs`; of the trees and the text: `ParserProofs`.

What could follow: the escapes of string literals, scopes nested in blocks for the
passes after the parser, and the composition of `Lexer` and `Parser`, whose
tokens are abstract in each of them.
