----------------------------- MODULE MCFrontEnd -----------------------------
(***************************************************************************)
(* Small programs for the whole front end.                                 *)
(*                                                                         *)
(* For the graph builder: a function f whose block has up to two           *)
(* statements, a second function g, an extern, a variable and the types A  *)
(* and B, which may name each other, themselves or builtin types.  The     *)
(* statements cover every case of graph_builder_block, the ones it skips,  *)
(* a local that hides a function, a function inside the block, and a       *)
(* callee nobody declares.                                                 *)
(*                                                                         *)
(* For the three phases together: two functions and two types with the     *)
(* uses that make chains, diamonds and cycles of functions, of types, and  *)
(* of a type reached only through a function.                              *)
(***************************************************************************)
EXTENDS FrontEnd

Callees == {"g", "A", "h"}       \* the names f may call

Statements ==
  {Variable("A", "x", NoValue), Variable("i32", "y", Binary("+", Identifier("x"), Number)),
   Variable("B", "z", Dot(Identifier("x"), "m")), Variable("i32", "g", NoValue),
   Binary("=", Dot(Identifier("x"), "m"), Number), Identifier("x"),
   Return(NoValue), Return(Call("g", <<>>))}
  \cup {Variable("i32", "y", Call(c, <<>>)) : c \in Callees}
  \cup {Call(c, <<Identifier("x")>>) : c \in Callees}

\* A second statement comes after one the builder skips or one that ends its loop.
First  == {Identifier("x"), Variable("A", "x", NoValue), Function("h", <<>>, "void", <<>>)}
Blocks == {<<>>} \cup {<<s>> : s \in Statements}
                 \cup {<<s, t>> : s \in First, t \in Statements}

f == {Function("f", ps, "void", b) : ps \in {<<>>, <<"A", "i32", "A">>}, b \in Blocks}
g == {Function("g", <<"B">>, "void", <<>>), Function("g", <<>>, "i32", <<Call("f", <<>>)>>),
      Extern("g", <<"A", Vararg>>, "void")}
A == {TypeDecl("A", <<"i32", "i32">>), TypeDecl("A", <<"B", "A">>)}
B == {TypeDecl("B", <<>>), TypeDecl("B", <<"A", "i32">>)}
v == {Variable("A", "v", NoValue), Call("g", <<>>)}

Rotations(X, Y, Z) ==
  UNION {{<<x, y, z>>, <<y, z, x>>, <<z, y, x>>} : x \in X, y \in Y, z \in Z}

BuilderPrograms == Rotations(f, g, A) \cup Rotations(f, A, B) \cup Rotations(g, B, v)

PhaseBlocks == {<<>>, <<Call("g", <<>>)>>, <<Return(Call("g", <<>>))>>,
                <<Variable("A", "x", NoValue), Call("g", <<>>)>>,
                <<Variable("i32", "y", Binary("+", Number, Call("g", <<>>)))>>}

phase_f == {Function("f", ps, "void", b) : ps \in {<<>>, <<"A", "B", "A">>}, b \in PhaseBlocks}
phase_g == g \cup {Function("g", <<>>, "void", <<Identifier("f"), Call("h", <<>>)>>)}
phase_v == {Variable("A", "v", NoValue), Call("f", <<>>)}

Arrangements(w, x, y, z) ==
  {<<w, x, y, z>>, <<x, y, z, w>>, <<y, z, w, x>>, <<z, w, x, y>>, <<z, y, x, w>>, <<w, z, y, x>>}
PhasePrograms ==
  UNION {Arrangements(w, x, y, z) : x \in phase_f, y \in phase_g, z \in A, w \in B}
  \cup UNION {Arrangements(w, x, y, z) : x \in phase_f, y \in A, z \in B, w \in phase_v}

MCPhasePrograms == {p \in PhasePrograms : Accepted(p)}

MCPrograms == {p \in BuilderPrograms \cup PhasePrograms : Accepted(p)}
=============================================================================
