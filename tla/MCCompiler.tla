----------------------------- MODULE MCCompiler -----------------------------
(***************************************************************************)
(* Programs like the two samples, max.it and plans.it: a main without      *)
(* parameters, a second function, the extern printf and two types, one     *)
(* inside the other, in ten orders of the text; the second function may    *)
(* have a function and a type in its block.  Then what the samples are not *)
(* like: a function in main itself, calls of functions with a block, other *)
(* things than numbers under an operator, a dot or an equals sign, and     *)
(* parameters behind the dots.                                             *)
(***************************************************************************)
EXTENDS BackEnd

CONSTANT Callees       \* what main may call besides printf

Hello == Call("printf", <<Text>>)
Local == Variable("V3", "d", NoValue)
Assign == Binary("=", Dot(Identifier("d"), 2), Number)
Sum   == Variable("i32", "sum", Binary("+", Dot(Dot(Identifier("d"), 1), 1), Number))
Show == Call("printf", <<Text, Dot(Identifier("d"), 2), Identifier("sum")>>)
Reset == Binary("=", Identifier("sum"), Number)

MainBlocks == {<<Hello>>, <<Hello, Local, Assign>>, <<Local, Assign, Sum, Show>>, <<Local, Sum>>,
               <<Hello, Local, Sum, Reset, Show>>}
              \cup {<<Variable("i32", "c", Call(callee, <<>>)), Hello, Local, Sum>> : callee \in Callees}
              \cup {<<Local, Call(callee, <<Identifier("d")>>)>> : callee \in Callees}

main == {Entry("main", <<>>, "void", b) : b \in MainBlocks}
        \cup {Entry("main", <<>>, "i32", <<Hello, Variable("i32", "sum", NoValue), Reset, Return(Identifier("sum"))>>)}
Inner == Function("inner", <<"V2">>, "i32", <<Variable("V2", "e", NoValue), Return(Number)>>)
g == {Function("g", <<>>, "i32", <<Return(Number)>>),
      Function("g", <<"V2", "i32">>, "i32", <<Variable("V2", "d", NoValue), Assign>>),
      Function("g", <<"V3">>, "V2", <<Variable("i32", "h", NoValue)>>),
      Extern("g", <<"String">>, "i32"), Extern("g", <<"i32", Vararg>>, "i32"),
      Extern("g", <<"V2">>, "void"), Extern("g", <<>>, "i32"),
      Function("g", <<"i32">>, "i32", <<Inner, TypeDecl("V4", <<"V2">>), Call("inner", <<Text>>)>>)}
printf == {Extern("printf", <<"String", Vararg>>, "void")}
V3 == {TypeDecl("V3", <<"V2", "i32">>), TypeDecl("V3", <<"V2", "V3">>)}
V2 == {TypeDecl("V2", <<"i32">>), TypeDecl("V2", <<"i32", "i32">>)}

Orders(a, b, c, d, e) ==
  {<<a, b, c, d, e>>, <<b, c, d, e, a>>, <<c, d, e, a, b>>, <<d, e, a, b, c>>, <<e, a, b, c, d>>,
   <<e, d, c, b, a>>, <<a, e, d, c, b>>, <<b, a, e, d, c>>, <<a, c, e, b, d>>, <<b, d, a, c, e>>}

Samples ==
  UNION {Orders(a, b, c, d, e) : a \in main, b \in g, c \in V3, d \in V2, e \in printf}

c == Identifier("c")
v == Identifier("v")
w == Identifier("w")
Pair == <<Variable("V2", "v", NoValue), Variable("V2", "w", v)>>

\* A function in the block, a constant initialiser under an equals sign, an initialiser
\* that reads under an equals sign and under a dot, a sum of two structs assigned to,
\* a member of what is returned, a truth value for a number, a sum of strings, an
\* assignment for its value, calls of g and what it returns.
OtherBlocks ==
  {<<Function("k", <<>>, "i32", <<Return(Number)>>), Hello>>,
   <<Variable("i32", "c", Number), Binary("=", c, Number), Call("printf", <<Text, c>>)>>,
   <<Variable("i32", "b", Number), Variable("i32", "c", Binary("+", Identifier("b"), Number)), Binary("=", c, Number)>>,
   Pair \o <<Variable("i32", "c", Dot(w, 1))>>,
   Pair \o <<Binary("=", Binary("+", v, w), v)>>,
   <<Variable("i32", "c", Dot(Call("g", <<Text>>), 1))>>,
   <<Variable("i32", "c", Binary("==", Number, Number))>>,
   <<Variable("String", "s", Binary("+", Text, Text))>>,
   <<Variable("i32", "c", NoValue), Binary("+", Binary("=", c, Number), Number)>>,
   <<Variable("i32", "c", Call("g", <<Text>>)), Call("printf", <<Text, Call("g", <<Text>>), c>>)>>,
   <<Call("printf", <<Text, Binary("+", Call("g", <<Text>>), Number)>>), Hello>>}

OtherMains == {Entry("main", <<"i32">>, "void", b) : b \in OtherBlocks}
OtherG == {Extern("g", <<"String">>, "i32"), Extern("g", <<"String", Vararg>>, "V2"),
           Function("g", <<"String">>, "i32", <<Return(Number)>>)}
OtherPrintf == printf \cup {Extern("printf", <<"String", Vararg, "i32">>, "void"),
                            Extern("printf", <<Vararg>>, "void")}

MCPrograms ==
  Samples \cup UNION {Orders(x, y, TypeDecl("V3", <<"V2", "i32">>), TypeDecl("V2", <<"i32">>), z) :
                         x \in OtherMains, y \in OtherG, z \in OtherPrintf}

\* A node of a syntax tree and those below it.
RECURSIVE Below(_)
Below(ast) == {ast} \cup UNION {Below(child) : child \in Range(Children(ast))}

MCAsts == [p \in MCPrograms |-> UNION {Below(p[d]) : d \in DOMAIN p}]
=============================================================================
