------------------------------ MODULE MCParser ------------------------------
(***************************************************************************)
(* The texts of small programs, whole, cut off anywhere, with a token left *)
(* out anywhere, or a comma too many.                                      *)
(***************************************************************************)
EXTENDS Parser

Sum   == Binary("+", Identifier("x"), Number)

Fn(name, parameters, return, block) ==
  [FunctionNode(name) EXCEPT !.parameters = parameters, !.return_type = return, !.block = block,
                             !.names = [k \in DOMAIN parameters |-> ""]]
Members(name, types) ==
  [TypeNode(name) EXCEPT !.members = types, !.names = [k \in DOMAIN types |-> "m"]]

Statements ==
  {Variable("A", "x", NoValue), Variable("i32", "y", Sum), Variable("i32", "f", Number),
   Variable("A", "A", NoValue), Return(NoValue), Return(Sum), Identifier("x"),
   Call("g", <<Identifier("x"), Token(","), Call("h", <<Text>>)>>), Binary("=", Dot(Dot(Identifier("x"), "m"), "m"), Number),
   Fn("k", <<>>, "void", <<Variable("i32", "x", NoValue)>>),
   Binary("+", Binary("=", Identifier("x"), Number), Number)}

Blocks == {<<>>} \cup {<<s>> : s \in Statements}
                 \cup {<<Variable("i32", "x", NoValue), s>> : s \in Statements}

f == {[Fn("f", <<"A">>, "void", b) EXCEPT !.names = <<"p">>] : b \in Blocks}
A == {Members("A", <<"i32", "A">>), Fn("A", <<>>, "i32", <<>>),
      [Fn("g", <<"A", Vararg>>, "i32", <<>>) EXCEPT !.is_extern = TRUE],
      Fn("g", <<>>, "void", <<>>),
      Variable("A", "x", NoValue), Members("f", <<>>)}

\* What the trees forget is put back: the commas in the lists of members and
\* parameters and the attributes (g is extern, or an entry).
Before(ts, k) ==
  CASE k > 1 /\ ts[k - 1] = Id("m") /\ ts[k].type = "identifier" -> <<Token(",")>>
    [] k > 1 /\ ts[k - 1] = Id("A") /\ ts[k] = Token(".")         -> <<Token(",")>>
    [] k > 1 /\ ts[k - 1] = Id("i32") /\ ts[k] = Token(";")       -> <<Token("@"), Id("extern")>>
    [] k > 3 /\ ts[k - 3] = Id("g") /\ ts[k] = Token("{")         -> <<Token("@"), Id("entry")>>
    [] OTHER -> <<>>
Remembered(ts) == FlattenSeq([k \in DOMAIN ts |-> Before(ts, k) \o <<ts[k]>>])

Height == 6
Whole == {Remembered(Written(BlockPieces(<<x, y>>), Height)) : x \in f, y \in A}
         \cup {Remembered(Written(BlockPieces(<<y, x>>), Height)) : x \in f, y \in A}

CutOff(ts)   == {SubSeq(ts, 1, k) : k \in DOMAIN ts}
LeftOut(ts)  == {RemoveAt(ts, k) : k \in DOMAIN ts}
TooMany(ts)  == {InsertAt(ts, k, Token(",")) : k \in DOMAIN ts}

MCTexts ==
  Whole \cup UNION {CutOff(ts) \cup LeftOut(ts) \cup TooMany(ts) : ts \in Whole}
=============================================================================
