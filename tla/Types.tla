------------------------------- MODULE Types --------------------------------
(***************************************************************************)
(* The type table of src/type.h, as operators on a sequence of types.  A   *)
(* type's id is its place in the table, counted from zero.  Function types *)
(* are nameless; "" is the name of nothing a program can write.            *)
(***************************************************************************)
EXTENDS Integers, Sequences

VOID == 0
I32 == 1
F32 == 2
STRING_TYPE == 3

NoType == -1               \* the null pointer find_type returns

Builtin(name) == [name |-> name, kind |-> "builtin"]
Struct(name, members) == [name |-> name, kind |-> "struct", members |-> members]
FunctionType(return, parameters, is_varargs) ==
  [name |-> "", kind |-> "function", return |-> return, parameters |-> parameters,
   is_varargs |-> is_varargs]

initialize_type_system ==
  <<Builtin("void"), Builtin("i32"), Builtin("f32"), Builtin("String")>>

\* The id of the type create_type is about to add.
NextId(types) == Len(types)

get_type(types, id) == types[id + 1]

First(S) == CHOOSE k \in S : \A l \in S : k <= l

find_type(types, name) ==
  LET found == {k \in DOMAIN types : types[k].name = name}
  IN IF found = {} THEN NoType ELSE First(found) - 1

\* The type of the first member of that name, or NoType.
find_member(type, name) ==
  LET found == {k \in DOMAIN type.members : type.members[k].name = name}
  IN IF found = {} THEN NoType ELSE type.members[First(found)].type

\* A mutant of SameSignature: it does not tell the variadic functions apart.
SameSignatureAnyArguments(type, return, parameters, is_varargs) ==
  /\ type.kind = "function"
  /\ type.parameters = parameters
  /\ type.return # return

\* The test of the loop of create_or_find_function_type: the types whose
\* return type is the one asked for are the ones that are passed over.
SameSignature(type, return, parameters, is_varargs) ==
  /\ type.kind = "function"
  /\ type.is_varargs = is_varargs
  /\ type.parameters = parameters
  /\ type.return # return

create_or_find_function_type(types, return, parameters, is_varargs) ==
  LET found == {k \in DOMAIN types : SameSignature(types[k], return, parameters, is_varargs)}
  IN IF found = {}
     THEN [types |-> Append(types, FunctionType(return, parameters, is_varargs)),
           id |-> NextId(types)]
     ELSE [types |-> types, id |-> First(found) - 1]
=============================================================================
