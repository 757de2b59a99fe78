------------------------------ MODULE MCLexer -------------------------------
(***************************************************************************)
(* Every text of up to three characters over one of each class and the     *)
(* marks of comments, strings and long operators; longer ones over the     *)
(* alphabets in which comments, words and lines, and strings are made.     *)
(***************************************************************************)
EXTENDS Lexer

UpTo(S, n) == UNION {[1 .. k -> S] : k \in 0 .. n}

MCTexts == UpTo({"n", " ", "\n", "/", "*", "<", Quote, "#"}, 3)
           \cup UpTo({"n", "1", "<", "CR", EOF}, 3)
           \cup UpTo({"/", "*", "\n"}, 5)
           \cup UpTo({"f", "n", "1", "\n"}, 4)
           \cup UpTo({Quote, "\n", "f", EOF}, 4)
=============================================================================
