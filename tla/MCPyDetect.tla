----------------------------- MODULE MCPyDetect -----------------------------
(* PyDetect on three files: a has a source at p; b a call there that is    *)
(* none; c has at q a source inside a call that is none, as in             *)
(* input().strip(), a row of summaries that an earlier process may have    *)
(* left it, and a rule that may raise.                                     *)
EXTENDS PyDetect

CONSTANTS a, b, c, p, q

Outer(x) == <<x, "outer">>
Inner(x) == <<x, "inner">>

MCNodes == [f \in Files |-> CASE f = a -> {Outer(p), Outer(q)} [] f = b -> {Outer(p)}
                              [] OTHER -> {Outer(q), Inner(q)}]
MCSources == [f \in Files |-> CASE f = a -> {Outer(p)} [] f = b -> {} [] OTHER -> {Inner(q)}]
MCReturned == [f \in Files |-> CASE f = a -> {Outer(p)} [] f = b -> {} [] OTHER -> MCNodes[f]]
MCIndexed == [f \in Files |-> IF f = c THEN {q} ELSE {p}]
MCNoneLeft == [f \in Files |-> {}]
MCLeft == [f \in Files |-> IF f = c THEN {{}, MCNodes[f]} ELSE {}]
=============================================================================
