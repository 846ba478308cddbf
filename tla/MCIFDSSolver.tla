---------------------------- MODULE MCIFDSSolver ----------------------------
(* IFDSSolver on one program: main calls g at the call sites c1 and c2 and *)
(* goes on at r1 and r2, and g, from its entry en to its exit ex, may call *)
(* itself at c3, from where it goes on at r3.                              *)
EXTENDS IFDSSolver

CONSTANTS c1, c2, c3, r1, r2, r3, en, ex, main, g, x, y

MCFunctionOf == [n \in Nodes |-> IF n \in {c1, c2, r1, r2} THEN main ELSE g]
MCCallee == [c \in CallNodes |-> g]
MCEntry == [h \in {g} |-> en]
MCReturnNode == [c \in CallNodes |-> CASE c = c1 -> r1 [] c = c2 -> r2 [] OTHER -> r3]

Identity == [f \in Facts |-> {f}]
Rename == [f \in Facts |-> IF f = x THEN {x, y} ELSE {}]

Edge(n, m, ctx, fn) == [from |-> n, to |-> m, ctx |-> ctx, fn |-> fn]

(* Past c1 everything flows; g makes y of x on its way to the recursive    *)
(* call and drops y, which a second flow function leaves alone.            *)
MCFlows ==
    {Edge(c1, c2, <<>>, Identity)}
    \cup {Edge(en, ex, <<c1>>, Identity)}
    \cup {Edge(en, c3, ctx, fn) : ctx \in {<<c1>>, <<c1, c3>>, <<c3, c3>>}, fn \in {Identity, Rename}}

(* A source before c1, one before c2, and a parameter tainted in g itself. *)
MCSources == {<<c1, <<>>, x>>, <<c2, <<>>, y>>, <<en, <<c2>>, y>>}
=============================================================================
