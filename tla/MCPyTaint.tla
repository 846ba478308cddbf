----------------------------- MODULE MCPyTaint -----------------------------
(* The taint rule over all the small files of three shapes: a function and *)
(* its helper, in either order, and chains of helpers longer than passes.  *)
EXTENDS PyTaint

src == [kind |-> "source", hidden |-> FALSE, san |-> FALSE]
safeSrc == [kind |-> "source", hidden |-> FALSE, san |-> TRUE]
hidden == [kind |-> "source", hidden |-> TRUE, san |-> FALSE]
var(v) == [kind |-> "var", name |-> v, san |-> FALSE]
safeVar(v) == [kind |-> "var", name |-> v, san |-> TRUE]
call(f) == [kind |-> "call", name |-> f, san |-> FALSE]

assign(v, e, n) == [kind |-> "assign", nest |-> n, to |-> v, expr |-> e]
aug(v, e, n) == [kind |-> "aug", nest |-> n, to |-> v, expr |-> e]
return(e) == [kind |-> "return", nest |-> 0, to |-> "return", expr |-> e]
sink(a, n) == [kind |-> "sink", nest |-> n, args |-> a]

fun(ss, u, g) == [stmts |-> ss, untrusted |-> u, guarded |-> g]

Changes(h) ==
    {assign("x", e, n) : e \in {<<>>, <<src>>, <<call(h)>>, <<safeVar("x"), var("y")>>}, n \in 0..1}
        \cup {assign("y", e, n) : e \in {<<>>, <<safeSrc>>, <<var("x")>>}, n \in 0..1}
        \cup {aug("x", <<safeVar("y")>>, 0), aug("y", <<call(h), src>>, 0)}

Sinks(h) == {sink(<<a>>, n) : a \in {<<var("x")>>, <<var("y"), var("x")>>}, n \in 0..1}
                \cup {sink(<<<<call(h)>>, <<safeVar("y")>>>>, 0)}

Bodies(h) == UNION {{<<s, t, k>>, <<s, k, t>>} : s, t \in Changes(h), k \in Sinks(h)}

Mains(h) == {fun(b, {}, {}) : b \in Bodies(h)}
                \cup {fun(<<assign("x", <<hidden, var("y")>>, n), k, t>>, {}, {}) :
                        n \in 0..1, k \in Sinks(h), t \in Changes(h)}
                \cup {fun(<<k, t>>, {"x"}, g) : k \in Sinks(h), t \in Changes(h), g \in SUBSET {"x"}}

Helpers(m) ==
    {fun(<<return(e)>>, {}, {}) : e \in {<<>>, <<safeSrc>>, <<hidden>>}}
        \cup {fun(<<assign("x", <<src>>, n), return(<<var("x")>>)>>, {}, {}) : n \in 0..1}
        \cup {fun(<<return(<<call(m), src>>)>>, {}, {})}

Last == fun(<<return(<<src>>)>>, {}, {})
Pass(f) == fun(<<return(<<call(f)>>)>>, {}, {})
User(f) == fun(<<assign("x", <<call(f)>>, 0), sink(<<<<var("x")>>>>, 0)>>, {}, {})

CallersFirst(n) == <<User(2)>> \o [i \in 1..n |-> Pass(i + 2)] \o <<Last>>
CalledFirst(n) == <<Last>> \o [i \in 1..n |-> Pass(i)] \o <<User(n + 1)>>

MCPrograms ==
    {<<m, h>> : m \in Mains(2), h \in Helpers(1)}
        \cup {<<h, m>> : m \in Mains(1), h \in Helpers(2)}
        \cup {CallersFirst(n) : n \in 0..5} \cup {CalledFirst(n) : n \in 0..5}
=============================================================================
