------------------------- MODULE MCIncrementalScan -------------------------
(* IncrementalScan on small trees: texts p and q import nothing, text u    *)
(* imports the file b, and text w the file c.                              *)
EXTENDS IncrementalScan

CONSTANTS b, c, p, q, u, w

MCImports == [t \in Contents |-> CASE t = u -> {b} [] t = w -> {c} [] OTHER -> {}]
MCEvident == {p}
=============================================================================
