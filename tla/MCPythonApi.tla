---------------------------- MODULE MCPythonApi ----------------------------
(* PythonApi with one built-in source, one built-in sanitizer and one more *)
(* name of each.  The configurations: one with a source and a sanitizer of *)
(* each kind; one that names a source twice, and a sanitizer twice in its  *)
(* file; one that names a sanitizer in the file and in custom_sanitizers;  *)
(* one with a new source that repeats a built-in CWE; one with             *)
(* custom_sanitizers alone.  The call that hangs has a new source.         *)
EXTENDS PythonApi

taintOf(n, v) == [kind |-> "taint", name |-> n, value |-> v]
fileOf(f, v) == [kind |-> "file", name |-> f, value |-> v]
ownOf(f, v) == [kind |-> "own", name |-> f, value |-> v]

MCConfigs ==
    {<<taintOf("input", "mine"), fileOf("escape", {"sql"}), ownOf("clean", {"xss"})>>,
     <<taintOf("input", "mine"), taintOf("input", "mine"),
       fileOf("clean", {"xss"}), fileOf("clean", {"sql"}), fileOf("escape", {"sql"})>>,
     <<fileOf("clean", {"xss"}), ownOf("clean", {"sql"})>>,
     <<taintOf("fetch", "mine"), fileOf("escape", {"xss"})>>,
     <<ownOf("clean", {"xss"})>>}

MCGiven == {g \in [Scans -> MCConfigs \cup {<<taintOf("fetch", "yours")>>}] :
               \A s \in Scans : s \in Hangs <=> g[s] \notin MCConfigs}

MCBuiltin == [n \in Names |-> IF n = "input" THEN "builtin" ELSE None]
MCSanitized == [f \in Functions |-> IF f = "escape" THEN {"xss"} ELSE None]
=============================================================================
