--------------------------- MODULE MCSummaryGraph ---------------------------
(* SummaryGraph on three functions of two files: f, which calls g in the   *)
(* same file, and g, which calls h of the other. The analyser writes f's   *)
(* dependency on g with the path as given, raw; a lookup of g for f writes *)
(* it normalised. g and h have the same name in files of the same name, so *)
(* a lookup of h is answered by g's summary when it comes first; h's text  *)
(* may lose the function.                                                  *)
EXTENDS SummaryGraph

CONSTANTS f, g, h, raw, a, b, clean, tainted

MCNamed == [d \in Labels |-> IF d = raw THEN g ELSE d]
MCFileOf == [k \in Functions |-> IF k = h THEN b ELSE a]
MCSimilar == [k \in Functions |-> IF k = h THEN {g} ELSE {}]
MCCallsOf == [k \in Functions |-> CASE k = f -> {g} [] k = g -> {h} [] OTHER -> {}]
MCComputable ==
    [k \in Functions |->
        CASE k = f -> {[facts |-> clean, deps |-> {raw}]}
          [] k = g -> {[facts |-> clean, deps |-> {}]}
          [] OTHER -> {[facts |-> tainted, deps |-> {}], None}]
=============================================================================
