------------------------------ MODULE PyTaint ------------------------------
(***************************************************************************)
(* The taint rule of the Python analyser over the functions of one file    *)
(* (python_analyzer.py).  First up to Passes passes over the functions     *)
(* find those that return a taint source; then _rule_03 walks each of them *)
(* with a table of tainted variables and looks at the arguments of sinks.  *)
(* Both walks are ast.walk's, breadth first: a statement comes before the  *)
(* calls inside an earlier one, and before all that is nested deeper.      *)
(* The file is analysed with an empty cache of sources (PyDetect has the   *)
(* other case), and no row of summaries it finds says otherwise.           *)
(* The names of the specification begin with Taint, as                     *)
(* PythonAnalyserProofs speaks of it and of PyDetect.                      *)
(***************************************************************************)
EXTENDS Naturals, Sequences

CONSTANTS
    Vars,        \* the names of local variables and parameters
    Ret,         \* what a return statement assigns to
    Programs,    \* the files: sequences of functions in the order of func_defs
    Passes       \* the passes over the functions, 4 in the code

(* An expression is the sequence of what _find_tainted_expr_info comes to: *)
(* sources, variables and calls of functions of the file, each inside a    *)
(* sanitizer of the sink's CWE or not.  The arguments of a call follow it: *)
(* they taint its value whatever the function does with them.  A source is *)
(* hidden when a call around it begins where it does, as in                *)
(* input().strip(): the two have one key in the cache.                     *)
Atom == [kind : {"source"}, hidden : BOOLEAN, san : BOOLEAN]
            \cup [kind : {"var"}, name : Vars, san : BOOLEAN]
            \cup [kind : {"call"}, name : Nat, san : BOOLEAN]

(* A statement with its nesting; a sink call has a sequence of arguments.  *)
Stmt == [kind : {"assign", "aug"}, nest : Nat, to : Vars, expr : Seq(Atom)]
            \cup [kind : {"return"}, nest : Nat, to : {Ret}, expr : Seq(Atom)]
            \cup [kind : {"sink"}, nest : Nat, args : Seq(Seq(Atom))]

(* untrusted: the parameters with a tell-tale name or in the route;        *)
(* guarded: the variables some isinstance test narrows to a number.        *)
Function == [stmts : Seq(Stmt), untrusted : SUBSET Vars, guarded : SUBSET Vars]

ASSUME ProgramsAssumption == \A P \in Programs : P \in Seq(Function)
ASSUME PassesAssumption == Passes \in Nat /\ Passes > 1   \* the last pass only finds that nothing changes
ASSUME RetAssumption == Ret \notin Vars

VARIABLES
    prog,        \* the file
    phase,       \* "summaries", "rule", "done"
    pass,        \* the pass over the functions
    changed,     \* did it change which functions have a source?
    sources,     \* the functions whose summary has a source
    fn,          \* the function walked
    left,        \* its statements still to come
    env,         \* tainted_vars: "clean", "raw", or "san" for sanitized
    returned,    \* a source was returned in this walk
    findings     \* the sinks reported, <<function, statement>>

taintVars == <<prog, phase, pass, changed, sources, fn, left, env, returned, findings>>

Fns == DOMAIN prog
Stmts(f) == prog[f].stmts
Levels == {"clean", "raw", "san"}

(* The type invariant.                                                     *)
TaintTypeOK ==
    /\ prog \in Seq(Function)
    /\ phase \in {"summaries", "rule", "done"}
    /\ pass \in 1..Passes
    /\ changed \in BOOLEAN /\ returned \in BOOLEAN
    /\ sources \subseteq Fns
    /\ phase # "done" => fn \in Fns /\ left \subseteq DOMAIN Stmts(fn)
    /\ env \in [Vars -> Levels]
    /\ \A x \in findings : x[1] \in Fns /\ x[2] \in DOMAIN Stmts(x[1])

Clean == [v \in Vars |-> "clean"]

TaintInit ==
    /\ prog \in Programs /\ prog # <<>>
    /\ phase = "summaries" /\ pass = 1 /\ changed = FALSE
    /\ sources = {} /\ findings = {}
    /\ fn = 1 /\ left = DOMAIN Stmts(1)
    /\ env = Clean /\ returned = FALSE

-----------------------------------------------------------------------------
(* The walk.                                                               *)

(* A sink is a call, one level below the statement it is in.               *)
Depth(s) == IF s.kind = "sink" THEN s.nest + 2 ELSE s.nest + 1

(* ast.walk: by depth, and in one depth as written.                        *)
Sooner(f, i, j) ==
    \/ Depth(Stmts(f)[i]) < Depth(Stmts(f)[j])
    \/ Depth(Stmts(f)[i]) = Depth(Stmts(f)[j]) /\ i < j

Visited(i) ==
    /\ i \in left /\ \A j \in left \ {i} : Sooner(fn, i, j)
    /\ left' = left \ {i}

(* _get_taint_source has remembered of a hidden source that the call       *)
(* around it, which it met first, is none.                                 *)
Level(a) ==
    LET l == CASE a.kind = "source" -> IF a.hidden THEN "clean" ELSE "raw"
               [] a.kind = "var" -> env[a.name]
               [] OTHER -> IF a.name \in sources THEN "raw" ELSE "clean"
    IN  IF l = "raw" /\ a.san THEN "san" ELSE l

(* Mutant of IsOrigin: only the first place is looked at.                  *)
IsOriginFirst(e, i) == i = 1 /\ e # <<>> /\ Level(e[1]) # "clean"

(* The place of the tainted origin that is found first; no other counts.   *)
IsOrigin(e, i) ==
    /\ i \in DOMAIN e /\ Level(e[i]) # "clean"
    /\ \A j \in 1..(i - 1) : Level(e[j]) = "clean"

Value(e) ==
    IF \E i \in DOMAIN e : IsOrigin(e, i)
    THEN Level(e[CHOOSE i \in DOMAIN e : IsOrigin(e, i)])
    ELSE "clean"

-----------------------------------------------------------------------------
(* _build_function_taint_summaries.                                        *)

HasSource(e) == \E i \in DOMAIN e : Level(e[i]) # "clean"

(* One statement: sanitizers do not matter here.                           *)
Summarise(i) ==
    LET s == Stmts(fn)[i]
        has == s.kind # "sink" /\ HasSource(s.expr)
    IN  /\ phase = "summaries" /\ Visited(i)
        /\ env' = CASE s.kind = "assign" -> [env EXCEPT ![s.to] = IF has THEN "raw" ELSE "clean"]
                    [] s.kind = "aug" -> [env EXCEPT ![s.to] = IF has THEN "raw" ELSE @]
                    [] OTHER -> env
        /\ returned' = (returned \/ (s.kind = "return" /\ has))
        /\ UNCHANGED <<prog, phase, pass, changed, sources, fn, findings>>

Untrusted(f) == [v \in Vars |-> IF v \in prog[f].untrusted THEN "raw" ELSE "clean"]

(* The next function is walked, in this phase with this table.             *)
Walk(f, p, table) ==
    /\ phase' = p
    /\ fn' = f /\ left' = DOMAIN Stmts(f)
    /\ env' = table /\ returned' = FALSE

(* Mutant of More: one pass.                                               *)
MoreNever(ch) == FALSE

More(ch) == ch /\ pass < Passes

(* The function's summary is complete; after the last function another     *)
(* pass follows unless nothing changed or four have been made.             *)
Summarised ==
    LET new == IF returned THEN sources \cup {fn} ELSE sources \ {fn}
        ch == changed \/ new # sources
        last == fn = Len(prog)
    IN  /\ phase = "summaries" /\ left = {}
        /\ sources' = new
        /\ \/ ~last /\ Walk(fn + 1, "summaries", Clean) /\ changed' = ch /\ UNCHANGED pass
           \/ /\ last /\ More(ch)
              /\ Walk(1, "summaries", Clean)
              /\ pass' = pass + 1 /\ changed' = FALSE
           \/ /\ last /\ ~More(ch)
              /\ Walk(1, "rule", Untrusted(1))
              /\ changed' = ch /\ UNCHANGED pass
        /\ UNCHANGED <<prog, findings>>

-----------------------------------------------------------------------------
(* _rule_03.                                                               *)

(* A tainted value taints the variable, a clean one clears it.             *)
Assign(i) ==
    LET s == Stmts(fn)[i]
    IN  /\ phase = "rule" /\ Visited(i) /\ s.kind = "assign"
        /\ env' = [env EXCEPT ![s.to] = Value(s.expr)]
        /\ UNCHANGED <<prog, phase, pass, changed, sources, fn, returned, findings>>

(* x += e: what e is replaces what x was, unless e is clean.               *)
AugAssign(i) ==
    LET s == Stmts(fn)[i]
    IN  /\ phase = "rule" /\ Visited(i) /\ s.kind = "aug"
        /\ env' = IF Value(s.expr) = "clean" THEN env ELSE [env EXCEPT ![s.to] = Value(s.expr)]
        /\ UNCHANGED <<prog, phase, pass, changed, sources, fn, returned, findings>>

(* An argument that is a sanitizer's call sanitizes the whole sink call.   *)
InlineSanitized(args) == \E j \in DOMAIN args : Len(args[j]) = 1 /\ args[j][1].san

(* An isinstance test anywhere in the function excuses the variable.       *)
Excused(e) ==
    \E i \in DOMAIN e : IsOrigin(e, i) /\ e[i].kind = "var" /\ e[i].name \in prog[fn].guarded

(* Mutant of Reported: sanitizers do not count.                            *)
ReportedTainted(args) == \E j \in DOMAIN args : Value(args[j]) # "clean"

Reported(args) ==
    /\ ~InlineSanitized(args)
    /\ \E j \in DOMAIN args : Value(args[j]) = "raw" /\ ~Excused(args[j])

Sink(i) ==
    LET s == Stmts(fn)[i]
    IN  /\ phase = "rule" /\ Visited(i) /\ s.kind = "sink"
        /\ findings' = IF Reported(s.args) THEN findings \cup {<<fn, i>>} ELSE findings
        /\ UNCHANGED <<prog, phase, pass, changed, sources, fn, env, returned>>

Return(i) ==
    /\ phase = "rule" /\ Visited(i) /\ Stmts(fn)[i].kind = "return"
    /\ UNCHANGED <<prog, phase, pass, changed, sources, fn, env, returned, findings>>

Walked ==
    /\ phase = "rule" /\ left = {}
    /\ IF fn < Len(prog)
         THEN Walk(fn + 1, "rule", Untrusted(fn + 1))
         ELSE phase' = "done" /\ UNCHANGED <<fn, left, env, returned>>
    /\ UNCHANGED <<prog, pass, changed, sources, findings>>

-----------------------------------------------------------------------------
TaintNext ==
    \/ Summarised \/ Walked
    \/ \E i \in left : Summarise(i) \/ Assign(i) \/ AugAssign(i) \/ Sink(i) \/ Return(i)

TaintSpec == TaintInit /\ [][TaintNext]_taintVars

-----------------------------------------------------------------------------
(* What may flow where, by the file alone: no order, no branches.          *)

Atoms(e) == {e[i] : i \in DOMAIN e}

Cells == UNION {{<<f, Stmts(f)[i].to>> : i \in {j \in DOMAIN Stmts(f) : Stmts(f)[j].kind # "sink"}} :
                f \in Fns}

Touched(f, a, S) ==
    \/ a.kind = "source"
    \/ a.kind = "var" /\ <<f, a.name>> \in S
    \/ a.kind = "call" /\ <<a.name, Ret>> \in S

(* S has every cell that some statement taints from a source or from S.    *)
Closed(S) ==
    \A f \in Fns : \A i \in DOMAIN Stmts(f) :
        LET s == Stmts(f)[i]
        IN  (s.kind # "sink" /\ \E a \in Atoms(s.expr) : Touched(f, a, S)) => <<f, s.to>> \in S

MayReturn == {f \in Fns : \A S \in SUBSET Cells : Closed(S) => <<f, Ret>> \in S}

TouchedRaw(a, R) ==
    /\ ~a.san
    /\ \/ a.kind = "source"
       \/ a.kind = "var" /\ a.name \in R
       \/ a.kind = "call" /\ a.name \in MayReturn

(* The same for the variables of one function, past no sanitizer.          *)
ClosedRaw(f, R) ==
    /\ prog[f].untrusted \subseteq R
    /\ \A i \in DOMAIN Stmts(f) :
          LET s == Stmts(f)[i]
          IN  (s.kind \in {"assign", "aug"} /\ \E a \in Atoms(s.expr) : TouchedRaw(a, R)) => s.to \in R

MayBeRaw(f) == {v \in Vars : \A R \in SUBSET Vars : ClosedRaw(f, R) => v \in R}

(* The sinks that some argument may reach untouched by a sanitizer.        *)
FlowsTo(f) ==
    {i \in DOMAIN Stmts(f) :
        /\ Stmts(f)[i].kind = "sink"
        /\ \E j \in DOMAIN Stmts(f)[i].args :
              \E a \in Atoms(Stmts(f)[i].args[j]) : TouchedRaw(a, MayBeRaw(f))}

Uses(s) ==
    UNION {Atoms(e) : e \in IF s.kind = "sink" THEN {s.args[j] : j \in DOMAIN s.args} ELSE {s.expr}}

(* A function in which each variable is assigned once, before it is used   *)
(* and no deeper nested than there, and nothing is sanitized or excused.   *)
Simple(f) ==
    /\ prog[f].guarded = {}
    /\ \A i, j \in DOMAIN Stmts(f) :
          LET s == Stmts(f)[i]
              t == Stmts(f)[j]
          IN  /\ \A a \in Uses(s) : ~a.san
              /\ s.kind # "aug"
              /\ s.kind = "assign" => s.to \notin prog[f].untrusted
              /\ (s.kind = "assign" /\ t.kind = "assign" /\ i # j) => s.to # t.to
              /\ (s.kind = "assign" /\ \E a \in Uses(t) : a.kind = "var" /\ a.name = s.to)
                    => i < j /\ s.nest <= t.nest

(* And no source is hidden by a call around it.                            *)
Plain(f) ==
    /\ Simple(f)
    /\ \A i \in DOMAIN Stmts(f) : \A a \in Uses(Stmts(f)[i]) : a.kind = "source" => ~a.hidden

(* Every function is defined before those that call it.                    *)
CalleesFirst ==
    \A f \in Fns : \A i \in DOMAIN Stmts(f) : \A a \in Uses(Stmts(f)[i]) :
        a.kind = "call" => a.name < f

-----------------------------------------------------------------------------
(* Properties.                                                             *)

(* "Untrusted data flows from ... to ... without sanitization"             *)
(* (python_analyzer.py:3284) is true of each finding to this extent: some  *)
(* chain of the function's assignments, in whatever order, past none of    *)
(* the sanitizers, leads to the sink from a source, an untrusted parameter *)
(* or a helper through which a source may be returned.                     *)
FindingsHaveFlow == \A x \in findings : x[2] \in FlowsTo(x[1])

(* In a file of plain functions the walk reports just the sinks that such  *)
(* a chain leads to, provided the summaries were settled when it began.    *)
ExactWhenPlain ==
    (phase = "done" /\ ~changed /\ \A f \in Fns : Plain(f)) =>
        findings = UNION {{f} \X FlowsTo(f) : f \in Fns}

(* The same said of functions that may hide a source: "Untrusted data      *)
(* flows" (python_analyzer.py:3284) there too, and nothing is reported.    *)
ExactWhenSimple ==
    (phase = "done" /\ ~changed /\ \A f \in Fns : Simple(f)) =>
        findings = UNION {{f} \X FlowsTo(f) : f \in Fns}

(* The passes settle the summaries of plain functions when a function is   *)
(* defined before those that call it, however long the chain of calls is.  *)
SettledWhenCalleesFirst ==
    (phase # "summaries" /\ CalleesFirst /\ \A f \in Fns : Plain(f)) =>
        ~changed /\ sources = MayReturn
=============================================================================
