----------------------------- MODULE PythonApi -----------------------------
(***************************************************************************)
(* Calls of the Python API, scan_file, scan_files and scan_code            *)
(* (__init__.py), in the threads of a pool or of the caller.  Each adds    *)
(* what its configuration has to the tables that all analysers of the      *)
(* process read, analyses, and takes it out again: the context manager     *)
(* temporary_analyzer_config (config.py).                                  *)
(***************************************************************************)
EXTENDS Naturals, Sequences

CONSTANTS
    Scans,       \* the calls
    Given,       \* the configurations they may be given, one for each
    Names,       \* the names of taint sources and sinks
    Specs,       \* what the tables say of a source or a sink
    Functions,   \* the names of sanitizers
    Cwes,        \* what they sanitize
    Builtin,     \* TAINT_SOURCES and TAINT_SINKS as imported
    Sanitized,   \* SANITIZERS as imported
    JavaScript,  \* the calls that analyse JavaScript
    Hangs,       \* those of them whose structural analysis never ends
    None,        \* no entry
    Whole        \* an entry that was not there before

CweSets == {S : S \in SUBSET Cwes}

(* What a configuration adds, in order: sources and sinks, the entries of  *)
(* the extra sanitizer files (in code), and custom_sanitizers.  Only the   *)
(* last are a dictionary whose entries the theorems need to be distinct:   *)
(* custom_sources is a list, and load_config keeps what is in it twice.    *)
Entry == [kind : {"taint"}, name : Names, value : Specs]
            \cup [kind : {"file", "own"}, name : Functions, value : CweSets]

ASSUME GivenAssumption ==
    \A g \in Given : DOMAIN g = Scans /\ \A s \in Scans : LET c == g[s] IN
        /\ c \in Seq(Entry)
        /\ \A i, j \in DOMAIN c : (i # j /\ c[i].kind = "own" /\ c[j].kind = "own") => c[i].name # c[j].name
ASSUME TablesAssumption ==
    /\ Builtin \in [Names -> Specs \cup {None}]
    /\ Sanitized \in [Functions -> CweSets \cup {None}]
    /\ None \notin Specs /\ {None, Whole} \cap CweSets = {} /\ Whole # None
    /\ Names \cap Functions = {}   \* a name stands for its table too
ASSUME HangsAssumption == Hangs \subseteq JavaScript /\ JavaScript \subseteq Scans

VARIABLES
    taint,       \* TAINT_SOURCES and TAINT_SINKS
    sanitizers,  \* SANITIZERS
    config,      \* the configuration of a call
    pc,          \* where a call is
    at,          \* the entry it adds next
    got,         \* what the table had for it, when it has been read
    previous,    \* previous_sources, previous_sinks
    injected,    \* injected_sanitizers
    undo,        \* the names it has still to take out
    overlapped   \* history: two calls with something to add were under way at once

vars == <<taint, sanitizers, config, pc, at, got, previous, injected, undo, overlapped>>

Ended == {"done", "raised"}
Adding == {"adding", "scanning", "late", "classic", "leaving"}

(* The type invariant.                                                     *)
TypeOK ==
    /\ taint \in [Names -> Specs \cup {None}]
    /\ sanitizers \in [Functions -> CweSets \cup {None}]
    /\ config \in Given
    /\ pc \in [Scans -> {"idle"} \cup Adding \cup Ended]
    /\ \A s \in Scans :
          /\ at[s] \in 1..(Len(config[s]) + 1)
          /\ got[s] # <<>> => at[s] \in DOMAIN config[s]
          /\ pc[s] = "leaving" => undo[s] \subseteq Names \cup Functions
          /\ pc[s] \in {"late", "classic"} => s \in JavaScript
          /\ pc[s] # "leaving" => undo[s] = {}
    /\ previous \in [Scans -> [Names -> Specs \cup {None}]]
    /\ injected \in [Scans -> [Functions -> CweSets \cup {None, Whole}]]
    /\ overlapped \in BOOLEAN

Init ==
    /\ taint = Builtin /\ sanitizers = Sanitized
    /\ config \in Given
    /\ pc = [s \in Scans |-> "idle"]
    /\ at = [s \in Scans |-> 1] /\ got = [s \in Scans |-> <<>>]
    /\ previous = [s \in Scans |-> [n \in Names |-> None]]
    /\ injected = [s \in Scans |-> [f \in Functions |-> None]]
    /\ undo = [s \in Scans |-> {}]
    /\ overlapped = FALSE

tables == <<taint, sanitizers>>

(* custom_sanitizers alone count for nothing.                              *)
Bare(c) == \A i \in DOMAIN c : c[i].kind = "own"

-----------------------------------------------------------------------------
(* Adding.                                                                 *)

Begin(s) ==
    /\ pc[s] = "idle"
    /\ pc' = [pc EXCEPT ![s] = IF Bare(config[s]) THEN "scanning" ELSE "adding"]
    /\ overlapped' =
          (overlapped \/ (~Bare(config[s]) /\
              \E t \in Scans : pc[t] \in Adding /\ ~Bare(config[t])))
    /\ UNCHANGED <<tables, config, at, got, previous, injected, undo>>

Current(s) == config[s][at[s]]

(* prev = SANITIZERS.get(fn_name), and so for the others.                  *)
Get(s) ==
    /\ pc[s] = "adding" /\ at[s] \in DOMAIN config[s] /\ got[s] = <<>>
    /\ LET e == Current(s)
       IN  got' = [got EXCEPT ![s] = <<IF e.kind = "taint" THEN taint[e.name] ELSE sanitizers[e.name]>>]
    /\ UNCHANGED <<tables, config, pc, at, previous, injected, undo, overlapped>>

Read(s, kinds) ==
    /\ pc[s] = "adding" /\ got[s] # <<>> /\ Current(s).kind \in kinds
    /\ got' = [got EXCEPT ![s] = <<>>]
    /\ UNCHANGED <<config, undo, overlapped>>

(* A source or a sink: what the table had is kept for the end.             *)
PutTaint(s) ==
    LET e == Current(s)
    IN  /\ Read(s, {"taint"})
        /\ previous' = [previous EXCEPT ![s][e.name] = got[s][1]]
        /\ taint' = [taint EXCEPT ![e.name] = e.value]
        /\ at' = [at EXCEPT ![s] = @ + 1]
        /\ UNCHANGED <<sanitizers, pc, injected>>

(* A sanitizer that the table did not have.                                *)
PutSanitizer(s) ==
    LET e == Current(s)
    IN  /\ Read(s, {"file", "own"}) /\ got[s][1] = None
        /\ sanitizers' = [sanitizers EXCEPT ![e.name] = e.value]
        /\ injected' = [injected EXCEPT ![s][e.name] = Whole]
        /\ at' = [at EXCEPT ![s] = @ + 1]
        /\ UNCHANGED <<taint, pc, previous>>

(* Mutant of Grown: the set is replaced.                                   *)
GrownReplaced(s) == [sanitizers EXCEPT ![Current(s).name] = Current(s).value]

(* The set that was read grows, in the table if it is still there.         *)
Grown(s) ==
    LET e == Current(s)
    IN  IF sanitizers[e.name] = None THEN sanitizers
        ELSE [sanitizers EXCEPT ![e.name] = @ \cup e.value]

(* One that it had: also what the set already held counts as added.        *)
GrowSanitizer(s) ==
    LET e == Current(s)
    IN  /\ Read(s, {"file", "own"}) /\ got[s][1] # None /\ injected[s][e.name] # Whole
        /\ sanitizers' = Grown(s)
        /\ injected' = [injected EXCEPT ![s][e.name] = IF @ = None THEN e.value ELSE @ \cup e.value]
        /\ at' = [at EXCEPT ![s] = @ + 1]
        /\ UNCHANGED <<taint, pc, previous>>

(* One that this call has itself put there: setdefault returns None and    *)
(* the call on it raises.  Within a file the rest of that file is skipped, *)
(* wherever it ends; else the call ends, before the try whose finally      *)
(* would take all out.                                                     *)
AddTwice(s) ==
    LET e == Current(s)
    IN  /\ Read(s, {"file", "own"}) /\ got[s][1] # None /\ injected[s][e.name] = Whole
        /\ sanitizers' = Grown(s)
        /\ IF e.kind = "file"
             THEN /\ \E i \in (at[s] + 1)..(Len(config[s]) + 1) :
                        /\ \A j \in (at[s] + 1)..(i - 1) : config[s][j].kind = "file"
                        /\ at' = [at EXCEPT ![s] = i]
                  /\ UNCHANGED pc
             ELSE pc' = [pc EXCEPT ![s] = "raised"] /\ UNCHANGED at
        /\ UNCHANGED <<taint, previous, injected>>

Added(s) ==
    /\ pc[s] = "adding" /\ at[s] \notin DOMAIN config[s]
    /\ pc' = [pc EXCEPT ![s] = "scanning"]
    /\ UNCHANGED <<tables, config, at, got, previous, injected, undo, overlapped>>

-----------------------------------------------------------------------------
(* The analysis, which may also raise: the finally block runs all the same. *)

Kept(s) == {n \in Names : \E i \in DOMAIN config[s] : config[s][i].kind = "taint" /\ config[s][i].name = n}
              \cup {f \in Functions : injected[s][f] # None}

Leave(s) ==
    /\ pc' = [pc EXCEPT ![s] = IF Bare(config[s]) THEN "done" ELSE "leaving"]
    /\ undo' = [undo EXCEPT ![s] = IF Bare(config[s]) THEN {} ELSE Kept(s)]
    /\ UNCHANGED <<tables, config, at, got, previous, injected, overlapped>>

Analysed(s) == pc[s] = "scanning" /\ s \notin Hangs /\ Leave(s)

(* future.result(timeout=60) raises, and the end of the with statement     *)
(* waits for the executor's thread.                                        *)
TimesOut(s) ==
    /\ pc[s] = "scanning" /\ s \in JavaScript
    /\ pc' = [pc EXCEPT ![s] = "late"]
    /\ UNCHANGED <<tables, config, at, got, previous, injected, undo, overlapped>>

(* Mutant of ThreadEnds: the structural analysis is tried again.           *)
ThreadRetried(s) ==
    /\ pc[s] = "late" /\ s \notin Hangs
    /\ pc' = [pc EXCEPT ![s] = "scanning"]
    /\ UNCHANGED <<tables, config, at, got, previous, injected, undo, overlapped>>

(* It ends after all: its result is not used.                              *)
ThreadEnds(s) ==
    /\ pc[s] = "late" /\ s \notin Hangs
    /\ pc' = [pc EXCEPT ![s] = "classic"]
    /\ UNCHANGED <<tables, config, at, got, previous, injected, undo, overlapped>>

ClassicEnds(s) == pc[s] = "classic" /\ Leave(s)

-----------------------------------------------------------------------------
(* Taking out.                                                             *)

(* Mutants of TakenTaint: what was not there before is left in; all that a *)
(* configuration names is taken out.                                       *)
TakenTaintKept(s, n) == IF previous[s][n] = None THEN taint[n] ELSE previous[s][n]

TakenTaintPopped(s, n) == None

TakenTaint(s, n) == previous[s][n]

TakenSanitizer(s, f) ==
    IF injected[s][f] = Whole \/ sanitizers[f] = None THEN None
    ELSE sanitizers[f] \ injected[s][f]

TakeOut(s, n) ==
    /\ pc[s] = "leaving" /\ n \in undo[s]
    /\ n \in Functions => undo[s] \cap Names = {}
    /\ undo' = [undo EXCEPT ![s] = @ \ {n}]
    /\ IF n \in Names
         THEN taint' = [taint EXCEPT ![n] = TakenTaint(s, n)] /\ UNCHANGED sanitizers
         ELSE sanitizers' = [sanitizers EXCEPT ![n] = TakenSanitizer(s, n)] /\ UNCHANGED taint
    /\ UNCHANGED <<config, pc, at, got, previous, injected, overlapped>>

(* Mutant of Left: it ends with names still to take out.                   *)
LeftEarly(s) ==
    /\ pc[s] = "leaving"
    /\ pc' = [pc EXCEPT ![s] = "done"]
    /\ UNCHANGED <<tables, config, at, got, previous, injected, undo, overlapped>>

Left(s) ==
    /\ pc[s] = "leaving" /\ undo[s] = {}
    /\ pc' = [pc EXCEPT ![s] = "done"]
    /\ UNCHANGED <<tables, config, at, got, previous, injected, undo, overlapped>>

-----------------------------------------------------------------------------
Step(s) ==
    \/ Get(s) \/ PutTaint(s) \/ PutSanitizer(s) \/ GrowSanitizer(s) \/ AddTwice(s) \/ Added(s)
    \/ Analysed(s) \/ TimesOut(s) \/ ThreadEnds(s) \/ ClassicEnds(s)
    \/ (\E n \in Names \cup Functions : TakeOut(s, n)) \/ Left(s)

Next == \E s \in Scans : Begin(s) \/ Step(s)

Spec == Init /\ [][Next]_vars

(* A thread runs on; no call need be made.                                 *)
FairSpec == Spec /\ \A s \in Scans : WF_vars(Step(s))

-----------------------------------------------------------------------------
(* Properties.                                                             *)

(* However calls overlap, raise or hang, none loses a name that the        *)
(* package itself knows: the tables keep each built-in source, sink and    *)
(* sanitizer, under whatever description and for whatever CWEs.            *)
BuiltinsKept ==
    /\ \A n \in Names : Builtin[n] # None => taint[n] # None
    /\ \A f \in Functions : Sanitized[f] # None => sanitizers[f] # None

(* A source that a configuration names twice: what its second entry finds, *)
(* and puts back at the end, is its first.                                 *)
Twice(c, n) ==
    \E i, j \in DOMAIN c : i # j /\ \A k \in {i, j} : c[k].kind = "taint" /\ c[k].name = n

(* A configuration that names no sanitizer twice, and none for a CWE that  *)
(* it has already; one that names no source twice either.                  *)
SanitizersOf(c) == {i \in DOMAIN c : c[i].kind # "taint"}

PlainSanitizers(c) ==
    \A i \in SanitizersOf(c) :
        /\ Sanitized[c[i].name] # None => c[i].value \cap Sanitized[c[i].name] = {}
        /\ \A j \in SanitizersOf(c) : i # j => c[i].name # c[j].name

Plain(c) == PlainSanitizers(c) /\ \A n \in Names : ~Twice(c, n)

Quiet == ~overlapped /\ \A s \in Scans : pc[s] # "raised"

(* While calls with something to add never overlap and none raises in its  *)
(* preparations, nothing of a configuration outlives the call but a source *)
(* that it names twice, and nothing built in is lost but to a              *)
(* configuration that is not plain.                                        *)
RestoredAlone ==
    (Quiet /\ \A s \in Scans : pc[s] \in {"idle", "done"}) =>
        /\ \A n \in Names :
              taint[n] = Builtin[n] \/ \E s \in Scans : pc[s] = "done" /\ Twice(config[s], n)
        /\ \A f \in Functions :
              /\ sanitizers[f] = None <=> Sanitized[f] = None
              /\ sanitizers[f] # None => sanitizers[f] \subseteq Sanitized[f]
        /\ (\A s \in Scans : PlainSanitizers(config[s])) => sanitizers = Sanitized

Telling(c, f) == {i \in SanitizersOf(c) : c[i].name = f}

Told(c, f) == UNION {c[i].value : i \in Telling(c, f)}

(* Then an analysis works with just the built-in entries and those of its  *)
(* own configuration, from its beginning to its end, fallback included.    *)
OwnTablesAlone ==
    (~overlapped /\ \A s \in Scans : Plain(config[s])) =>
        \A s \in Scans : (pc[s] \in {"scanning", "late", "classic"} /\ ~Bare(config[s])) =>
            /\ \A n \in Names :
                  taint[n] \in IF n \in Kept(s)
                               THEN {config[s][i].value : i \in {j \in DOMAIN config[s] : config[s][j].name = n}}
                               ELSE {Builtin[n]}
            /\ \A f \in Functions :
                  sanitizers[f] =
                      IF Sanitized[f] = None /\ Telling(config[s], f) = {} THEN None
                      ELSE Told(config[s], f) \cup IF Sanitized[f] = None THEN {} ELSE Sanitized[f]

(* A call that is made ends, whatever the other calls do, unless its own   *)
(* structural analysis hangs.                                              *)
OthersEnd == \A s \in Scans \ Hangs : pc[s] # "idle" ~> pc[s] \in Ended

(* The intention of the finally block: nothing of a configuration stays in *)
(* the tables of sources and sinks when no call is under way.              *)
NothingOutlives ==
    (Quiet /\ \A s \in Scans : pc[s] \in {"idle", "done"}) => taint = Builtin

(* "Fall back to classic backend if structural analysis hangs"             *)
(* (__init__.py:252): a timeout is followed by the classic analysis.       *)
HangFallsBack == \A s \in Scans : pc[s] = "late" ~> pc[s] = "classic"
=============================================================================
