---------------------------- MODULE SummaryGraph ----------------------------
(***************************************************************************)
(* The function summaries of ir/global_graph.py: in memory with an index   *)
(* of reverse dependencies, persisted as rows of two buckets from which a  *)
(* later process loads them on demand, and invalidated when files change.  *)
(* The clients, the analysers, record a summary of each function of a file *)
(* they read, look up those of the functions it calls and save; the user   *)
(* edits, and processes end and start at any time.                         *)
(***************************************************************************)
EXTENDS Naturals

CONSTANTS
    Files,       \* the source files
    Functions,   \* the functions, a file and a name each, paths normalised
    Labels,      \* what a dependency may be written as: a function, or one with its path as given
    Named,       \* the function a label means, its path normalised
    FileOf,      \* the file a function is in
    Similar,     \* the functions of the same name in files whose paths _paths_match
    Facts,       \* what a summary may say of a function
    Blank,       \* what it says in a summary that only lists dependencies
    Computable,  \* what an analyser may compute of a function, None without such a text
    CallsOf,     \* the functions whose summaries a function's calls look up
    None         \* no summary, no row, no such function in the text

ASSUME FilesAssumption ==
    /\ FileOf \in [Functions -> Files]
    /\ Similar \in [Functions -> SUBSET Functions]
    /\ CallsOf \in [Functions -> SUBSET Functions]
ASSUME LabelsAssumption ==
    Functions \subseteq Labels /\ Named \in [Labels -> Functions] /\ \A k \in Functions : Named[k] = k
ASSUME ComputableAssumption ==
    Computable \in [Functions -> SUBSET ([facts : Facts, deps : SUBSET Labels] \cup {None})]
ASSUME NoneAssumption ==
    Blank \notin Facts /\ None \notin [facts : Facts \cup {Blank}, deps : SUBSET Labels]

VARIABLES
    code,        \* what an analyser computes of each function from the text it has now
    mem,         \* function_summaries
    rev,         \* reverse_summary_dependencies: the callers under each label
    missing,     \* _missing_summary_keys
    sumRow,      \* the rows of _SUMMARY_BUCKET
    depRow,      \* the rows of _DEPENDENCY_BUCKET
    changed,     \* history: the files edited since invalidate_changed_files was told of them
    interrupted  \* history: a process has ended, or an invalidation was cut short

graph == <<mem, rev, missing>>
rows == <<sumRow, depRow>>
history == <<changed, interrupted>>
vars == <<code, graph, rows, history>>

Summary == [facts : Facts \cup {Blank}, deps : SUBSET Labels]

(* The type invariant; a function with facts in memory is not known as     *)
(* missing.                                                                *)
TypeOK ==
    /\ code \in [Functions -> Summary \cup {None}]
    /\ mem \in [Functions -> Summary \cup {None}]
    /\ rev \in [Labels -> SUBSET Functions]
    /\ missing \subseteq Functions
    /\ sumRow \in [Functions -> Summary \cup {None}]
    /\ depRow \in [Functions -> SUBSET Functions]
    /\ changed \subseteq Files
    /\ interrupted \in BOOLEAN
    /\ \A k \in missing : mem[k] = None \/ mem[k].facts = Blank

NoSummaries == [k \in Functions |-> None]
NoCallers == [d \in Labels |-> {}]

Init ==
    /\ code \in {c \in [Functions -> UNION {Computable[k] : k \in Functions}] :
                    \A k \in Functions : c[k] \in Computable[k]}
    /\ mem = NoSummaries /\ rev = NoCallers /\ missing = {}
    /\ sumRow = NoSummaries /\ depRow = [k \in Functions |-> {}]
    /\ changed = {} /\ interrupted = FALSE

-----------------------------------------------------------------------------
(* The user.                                                               *)

Edit(k, s) ==
    /\ code[k] # s
    /\ code' = [code EXCEPT ![k] = s]
    /\ changed' = changed \cup {FileOf[k]}
    /\ UNCHANGED <<graph, rows, interrupted>>

-----------------------------------------------------------------------------
(* Recording.                                                              *)

(* _rebuild_reverse_dependencies_for: k is a caller of deps and no other.  *)
(* A dependency is indexed as it is written: what the Python analyser      *)
(* records of the calls within a file has the path that it was given.      *)
Rebuilt(r, k, deps) ==
    [d \in Labels |-> IF d \in deps THEN r[d] \cup {k} ELSE r[d] \ {k}]

(* record_function_summary, with what the analyser computes: the function  *)
(* is normalised, its dependencies are not.                                *)
Record(k) ==
    /\ code[k] # None
    /\ mem' = [mem EXCEPT ![k] = code[k]]
    /\ rev' = Rebuilt(rev, k, code[k].deps)
    /\ missing' = missing \ {k}
    /\ UNCHANGED <<code, rows, history>>

(* record_call_dependency, on top of the summaries m: the caller's summary *)
(* gets the callee, and a caller without a summary gets a blank one.       *)
Calling(m, caller, callee) ==
    IF m[caller] = None THEN [facts |-> Blank, deps |-> {callee}]
    ELSE [m[caller] EXCEPT !.deps = @ \cup {callee}]

(* Mutant of WithCall: the index is not rebuilt for a call.                *)
WithCallUnindexed(m, r, caller, callee) ==
    /\ mem' = [m EXCEPT ![caller] = Calling(m, caller, callee)]
    /\ rev' = r

WithCall(m, r, caller, callee) ==
    /\ mem' = [m EXCEPT ![caller] = Calling(m, caller, callee)]
    /\ rev' = IF m[caller] # None /\ callee \in (m[caller]).deps THEN r
               ELSE Rebuilt(r, caller, Calling(m, caller, callee).deps)

-----------------------------------------------------------------------------
(* Lookup.                                                                 *)

(* get_function_summary, first by the path and then by a similar one.      *)
InMemory(k) == mem[k] # None \/ \E j \in Similar[k] : mem[j] # None

(* The graph once load_summary has taken k's rows into memory.             *)
LoadedMem(k) == [mem EXCEPT ![k] = sumRow[k]]
LoadedRev(k) ==
    LET r == Rebuilt(rev, k, sumRow[k].deps)
    IN  [r EXCEPT ![k] = @ \cup depRow[k]]

(* load_summary finds a row.                                               *)
Loadable(k) == mem[k] = None /\ k \notin missing /\ sumRow[k] # None

(* load_summary finds none or the database is locked, and it remembers that. *)
LookupFails(k) ==
    /\ ~InMemory(k)
    /\ missing' = missing \cup {k}
    /\ UNCHANGED <<code, mem, rev, rows, history>>

(* propagate_call_facts: the callee's summary is in memory or is loaded,   *)
(* and the call is recorded as a dependency on the callee as it was named. *)
PropagateInMemory(caller, callee) ==
    /\ InMemory(callee)
    /\ WithCall(mem, rev, caller, callee)
    /\ UNCHANGED <<code, missing, rows, history>>

PropagateLoading(caller, callee) ==
    /\ ~InMemory(callee) /\ Loadable(callee)
    /\ WithCall(LoadedMem(callee), LoadedRev(callee), caller, callee)
    /\ missing' = missing \ {callee}
    /\ UNCHANGED <<code, rows, history>>

-----------------------------------------------------------------------------
(* Persistence.                                                            *)

SavedSum == [k \in Functions |-> IF mem[k] # None THEN mem[k] ELSE sumRow[k]]

(* The row of a function is that of every label that means it, so the      *)
(* callers under the last one written, w[k], are what is kept.             *)
LastWritten ==
    {w \in [Functions -> Labels] : \A k \in Functions :
        /\ Named[w[k]] = k
        /\ rev[w[k]] = {} => \A d \in Labels : Named[d] = k => rev[d] = {}}

SavedDep(w) == [k \in Functions |-> IF rev[w[k]] # {} THEN rev[w[k]] ELSE depRow[k]]

(* save_summaries. The database may be locked part way, after some rows:   *)
(* each is a commit of its own, those of the summaries first. A row of a   *)
(* function no longer in memory stays.                                     *)
Save ==
    \E w \in LastWritten : \E S, D \in SUBSET Functions :
        /\ D # {} => S = Functions
        /\ sumRow' = [k \in Functions |-> IF k \in S THEN SavedSum[k] ELSE sumRow[k]]
        /\ depRow' = [k \in Functions |-> IF k \in D THEN SavedDep(w)[k] ELSE depRow[k]]
        /\ UNCHANGED <<code, graph, history>>

(* The process ends, at any time, and another starts with an empty graph.  *)
Restart ==
    /\ mem' = NoSummaries /\ rev' = NoCallers /\ missing' = {}
    /\ interrupted' = TRUE
    /\ UNCHANGED <<code, rows, changed>>

-----------------------------------------------------------------------------
(* Invalidation.                                                           *)

ChangedIn(S) == {k \in Functions : mem[k] # None /\ FileOf[k] \in S}

(* Mutant of Invalidated: the callers of a changed function and no further. *)
InvalidatedOnce(S) == ChangedIn(S) \cup UNION {rev[k] : k \in ChangedIn(S)}

(* The functions in memory of changed files and, over the index, all who   *)
(* depend on them. Only what is indexed under a function's normalised name *)
(* is found: the walk never meets the path as it was given.                *)
Invalidated(S) ==
    LET found == ChangedIn(S)
        closed == {T \in SUBSET Functions : found \subseteq T /\ \A d \in T : rev[d] \subseteq T}
    IN  {k \in Functions : \A T \in closed : k \in T}

(* Mutant of Forget: the rows are left for the next save to replace.       *)
ForgetInMemory(K) ==
    /\ mem' = [k \in Functions |-> IF k \in K THEN None ELSE mem[k]]
    /\ rev' = [d \in Labels |-> rev[d] \ K]
    /\ missing' = missing \ K
    /\ UNCHANGED rows

Forget(K) ==
    /\ mem' = [k \in Functions |-> IF k \in K THEN None ELSE mem[k]]
    /\ rev' = [d \in Labels |-> rev[d] \ K]
    /\ missing' = missing \ K
    /\ sumRow' = [k \in Functions |-> IF k \in K THEN None ELSE sumRow[k]]
    /\ depRow' = [k \in Functions |-> IF k \in K THEN {} ELSE depRow[k]]

(* invalidate_changed_files.                                               *)
Invalidate(S) ==
    /\ changed' = changed \ S
    /\ UNCHANGED <<code, interrupted>>
    /\ Forget(Invalidated(S))

(* The database is locked when, after the summaries and the rows of K, one *)
(* more has left memory: the index keeps its callers, the caller of        *)
(* invalidate_changed_files goes on and the files stay to be told of.      *)
InvalidateFails(S) ==
    \E K \in SUBSET Invalidated(S) : \E k \in Invalidated(S) \ K : \E R \in {K, K \cup {k}} :
        /\ mem' = [j \in Functions |-> IF j \in K \cup {k} THEN None ELSE mem[j]]
        /\ missing' = missing \ (K \cup {k})
        /\ sumRow' = [j \in Functions |-> IF j \in R THEN None ELSE sumRow[j]]
        /\ depRow' = [j \in Functions |-> IF j \in K THEN {} ELSE depRow[j]]
        /\ interrupted' = TRUE
        /\ UNCHANGED <<code, rev, changed>>

-----------------------------------------------------------------------------
Next ==
    \/ \E k \in Functions : Record(k) \/ \E s \in Computable[k] : Edit(k, s)
    \/ \E k \in Functions : \E callee \in CallsOf[k] :
          PropagateInMemory(k, callee) \/ PropagateLoading(k, callee) \/ LookupFails(callee)
    \/ Save \/ Restart
    \/ \E S \in SUBSET Files : Invalidate(S) \/ InvalidateFails(S)

Spec == Init /\ [][Next]_vars

-----------------------------------------------------------------------------
(* Properties.                                                             *)

(* The index knows every caller: whatever was recorded, called, loaded     *)
(* from rows a crash left half written, or invalidated, a summary that     *)
(* depends on a label is found under that label.                           *)
CallersKnown ==
    \A k \in Functions, d \in Labels : mem[k] # None /\ d \in (mem[k]).deps => k \in rev[d]

(* What an invalidation leaves in memory is not of a changed file, and     *)
(* depends by a normalised name on no summary the invalidation dropped,    *)
(* and so, step by step, on none at any distance.                          *)
SurvivorsUnaffected ==
    [][\A S \in SUBSET Files : Invalidate(S) =>
          \A k \in Functions : mem'[k] # None =>
              /\ FileOf[k] \notin S
              /\ \A d \in mem'[k].deps \cap Functions : mem[d] # None => mem'[d] # None]_vars

(* "Invalidate summaries impacted by changed files and dependent callers"  *)
(* (ir/global_graph.py:582): the same of a dependency as the analyser      *)
(* wrote it.                                                               *)
DependentsReached ==
    [][\A S \in SUBSET Files : Invalidate(S) =>
          \A k \in Functions : mem'[k] # None =>
              \A d \in mem'[k].deps : mem[Named[d]] # None => mem'[Named[d]] # None]_vars

Fresh(s, k) == s = None \/ s.facts = Blank \/ (code[k] # None /\ s.facts = code[k].facts)

(* In the first process, while the database answers: of a file that has    *)
(* not changed since invalidate_changed_files was told of it, memory holds *)
(* only summaries of the text the file has; no lookup brings back an older *)
(* one from a row, and no save leaves one for a lookup to bring back.      *)
FreshUninterrupted ==
    ~interrupted => \A k \in Functions : FileOf[k] \notin changed => Fresh(mem[k], k)

(* The same always: what earlier processes left in the rows is not stale   *)
(* either, once the files are invalidated.                                 *)
FreshAfterInvalidation ==
    \A k \in Functions : FileOf[k] \notin changed => Fresh(mem[k], k)
=============================================================================
