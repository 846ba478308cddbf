-------------------------- MODULE IncrementalScan --------------------------
(***************************************************************************)
(* Runs of the command line with --incremental-sha256: cli.py:2900-3098    *)
(* over cache/incremental.py.  A run hashes the files, closes the changed  *)
(* ones over the imports it stored, serves the rest from the cache, scans  *)
(* what is left and stores hash, imports and findings of every result, in  *)
(* three commits a file.  Between runs, and where Hazards allows it during *)
(* one, the user edits.  What a scan takes from other files are the        *)
(* module-level taints of the run's GlobalGraph, which starts empty, and   *)
(* function summaries, which it keeps in .guardmarly/cache.db (SummaryGraph *)
(* has them; here its commits succeed).                                    *)
(***************************************************************************)
EXTENDS Naturals

CONSTANTS
    Files,       \* the files of the scanned tree
    Texts,       \* those no analyser reads, which --entropy adds to the scan
    Contents,    \* the texts a file may have; a SHA-256 names one of them
    Imports,     \* the files a text imports
    Defining,    \* the texts that define the function other files import
    Evident,     \* the texts whose findings carry structural evidence
    Hazards,     \* what may go wrong: a subset of {"crash", "edit", "fail", "delete"}
    Failed,      \* the result of a file that was not analysed (parse_error)
    None         \* no file, no hash, no findings

ASSUME FilesAssumption == Texts \subseteq Files
ASSUME ImportsAssumption == Imports \in [Contents -> SUBSET Files]
ASSUME NoneAssumption == None \notin Contents \cup Files /\ Failed # None
ASSUME HazardsAssumption == Hazards \subseteq {"crash", "edit", "fail", "delete"}

VARIABLES
    disk,        \* the text of each file on disk
    sums,        \* the text each file's persisted function summary is of
    hash,        \* bucket file_hashes
    imps,        \* bucket file_imports
    found,       \* bucket file_findings
    phase,       \* where the run is, "rest" between runs
    candidates,  \* candidate_scan_files, forgotten once the cache is served
    direct,      \* direct_changed, forgotten with them
    toScan,      \* files left to scan
    indexed,     \* the texts pass 1 put in the run's GlobalGraph
    results,     \* the run's results
    toStore,     \* results the update loop has not stored
    cur          \* the file whose hash is committed and whose findings are not

store == <<hash, imps, found>>
run == <<candidates, direct, toScan, indexed, results, toStore, cur>>
vars == <<disk, store, sums, phase, run>>

(* The findings of a scan, by all that determines them: the text scanned,  *)
(* the text of each import the graph held, the text each import's function *)
(* summary was of, and the structural evidence (analysis_kind, trace) that *)
(* keeps them from being demoted.                                          *)
Entry == [text : Contents, view : [Files -> Contents \cup {None}],
          helpers : [Files -> Contents \cup {None}], evidence : BOOLEAN]

ASSUME EntryAssumption == None \notin Entry

(* The type invariant.                                                     *)
TypeOK ==
    /\ disk \in [Files -> Contents \cup {None}]
    /\ {hash, sums} \subseteq [Files -> Contents \cup {None}]
    /\ imps \in [Files -> SUBSET Files]
    /\ found \in [Files -> Entry \cup {None}]
    /\ phase \in {"rest", "serve", "index", "scan", "hash", "imports", "findings"}
    /\ {candidates, direct, toScan, toStore} \subseteq SUBSET Files
    /\ indexed \in [Files -> Contents \cup {None}]
    /\ results \in [Files -> Entry \cup {None, Failed}]
    /\ cur \in Files \cup {None}

NoResults == [f \in Files |-> None]

Reset ==
    /\ candidates' = {} /\ direct' = {} /\ toScan' = {} /\ toStore' = {}
    /\ indexed' = NoResults /\ results' = NoResults /\ cur' = None

Init ==
    /\ disk \in [Files -> Contents]
    /\ hash = NoResults /\ found = NoResults /\ sums = NoResults
    /\ imps = [f \in Files |-> {}]
    /\ phase = "rest"
    /\ candidates = {} /\ direct = {} /\ toScan = {} /\ toStore = {}
    /\ indexed = NoResults /\ results = NoResults /\ cur = None

-----------------------------------------------------------------------------
(* The user.                                                               *)

Edit(f, c) ==
    /\ phase = "rest" \/ "edit" \in Hazards
    /\ disk[f] # c
    /\ disk' = [disk EXCEPT ![f] = c]
    /\ UNCHANGED <<store, sums, phase, run>>

Delete(f) ==
    /\ "delete" \in Hazards /\ phase = "rest"
    /\ disk[f] # None
    /\ disk' = [disk EXCEPT ![f] = None]
    /\ UNCHANGED <<store, sums, phase, run>>

(* Mutant of Recorded: a row that is there already is kept.                *)
RecordedOnce(S) ==
    [f \in Files |-> IF f \in S \ Texts /\ disk[f] \in Defining /\ sums[f] = None
                     THEN disk[f] ELSE sums[f]]

(* Both passes record the function summaries of the files S and commit     *)
(* them.  Recording replaces the row of a function a file has and removes  *)
(* none: invalidate_changed_files finds an empty graph and drops nothing.  *)
Recorded(S) ==
    [f \in Files |-> IF f \in S \ Texts /\ disk[f] \in Defining THEN disk[f] ELSE sums[f]]

(* The process ends in the middle of a run; commits stay.                  *)
Crash ==
    /\ "crash" \in Hazards /\ phase # "rest"
    /\ \E S \in SUBSET (IF phase \in {"index", "scan"} THEN toScan ELSE {}) :
          sums' = Recorded(S)
    /\ phase' = "rest"
    /\ Reset
    /\ UNCHANGED <<disk, store>>

-----------------------------------------------------------------------------
(* A run.                                                                  *)

(* Mutant of FileChanged: a file is new or known, its text is not compared. *)
FileNew(f) == disk[f] = None \/ hash[f] = None

(* file_changed: an unreadable file counts as changed.                     *)
FileChanged(f) == disk[f] = None \/ hash[f] # disk[f]

Detect ==
    /\ phase = "rest"
    /\ \E f \in Files : disk[f] # None
    /\ candidates' = {f \in Files : disk[f] # None}
    /\ direct' = {f \in candidates' : FileChanged(f)}
    /\ phase' = "serve"
    /\ UNCHANGED <<disk, store, sums, toScan, indexed, results, toStore, cur>>

(* affected_files: the least set that holds the changed files and every    *)
(* candidate whose stored imports meet it (AffectedFiles has the loop).    *)
Importing(S, C) == \A f \in C : imps[f] \cap S # {} => f \in S

(* Mutant of Affected: the importers of a changed file are not followed.   *)
AffectedDirectly(D, C) == D

Affected(D, C) ==
    {f \in C : \A S \in SUBSET C : (D \subseteq S /\ Importing(S, C)) => f \in S}

(* Re-hydration keeps what the finding says and drops its evidence.        *)
Rehydrated(e) == [e EXCEPT !.evidence = FALSE]

(* Served: not affected, unchanged still, and with findings in the cache.  *)
(* A run with no file left for an analyser neither scans nor stores: the   *)
(* guard "if files:" covers the text files too.                            *)
Serve ==
    LET affected == Affected(direct, candidates)
        served == {f \in candidates \ affected : ~FileChanged(f) /\ found[f] # None}
    IN  /\ phase = "serve"
        /\ toScan' = IF candidates \ served \subseteq Texts THEN {} ELSE candidates \ served
        /\ IF toScan' = {}
             THEN /\ phase' = "rest"
                  /\ UNCHANGED <<results, toStore>>
             ELSE /\ phase' = "index"
                  /\ results' = [f \in Files |->
                        IF f \in served THEN Rehydrated(found[f]) ELSE None]
                  /\ toStore' = served
        /\ candidates' = {} /\ direct' = {}
        /\ UNCHANGED <<disk, store, sums, indexed, cur>>

(* Pass 1 puts the files to scan, and no others, in a fresh GlobalGraph,   *)
(* which saves their function summaries with those of earlier runs.        *)
Index ==
    /\ phase = "index"
    /\ sums' = Recorded(toScan)
    /\ indexed' = [f \in Files |-> IF f \in toScan \ Texts THEN disk[f] ELSE None]
    /\ phase' = "scan"
    /\ UNCHANGED <<disk, store, candidates, direct, toScan, results, toStore, cur>>

ImportsOf(f) == IF f \in Texts \/ disk[f] = None THEN {} ELSE Imports[disk[f]]

(* A module-level taint is that of the graph.  A function of an import is  *)
(* looked up in memory and then in its row, whichever run left it there,   *)
(* and whether or not the import still has the function.                   *)
Analysis(f, graph, rows) ==
    [text |-> disk[f],
     view |-> [g \in Files |-> IF g \in ImportsOf(f) THEN graph[g] ELSE None],
     helpers |-> [g \in Files |-> IF g \in ImportsOf(f) THEN rows[g] ELSE None],
     evidence |-> disk[f] \in Evident]

Scanned(f) ==
    /\ phase = "scan" /\ f \in toScan
    /\ toScan' = toScan \ {f}
    /\ phase' = IF toScan' = {} THEN "hash" ELSE "scan"
    /\ UNCHANGED <<disk, store, candidates, direct, indexed, cur>>

(* Pass 2, in any order, as the parallel scan has it.                      *)
Scan(f) ==
    /\ Scanned(f)
    /\ disk[f] # None
    /\ sums' = Recorded({f})
    /\ results' = [results EXCEPT ![f] = Analysis(f, indexed, sums')]
    /\ toStore' = toStore \cup {f}

(* Mutant of ScanFailed: a result with a parse_error is stored like others. *)
ScanFailedStored(f) ==
    /\ Scanned(f)
    /\ disk[f] = None \/ "fail" \in Hazards
    /\ sums' \in {sums, Recorded({f})}
    /\ results' = [results EXCEPT ![f] = Failed]
    /\ toStore' = toStore \cup {f}

(* A file that cannot be read or times out has a parse_error and is not    *)
(* stored; whether its summaries are depends on how far it came.           *)
ScanFailed(f) ==
    /\ Scanned(f)
    /\ disk[f] = None \/ "fail" \in Hazards
    /\ sums' \in {sums, Recorded({f})}
    /\ results' = [results EXCEPT ![f] = Failed]
    /\ UNCHANGED toStore

(* update_hash hashes the file as it is now.                               *)
StoreHash(f) ==
    /\ phase = "hash" /\ f \in toStore
    /\ hash' = IF disk[f] = None THEN hash ELSE [hash EXCEPT ![f] = disk[f]]
    /\ cur' = f
    /\ phase' = "imports"
    /\ UNCHANGED <<disk, sums, imps, found, candidates, direct, toScan, indexed, results, toStore>>

StoreImports ==
    /\ phase = "imports"
    /\ imps' = [imps EXCEPT ![cur] = ImportsOf(cur)]
    /\ phase' = "findings"
    /\ UNCHANGED <<disk, sums, hash, found, run>>

(* Mutant of StoreFindings: results without evidence are not worth a row.  *)
StoreEvident ==
    /\ phase = "findings"
    /\ found' = IF results[cur].evidence THEN [found EXCEPT ![cur] = results[cur]] ELSE found
    /\ toStore' = toStore \ {cur}
    /\ cur' = None
    /\ phase' = "hash"
    /\ UNCHANGED <<disk, sums, hash, imps, candidates, direct, toScan, indexed, results>>

StoreFindings ==
    /\ phase = "findings"
    /\ found' = [found EXCEPT ![cur] = results[cur]]
    /\ toStore' = toStore \ {cur}
    /\ cur' = None
    /\ phase' = "hash"
    /\ UNCHANGED <<disk, sums, hash, imps, candidates, direct, toScan, indexed, results>>

Finish ==
    /\ phase = "hash" /\ toStore = {}
    /\ phase' = "rest"
    /\ Reset
    /\ UNCHANGED <<disk, store, sums>>

-----------------------------------------------------------------------------
User == \E f \in Files : Delete(f) \/ \E c \in Contents : Edit(f, c)

Run ==
    \/ Detect \/ Serve \/ Index
    \/ \E f \in Files : Scan(f) \/ ScanFailed(f) \/ StoreHash(f)
    \/ StoreImports \/ StoreFindings \/ Finish

Next == User \/ Crash \/ Run

Spec == Init /\ [][Next]_vars

(* The user runs the scan again and again and lets it go on.               *)
FairSpec == Spec /\ WF_vars(Run)

-----------------------------------------------------------------------------
(* Properties.                                                             *)

(* The files the next run serves from the cache, were it to start now.     *)
Servable ==
    LET C == {f \in Files : disk[f] # None}
    IN  {f \in C \ Affected({g \in C : FileChanged(g)}, C) : found[f] # None}

(* "If the file hasn't changed, the cached findings list is returned       *)
(* instead of re-running the analyser" (cache/incremental.py:8): what the  *)
(* next run serves are findings of the text the file has.                  *)
OwnTextCurrent ==
    phase = "rest" => \A f \in Servable : found[f].text = disk[f]

(* "Return all files that should be rescanned because they directly        *)
(* changed or import a changed file (transitively)"                        *)
(* (cache/incremental.py:212): no findings are served that were computed   *)
(* from a module-level taint of a text an imported file no longer has, or  *)
(* from another summary than the present one of a function it defines.     *)
ImportsCurrent ==
    phase = "rest" => \A f \in Servable, g \in Files :
        /\ found[f].view[g] \in {None, disk[g]}
        /\ g \in ImportsOf(f) \ Texts /\ disk[g] \in Defining
               => found[f].helpers[g] = disk[g]

(* The same quotation taken at its word, functions that an import no       *)
(* longer defines included: their rows outlive them.                       *)
HelpersCurrent ==
    phase = "rest" => \A f \in Servable, g \in Files :
        found[f].helpers[g] \in {None, disk[g]}

(* The run implements the cache it promises to be: its rows are the memo,  *)
(* and between runs the memo serves what the next run would.               *)
Cache == INSTANCE ScanCache WITH
    text <- disk, memo <- found, served <- IF phase = "rest" THEN Servable ELSE {}

(* Over a whole history of runs a row of findings only ever changes to the *)
(* findings of the texts as they are, and nothing is served from rows the  *)
(* texts no longer bear out (cache/incremental.py:8, 212).                 *)
ImplementsCache == Cache!Spec

(* A served file has the findings a scan of the whole tree gives it, as    *)
(* far as they come from the module-level taints of its imports.           *)
AsFullScan ==
    phase = "rest" => \A f \in Servable : found[f].view = Analysis(f, disk, sums).view

(* The report says of a file served from the cache what it said of it when *)
(* it was scanned: no result has lost the evidence of its findings.        *)
EvidenceKept ==
    \A f \in Files : results[f] \notin {None, Failed} =>
        results[f].evidence = (results[f].text \in Evident)

(* A step of a run whose analyses succeed.                                 *)
Undisturbed == Run /\ \A f \in Files : ~ScanFailed(f)

(* Whatever crashed, failed or was edited before, once that stops every    *)
(* file ends up served from the cache: no state of the store is one that   *)
(* repeated runs cannot leave.                                             *)
EverythingServed ==
    <>[][Undisturbed]_vars => <>[](phase = "rest" => Servable = {f \in Files : disk[f] # None})
=============================================================================
