# Guardmarly in TLA+

Guardmarly (the package `src/src/guardmarly`) is a static security analyser: a
command line that scans a tree of files with one analyser per language, a Python
API, a language server, and the stores they share: result caches, function
summaries, baselines, licences. Its analysers are large and mostly sequential
pattern matching over one file. What is hard to get right lies around them, in
the state that outlives one analysis, in the threads that run the analyses and in
the algorithms that join their results. These modules are about that part.

Paths below are relative to `src/src/guardmarly/`, except where they begin with
`src/`.

## 1. Inventory

| Component | Source | State it keeps | Operations | Hard behaviour | What makes it correct | Here |
| --- | --- | --- | --- | --- | --- | --- |
| Language server | `lsp_server.py` | open documents, findings cache, one debounce timer, shutdown flag | didOpen, didChange, didSave, hover, codeAction, shutdown, exit; timer threads | timers race the main thread; `cancel()` cannot stop a running analysis; cache and diagnostics are two writes | the pending analysis is the last edit's; nothing starts after shutdown; the client is answered | `LspServer` |
| Incremental scan | `cache/incremental.py`, `cli.py:2900-3098` | per file a hash, its imports, its findings | detect changes, close over imports, serve, scan, store | three commits a file, a crash between them, edits during a run, files that fail or vanish | what is served is what a scan of the present texts would find | `IncrementalScan`, `AffectedFiles` |
| Function summaries | `ir/global_graph.py` | summaries, index of callers, known-missing names, SQLite rows | record, look up and load, propagate, save, invalidate | index out of step with the summaries, rows of an older process, a locked database part way | an invalidation drops everyone who depends on a changed text | `SummaryGraph` |
| IFDS solver | `v2/ifds.py` | worklist, facts per node and context, flow functions | register, seed, solve | termination on recursion, order of the worklist, contexts cut at a depth, returns | the result is the least fixed point and mixes no two calls | `IFDSSolver` |
| Scan workers and timeouts | `engine/async_scanner.py`, `cli.py:1950-2180` | a semaphore, a daemon and a one-place queue per file | start, get with a timeout, fallback in chunks, collect, report | late answers, daemons that outlive their timeout, a fallback without one | no slot and no file is lost; a partial result is not taken for a whole one | `ScanWorkers` |
| Guarded fix, baseline | `cli.py:1057-1215, 1525, 3358-3380, 3498-3558` | the files, their saved texts, the accepted findings | apply, rescan, revert; filter, update | files that cannot be read, decoded or written, kills between two files, two scans that differ, overlapping runs | files end either fixed with nothing new or as they were | `GuardedFix` |
| Python analysis, shared state | `python_analyzer.py:1095-1157, 7559-7860` | two memoization caches, `ast.walk` | index, look up, patch, restore, clear | caches of one file read by another, threads that clear and patch under each other, rules that raise | an analysis depends on its own file only | `PyDetect` |
| Python taint rule | `python_analyzer.py:1559-1660, 1838-2022, 2933-3298` | tainted variables of a function, summaries of its helpers | assign, augment, call, sink | the order of `ast.walk`, a bounded number of passes, sanitizers and guards | a finding has a flow; a flow that nothing hides has a finding | `PyTaint` |
| Python API, configuration | `__init__.py:218-360`, `config.py:261-345` | the tables of sources, sinks and sanitizers | add, analyse, take out | calls in threads, exceptions half way, a timeout that waits | a call sees its own configuration and leaves no trace | `PythonApi` |
| Watch mode | `cli.py:2335-2397` | times of the last change, one graph | poll, rescan | a graph that is never invalidated | it promises nothing of the summaries | not modelled |
| Result cache | `cache/sqlite_store.py` | buckets of rows, an optional compression | get, set, evict | several processes on one file | a row is read as written | taken as atomic rows |
| Graph store | `graph/sqlite_graph.py` | nodes and edges, batched inserts | insert, flush, query | queries between batches | used by no scan | not modelled |
| Interprocedural fixpoint | `ir/interprocedural_fixpoint.py` | facts per function | propagate for a bounded number of rounds | | nothing in the package calls it | not modelled |
| Client taint analyses | `v2/interprocedural_taint.py`, `v2/v2_java_bridge.py` | none beyond one analysis | build nodes and edges for the solver | what they register decides what the solver can find | | a client of `IFDSSolver` |
| Other rules and analysers, CPG | `python_analyzer.py`, `js_engine/`, `java_analyzer.py`, ... | one syntax tree | pattern matching, taint | size | findings per rule | not modelled |
| Confidence, triage | `engine/confidence.py`, ... | none | score, demote, drop | depends on evidence a cache may drop | | its effect is in `IncrementalScan` |
| Reporters, configuration, licences, Rust core, web app | | files | load, print | | | not modelled |

`PROJECT.json` lists them all with the reason for what is left out, and every
hazard found with the line where it bites.

### How they interact

A scan from the command line detects changed files (incremental scan), invalidates
their summaries, indexes the files to scan in a `GlobalGraph` (pass 1), analyses them
one after another or over the scan workers (pass 2), where every analyser records
summaries in the same graph and looks up those of the functions it calls, then
demotes and filters findings, stores what it scanned, applies the baseline, may fix
files and scan them again, and prints. The language server, watch mode and the Python
API call the same analysers with graphs of their own. The shared state is thus: the
SQLite file `.guardmarly/cache.db` (between processes), the `GlobalGraph`, the tables
of sources, sinks and sanitizers, the memoization caches and `ast.walk` itself
(between the threads of one process, without a lock), and the source files
(between runs of Guardmarly and its user).

## 2. Modules

The modules are parameterised by CONSTANTS with named assumptions, have one action
per operation and no recursive operator, so that each can be both checked and proved
about. `X` is the model, `MCX` gives its constants values for TLC (a module that needs
none, `AffectedFiles` and `ScanWorkers`, is instantiated by its configuration alone),
`XProofs` holds the theorems; those of `IFDSSolver` and `AffectedFiles` are in `FixedPointProofs`, and those
of `PyDetect` and `PyTaint` in `PythonAnalyserProofs`, for which the names of `AffectedFiles`' and `PyTaint`'s
specifications begin with `Loop` and `Taint`. Operators commented "Mutant of ..." are not
part of the specification: each is the definition named with a plausible mistake
in it, and stands before the one it replaces, to show that the properties
would notice.

**LspServer** - `lsp_server.py`. `docs`, `cache`, `timer`, `shutdown` are the fields
`_docs`, `_findings_cache`, `_debouncer._timer`, `_shutdown`; `published` is what the
client was last sent; `job[t]` is the call of `_analyze_and_publish` thread `t` is to run
or is running; `overlapped` is history: the documents of which two texts were analysed at
one time. A message handler is one action (`DidOpen`, `DidChange`, `DidSave`,
`Shutdown`, `Exit`), because the main thread takes one message at a time and a
handler's shared writes are those of the debouncer, under its lock. The
analysis is split where other threads can come between: the timer fires (`Fire`), the
analyser ends and the cache is written (`Analyse`), the diagnostics are sent
(`Publish`). A text is a value; whether the analyser raises on it is `Analysable`.
`BadFrame` is a body that `read_message` takes for the end of the input. Hover
and codeAction only read, initialize keeps nothing: they are left out. A client that obeys
the protocol is assumed: it changes and saves only what it has opened.

**IncrementalScan** - whole runs of `--incremental-sha256`. The state on disk is `disk`
(the tree) and the three buckets `hash`, `imps`, `found`; that of a run is what `main()`
keeps in locals. The actions are the run's phases in order: `Detect`
(`file_changed` for every candidate), `Serve` (the closure `affected_files`, then
re-hydration), `Index` (pass 1), `Scan` or `ScanFailed` per file (pass 2), and for each
result `StoreHash`, `StoreImports`, `StoreFindings`, the three commits. Findings are represented by all
that determines them: the text scanned, the texts of the imports whose module-level taints
the graph had (`view`), the texts the function summaries of the imports were of (`helpers`), and
whether the structural evidence is still there. `sums` stands for the summaries' rows in
`.guardmarly/cache.db`: both passes record what a file defines (`Recorded`), nothing takes away
the row of a function the file no longer has, because `invalidate_changed_files` is called on an empty
graph, and a lookup loads whatever row there is. `Defining` are the texts with such a function. Commits
of these rows are taken to succeed. The user edits between runs;
`Hazards` adds edits between any two steps of a run (`Edit`), crashes there (`Crash`), analyses
that fail, and files deleted between runs (`Delete`).

**ScanCache** - the abstract specification of that cache: a memo table that learns one
entry at a time, from the texts as they are, and never serves an entry that the texts no
longer bear out: by their module-level taints, and by the summaries of functions that are
still defined. `IncrementalScan` implements it (`ImplementsCache`) with `disk` for the
texts, `found` for the table and `Servable` between runs for what is served.

**AffectedFiles** - the loop of `affected_files` that `IncrementalScan` takes for one step:
passes over the candidates in any order until one adds nothing. `NothingMissed` and
`NothingExtra` together say that it computes the set `Affected` of `IncrementalScan`.

**SummaryGraph** - `ir/global_graph.py`. `mem`, `rev`, `missing` are `function_summaries`,
`reverse_summary_dependencies`, `_missing_summary_keys`; `sumRow` and `depRow` the rows
of the two buckets. `Record` is `record_function_summary`; `PropagateInMemory`,
`PropagateLoading` and `LookupFails` the three courses of `propagate_call_facts` with
its lookup, `load_summary` and `record_call_dependency`; `Save` `save_summaries`, which
a locked database may cut after any row; `Invalidate` and `InvalidateFails`
`invalidate_changed_files`, whole and cut; `Restart` the end of a process. Functions are
normalised names; what a summary depends on, and what the index is keyed by, are `Labels`: those names, and
the names under the path as given that the analyser writes for calls within a file
(`python_analyzer.py:1677`), of which `Named` says whom they mean. An invalidation looks up
normalised names only; rows are keyed by the normalised name of either, so the last written wins (`SavedDep`).
`Similar` is the fuzzy match of paths by which a lookup may be
answered by a function of the same name elsewhere. `changed` and
`interrupted` are history: which files were edited since the graph was told, and
whether a process has ended or an invalidation was cut.

**IFDSSolver** - `v2/ifds.py`. `result` is `_result_facts` as triples, `worklist` a set (its order
and repetitions do not matter to any property), `edges` the registered flow functions.
`AddEdge`, `SetSeed`, `Solve` are the client's calls, `Process` one turn of the loop,
`Return` its end. Flow functions are arbitrary functions from a fact to a set of
facts. `BackToCall` is the code's treatment of exits as it is written, not as its comments
describe it.

**ScanWorkers** - pass 2 with `--parallel`. `task[f]` follows the coroutine `scan_one(f)` and
then the pool thread it waits for; `daemon[f]` is the thread started by
`_analyze_file_with_timeout`, `holder[f]` its queue of one. `Acquire`, `Collect`,
`CollectError` and `Report` are the event loop's; `Start`, `StartRaises`, `Get`, `Timeout` and
`FallbackEnds` the pool thread's; `Put` and `Die` the daemon's. After a timeout the
daemon goes on and may still put its answer. A result is represented by its `parse_error`:
none, an exception's, a timeout with the findings of some chunks, a timeout without.
`MaxWorkers` is the smaller of `max_workers` and the number of threads in asyncio's
pool, beyond which a slot is held without a thread; the semaphore's queue is served in
the order of the files.

**PyDetect** - what Python analyses of one process share. `cached` is the key set of
`_taint_source_cache` and `sourced` the keys that hold a source; `walk` is `ast.walk` and
`saved[f]` the `_orig_walk` of an analysis. `Index` is pass 1; `Begin`, `Patch`, `Restore` and
`Finish` are `_detect`, `RuleRaises` a rule that raises. `_get_taint_source` is split at the
one place where another thread matters: `Look` tests for the key, then `Hit` or `KeyLost`
reads it, or `Miss` computes and writes it. The caches know of a node no more than its position;
nodes that begin at one position, as the two calls of `input().strip()`, are told apart as
the outermost, which a walk meets first, and those in it. An analysis makes its function summaries
(`basis`) from its own lookups, unless it finds summaries that some process has persisted for the
same text (`loaded`, `Left`), made with whatever that process had cached. `_sink_name_cache` works alike and is left out.

**PyTaint** - the taint rule over one file. A program is a sequence of functions, a
function a sequence of statements with their nesting, an expression the sequence of
atoms `_find_tainted_expr_info` comes to: sources, variables, calls of the file's
functions, each sanitized for the sink's CWE or not. A source is `hidden` when a call around it
begins where it does: the memo of `_get_taint_source` has then the call's answer, none. `Summarise` and `Summarised` are
`_build_function_taint_summaries`, `Assign`, `AugAssign`, `Sink`, `Return` and `Walked` the loop of
`_rule_03`; `Visited` is the order of `ast.walk`. `FlowsTo` and `MayReturn` define what may
flow where by the text alone, as least closed sets, with no order. Of a summary only
the source is modelled, since arguments of a call taint its value in any case; graph
lookups, lambdas, comprehensions and the guards of single sinks are left out.

**GuardedFix** - runs of the command line that fix files. `text` is the set of findings whose
fix is in the files; a `Tree` says what a scan finds in each text: which fixes bring
findings, only together with other files or not, which break the file, and what
the first scan drops and the second does not. `Begin` is the scan with the baseline; the files of
`behind` time out in it, and have an error together with what their chunks show (`FirstScan`), which is then
fixed. A second scan may time out as well (`Rescan`).
`Apply` and `Undecodable` one file of `_apply_auto_fixes_with_backups`, `Applied`, `Rescan` and
`Decide` `_guarded_auto_fix`, `Restore` one file of `_restore_file_backups`, `Kill` the end of the
process at any point. `was`, `tried`, `slow`, `late`, `alone`, `last` are history.

**PythonApi** - `temporary_analyzer_config` around the analyses of `scan_file` and `scan_files`.
`taint` stands for `TAINT_SOURCES` and `TAINT_SINKS`, which are treated alike, `sanitizers` for
`SANITIZERS`; `previous` and `injected` are the locals of the context manager. Each read of a
table (`Get`) and each write (`PutTaint`, `PutSanitizer`, `GrowSanitizer`, `TakeOut`) is a step of its own.
`AddTwice` is the call of `add` on the `None` that marks an entry of one's own. `TimesOut`,
`ThreadEnds` and `ClassicEnds` are the fallback of JavaScript, whose executor is
waited for.

### Plan

The order followed what a user would notice first: the language server, the incremental
scan with its closure, the solver, the summaries, the workers; then the
refinement of `ScanCache`, the Python analyser with its shared state and its taint rule,
the fixes with the baseline, and the Python API. What would come next:

1. `ScanWorkers` composed with `SummaryGraph`, with the iteration of `get_function_summary`
   and the rebuilding of the index split, for the daemons left behind;
2. the parameter flags of the summaries and the IDE lattice of facts
   (`ir/global_graph.py:640-720`);
3. the taint walks of the Java and JavaScript analysers, after the pattern of `PyTaint`;
4. the stores taken as atomic so far.

## 3. Runs

| Run | Instance | What it shows |
| --- | --- | --- |
| `lsp_server` | 2 documents, 2 timer threads, 3 texts (one empty, one the analyser raises on) | one pending analysis, of the text its document has now; none after shutdown; hover and code actions use the findings of the diagnostics; a client that pauses is answered |
| `affected_closure` | all import graphs, changed sets, candidate sets and orders on 3 files | the loop ends with the least closed set |
| `incr_quiet` | 3 files, texts that import nothing, `b`, or `c`, two of which define the function that others import; edits between runs | what is served is of the text the file has, of the module-level taints its imports have and of the functions they still define: the abstract cache is implemented |
| `incr_hazards` | 2 files; crashes, edits during runs, failures, deletions | no failed result is stored; once that stops, repeated runs serve every file |
| `incr_loses_cross_file` | 2 files, edits between runs | *violated*: a served file has the findings a full scan gives it, as far as they come from module-level taints |
| `ifds_solver` | 2 functions, 3 call sites, direct and mutual recursion, contexts of depth 2, 2 facts, 3 seeds | `solve()` ends in the least fixed point; facts enter a function only over a call of their own context |
| `summary_graph` | 3 functions in 2 files, one that others may be mistaken for, one that a text may lose, a dependency under a path as given | the index knows every caller under the label it wrote; an invalidation leaves no dependent by a normalised name; memory is fresh in an uninterrupted process |
| `scan_workers` | 4 files, 2 slots, a file with a fallback that hangs, one with a fallback that ends, two without | no slot and no file is lost; a whole result is one; the files other than the hung one are answered |
| `py_detect` | 3 files over 2 positions, 2 threads; a source inside a call at the same position; summaries left by an earlier process; a file whose rules may raise | an analysis with an empty cache finds just the sources that are outermost in its own file; `ast.walk` is put back, and never circular; every analysis ends |
| `py_taint` | 27,212 files: a function of up to 3 statements and its helper, in both orders, sources hidden by a call, chains of up to 7 helpers | findings have a flow; plain functions, without hidden sources, are reported exactly; the summaries settle |
| `guarded_fix` | 2 processes, 2 runs, 2 files with 2 lines, 2 trees, 2 baselines; the first scan of one file, and any second scan, may time out | a revert restores; a verified run brought nothing new to files scanned in time; a revert has a reason |
| `python_api` | 3 calls, 6 configurations, one of them with a source named twice, one call that hangs | built-in names are kept; plain calls that do not overlap see their own tables and leave no trace, the others no more than a source they name twice; the others than the one that hangs end |

The type invariants that are proved (section 4) are not checked again by TLC, but for
that of `IncrementalScan`, which says that no failed analysis is stored, and those of
`GuardedFix` and `PythonApi`, whose types say how far a run or a call has come.

Fourteen more configurations are not among the runs: each shows the violation of a
statement of the code's comments or help texts (section 5). They stop at the
counterexample and are run by hand, as `tlc -config MCLspServerCancel.cfg MCLspServer.tla`.

### Bounds

- Two documents are the least with which one can cancel the other's analysis; two timer
  threads let an analysis run while a timer is pending, which, with the main thread's,
  is every overlap that differs in kind. No text or message counter is needed: the
  states are finite.
- Three files give an import chain, a cycle, and an edit in its middle; three texts suffice
  for it, two of them with a function, so that an import can change, gain or lose it. `incr_hazards` needs two: every hazard concerns one file and its importer;
  summaries have no part in what it checks, and no text defines a function.
- Two calls of one function with different contexts, and a recursive call, are what
  contexts are for; depth 2 is cut by the recursion at once. `NothingSpurious` has no bound of its
  own: it allows a fact as many steps from the seeds as there are facts in the result.
- Three functions give a dependency at a distance (an invalidation that goes two steps), in
  two files (a change that does not concern the other), with one name looked up as
  another; one label for the same function under another path.
- Two threads and three files let an analysis start with the leavings of one, overlap with
  another and outlive both; two positions tell a key that is shared from one that is not, and of the nodes at one
  only the outermost ever matters. Only one file may find summaries left behind: what it uses of them concerns no other.
- Three statements give an assignment before, between and after another and a sink, at two
  depths; six helpers are two more than the passes reach.
- Two runs overlap, or follow each other with the first one killed anywhere; two files
  let one be fixed, broken or restored while the other is not. One file whose first scan may time out
  gives a run of both kinds; the processes are interchangeable, which halves the states.
- Three calls overlap pairwise and leave in every order, also around one that hangs.
- Four files with two slots leave two waiting, so that a lost slot starves somebody; one stuck
  fallback leaves one slot.

### Fairness

- `LspServer`: an armed timer expires, a running analysis ends and its message is sent; these
  are threads no one else blocks. The client owes nothing, and shutdown or EOF may come
  at any time.
- `IncrementalScan`: the user runs the scan again and again and each run goes on (`WF(Run)`).
  `EverythingServed` supposes in its statement that from some time on every step is one of a
  run whose analyses succeed.
- `AffectedFiles`, `IFDSSolver`: sequential code that is not suspended.
- `ScanWorkers`: the event loop and the pool's threads run, per file; a `get` ends, at its timeout if
  not before. Nothing is assumed of the daemons: an analysis may never end. Of the
  fallbacks, those outside `StuckChunks` end.
- `PyDetect`: the threads run and pass 1 does. A rule may raise where it is allowed to, none has to.
- `PythonApi`: a thread runs on (`WF(Step)`); no call need be made, and the analyses of `Hangs`
  never end.
- `GuardedFix`, `PyTaint` and `SummaryGraph` have safety properties only.

Deadlock is not checked where the system may stop: the server after exit; the closure, the
parallel scan, the analyses, the fixing runs and the API's calls when they are done. It is checked in the other runs.

## 4. Theorems

All are proved for every value of the constants that meets the module's assumptions, by
an inductive invariant `IInv` with the three facts `Init => IInv`,
`IInv /\ [Next]_vars => IInv'` and `IInv => Inv`.

- **LspServerProofs**: `TypeCorrect`, `SinglePendingHolds`, `PendingIsCurrentHolds`,
  `ShutdownQuiescesHolds`, `CacheMatchesAloneHolds`. The first three support each other: an armed timer's text is that of its
  document only because an edit cancels *the* armed timer, so single pending is needed;
  the invariant adds that an armed timer's call is for a document the client opened. For the cache it says
  where the two writes of an analysis stand: of a document with no overlap, what is cached is
  what was published or what the one analysis in flight is about to publish.
- **IncrementalScanProofs**: `OwnTextCurrentHolds` and `TypeCorrect`, under `Calm` (no crash and no
  edit during a run; files may fail and be deleted). The invariant says that a row of findings and a hash
  of the same file are of one text except between their two commits, and that the results of a run are of the texts
  on disk; both fail with a crash or an edit between the analysis and `update_hash`.
  With no hazard at all (`Quiet`) `ImportsCurrentHolds` and `ImplementsCacheHolds`: a row is right for the hashes
  stored, or for the disk when its file is being scanned, and no file is outside the two when the last
  commit is made; the closure `Affected` gives what a changed import leaves unserved. For the summaries `SumsRight` adds that
  from pass 1 on the row of every file to be scanned that defines its function is of the text it has, so that a
  scan uses no older one; of a function no longer defined nothing is claimed.
  `LoopComputesAffected` justifies that a run takes the loop of `affected_files`, in which `imps` is what
  `get_imports` reads, for one step: a loop that has ended with nothing missed and nothing extra has `Affected`.
- **FixedPointProofs**, of `IFDSSolver`: `TypeCorrect`, `FixedPointHolds`, `OwnCallOnlyHolds`, and `LeastHolds`: what
  is in the result is in every set that holds the seeds and is closed under propagation.
  `Pending`, the worklist's invariant, says that each fact whose consequences are not all in the
  result is of a key still on the worklist. With the two theorems a returned result *is* the
  least fixed point, whatever the order of the worklist; the graph and the set of facts may be infinite.
  For finitely many facts `NothingSpuriousHolds` bounds the paths: the invariant `PathInv` says that
  the result is within as many steps of the seeds as it has facts, because a turn of the loop that adds one step adds a
  fact, and a seed that comes later brings nothing further away.
- **FixedPointProofs**, of `AffectedFiles`: `NothingMissedHolds`, `NothingExtraHolds`. `Settled`
  is the loop's invariant: a candidate that a pass has visited and left out is closed off, or the pass has
  asked for another one.
- **SummaryGraphProofs**: `TypeCorrect`, `CallersKnownHolds`, `FreshUninterruptedHolds`,
  `SurvivorsUnaffectedHolds`. `CallersKnown` is inductive with the types, label by label; that an invalidation then
  reaches the dependents is proved of dependencies by normalised names alone. The freshness needs `RowsInMemory`: in
  an uninterrupted process a row is of a function in memory, so that an invalidation, which starts from
  memory, reaches all rows. That this ends with the process is what
  `MCSummaryGraphStale.cfg` shows.
- **ScanWorkersProofs**: `TypeCorrect`, `SlotsKeptHolds`, `ReportCompleteHolds`, `WholeIsWholeHolds`, for any
  number of files and slots. `FileInv` ties, per file, the task to its daemon, queue and
  answer; the slots are counted with the cardinality lemmas.
- **PythonAnalyserProofs**, of `PyDetect`: `TypeCorrect`, `WalkEndsHolds`, `NoKeyLostAloneHolds`,
  `WalkRestoredAloneHolds`, `OwnSourcesWhenFreshHolds`, for any number of files, positions and threads. `NoCircle`
  needs no condition: what an analysis saves is a walk installed before its own, and its own is saved by none
  before it is installed, so no set of analyses can have saved only each other's. The others follow one
  analysis at a time (`Solo`): what it has cached is what the outermost of its own nodes say.
- **PythonAnalyserProofs**, of `PyTaint`: `TaintTypeCorrect`, `FindingsHaveFlowHolds`,
  `SettledWhenCalleesFirstHolds`, `ExactWhenPlainHolds`, for any set of programs and any number of passes above
  one: with a single pass `changed` says that the summaries may not be settled, whatever the order.
  `TaintInv` says that a tainted variable is in every set of cells closed under the file's assignments, and an
  unsanitized one in every such set of its function: nothing too much. `Plain` excludes sources hidden by a call
  around them, of which the converse is false. For that converse `PlainInv` adds that what
  the walk has passed it need not pass again. `Ordered`: every statement behind comes sooner in `ast.walk`'s order than
  those to come; as a plain function assigns before it uses, and no deeper, no visit changes what is
  behind (`SameBehind`). `Followed`: the table is thus closed under the statements behind. `Settling`: a
  function whose summary counts on the others' as they are *has a local solution*, and when all have one the solutions
  together are closed (`LocalsClose`), so that they hold all of `MayReturn`. The passes need no induction over the chain of
  calls: with callees first, the solutions of the functions walked survive each later walk.
- **GuardedFixProofs**: `TypeCorrect`, `RevertedAsBeforeHolds`, `VerifiedNothingNewHolds`, `RevertHasReasonHolds`, for any
  processes, files, findings, trees and number of runs. A run that is alone stays so until the next
  begins (`OthersIdle`): only its own steps change files. `Backed` says, file by file, where the text from before the run is:
  among the backups of the files written and not yet restored, on disk for the others; `Rescanned`, that the texts
  scanned again are those fixed, with nothing new in the files compared so far (`Clear`, which says nothing of the findings of a file
  both scans gave up); `Reasoned`, that a run that restores has seen a regression against its *first* scan, if all scans
  ended in time.
- **PythonApiProofs**: `TypeCorrect`, `BuiltinsKeptHolds`, `RestoredAloneHolds`, `OwnTablesAloneHolds`, for any
  configurations and number of calls. That no built-in is lost needs no condition: what a call keeps of
  an entry is what it read, and it takes out only entries that it read as absent, which a built-in one never is. The
  other two rest on `Alone`: of calls that do not overlap at most one has added something, and what it has kept, of the entries
  added so far and not yet taken out, undoes it; that fails for a source named twice, which `Plain` excludes and
  `RestoredAlone` allows for by name. Two things came out of the proof. The names of sources and
  sinks and those of sanitizers must differ (`TablesAssumption`), as `undo` holds both. And `OwnTablesAlone` was false as it
  had stood: a sanitizer configured for no CWE at all does enter the table, with an empty set, which the
  run's configurations had not shown; it now says so.

Assumed of the constants, beyond their types: `MaxDepth > 0` and `MaxWorkers > 0`, as the code's defaults; one entry
node per function; `Passes > 1`; that names in the tables differ as just said, and that a configuration names a
sanitizer once in `custom_sanitizers`, a dictionary (`GivenAssumption`); that a normalised name means itself (`LabelsAssumption`); that
at each position of a file one node is the outermost, and pass 1 looks up at least the positions the summaries are made
from (`NodesAssumption`), of which a persisted summary has some (`LeftAssumption`); and finitely many files
in `PyDetect` and facts in `NothingSpuriousHolds`.

Only model-checked is liveness (`AnsweredWhenAlone`, `EverythingServed`, `OthersAnswered`, `LoopEnds`, `Terminates`,
`EveryAnalysisEnds`, `OthersEnd`), which is out of the prover's reach; and, of the hazards' run, nothing else. `Within` of
the solver is defined by recursion over the number of steps: that its definition has a solution is itself proved
(`Iterated`, `WithinStages`), by the least number for which it had none.

## 5. Where code and documentation differ

One is a run that TLC violates, listed under `findings`:

- `cli.py:3035` (`incr_loses_cross_file`): pass 1 indexes only the files to scan, so the rescan of an
  importer loses what it had found through an unchanged import, for good.

The others have a configuration that TLC violates:

- `MCLspServerCancel.cfg`, `CancelsOwnOnly`: one debouncer serves all documents (`lsp_server.py:155`), so
  opening a second one drops the first one's analysis; the docstring at 252 speaks of
  "any pending analysis for this URI".
- `MCLspServerCache.cfg`, `CacheMatchesPublished`: an analysis that raises publishes an empty list and keeps
  the older findings in the cache that hover reads (239-249).
- `MCLspServerFrame.cfg`, `EndsOnEofOrExit`: a body that is not JSON ends the server (413), which
  "blocks until EOF or exit" (410).
- `MCIncrementalScanEvidence.cfg`, `EvidenceKept`: re-hydration drops `analysis_kind` and `trace`
  (`cli.py:2940`); `engine/confidence.py` then demotes and drops findings the first report had.
- `MCIncrementalScanRemoved.cfg`, `HelpersCurrent`: an import loses a function, its importer is rescanned, and loads
  the function's summary from the row an earlier run left: `invalidate_changed_files` is called on a new, empty graph
  (`cli.py:2972`) and drops none, against "rescanned because they directly changed or import a changed file"
  (`cache/incremental.py:212`), whose point it is that the findings are of the new text.
- `MCIFDSSolverReturn.cfg`, `ReturnsToCallSite`: a function id is looked up among pairs (`v2/ifds.py:296`), and
  nothing returns from a callee; `v2/v2_java_bridge.py:306-321` adds edges around it.
- `MCSummaryGraphStale.cfg`, `FreshAfterInvalidation`: a new process invalidates an empty memory and leaves all
  rows (`ir/global_graph.py:590`), against "impacted by changed files and dependent callers" (582).
- `MCSummaryGraphLabels.cfg`, `DependentsReached`: the analyser writes dependencies within a file under the path as given
  (`python_analyzer.py:1677`), `record_function_summary` indexes them so (`ir/global_graph.py:508`), and an invalidation
  that drops the callee through a third file looks under its normalised name (600): the caller stays, against
  "dependent callers" (582).
- `MCPyDetectStale.cfg`, `AsAlone`: "Clear memoization caches at the end of each file scan"
  (`python_analyzer.py:1103`) is not done for a file without findings (7680) nor by pass 1, and the next file
  takes what is cached at a position for its own: a scan of two files misses a finding that a scan of the
  second alone has.
- `MCPyTaintMemo.cfg`, `ExactWhenSimple`: `_get_taint_source` remembers by line, column and kind of node
  (`python_analyzer.py:1114`), which the two calls of `input().strip()` share, and the outer one is asked first: no source, and
  a flow from one is not reported, though the comment (1112) speaks of the "collisions" this key was to end.
- `MCGuardedFixSlow.cfg`, `VerifiedNoneBroken`: a file whose first scan timed out has an error and, from the fallback, findings
  that are fixed; when its fix breaks it, the later error is none "introduced" (`cli.py:1183`), and the run says "verified",
  against "automatically revert if new issues or parse regressions are introduced" (1721).
- `MCGuardedFixBaseline.cfg`, `AcceptedStay`: `--baseline-update` keeps a shallow copy of results that
  `_apply_baseline` then filters in place (`cli.py:3367`), so the baseline written lacks what it had accepted;
  the help says "Incorporates current findings into the accepted baseline." (1880).
- `MCPythonApiTwice.cfg`, `NothingOutlives`: a source that `custom_sources` names twice, which `load_config` does not
  merge (`config.py:386`), finds its own entry the second time and keeps that as the one to restore (278): it stays in
  the table, although the `finally` block of `temporary_analyzer_config` (328-338) is there to put it right.
- `MCPythonApiHang.cfg`, `HangFallsBack`: "Fall back to classic backend if structural analysis hangs"
  (`__init__.py:252`), but the end of the `with` statement waits for the thread that hangs.

Met on the way, and not stated as a property: `--batch` leaves `global_graph` unset
(`cli.py:3040`) and ends with UnboundLocalError; the guard `if files:` skips text files (3050); the streaming fallback
has no timeout although `cli.py:1964` says "hard"; `guardmarly baseline generate` prints success and writes
nothing (`cli.py:1396-1405`); the help of `--guarded-fix` says the free tier is capped (1722) and `licensing.py:47`
switches the quota off; `config.py:138-141` says that custom sanitizers only reduce the confidence, but they
enter the table whose entries suppress (320); `custom_sanitizers` alone are ignored (263); a revert writes
line ends as `\n`; in the taint rule an `isinstance` test anywhere in a function excuses its variable
everywhere, an inline sanitizer of one argument excuses all, and `x += int(y)` sanitizes what `x` was.

## 6. Not modelled

What an analyser finds in a text, beyond being a function of the text, its imports and the
summaries it looks up; the contents of messages, reports and rows; `fsync` and SQLite's own
recovery (a commit is atomic and lasting; in `IncrementalScan` those of summaries succeed, and an analysis that
timed out records no summary after its file has been given up); the clock (a timeout may come at any time); in
`SummaryGraph` the taint nodes and edges, the IDE lattice, module taint and access paths; in
`ScanWorkers` `scan_directory_parallel`, which no command uses, and the process pools of `cli.py`
and of `v2/engine.py`, whose workers share no memory with the scan; in `GuardedFix` a write that
fails half way through a file; in `PyTaint` what its entry in section 2 names. Watch mode only
records and looks up: without an invalidation `SummaryGraph` has nothing to promise it.
`ir/interprocedural_fixpoint.py` has no caller, `graph/sqlite_graph.py` none in a scan. Most of
the package is rules, one pattern each, in ten languages: they keep no state, and a model of a
pattern would be the pattern again. The components without a module are listed in `PROJECT.json`
with the reason.
