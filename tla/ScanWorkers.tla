---------------------------- MODULE ScanWorkers ----------------------------
(***************************************************************************)
(* Pass 2 of a scan with --parallel: scan_files_parallel of                *)
(* engine/async_scanner.py starts one task per file, MaxWorkers of them at *)
(* a time hold the semaphore, and each runs cli.py's                       *)
(* _analyze_file_with_timeout in a pool thread: a daemon thread analyses,  *)
(* the pool thread waits for its answer in a queue of one, and on a        *)
(* timeout it leaves the daemon running and analyses the file in chunks    *)
(* itself, without a timeout.                                              *)
(***************************************************************************)
EXTENDS Naturals, FiniteSets

CONSTANTS
    N,            \* the number of files
    MaxWorkers,   \* max_workers, at most the threads of asyncio's pool
    Chunked,      \* the python and javascript files, which the fallback analyses
    StuckChunks,  \* those of which the analysis of some chunk does not end
    None          \* no answer

Files == 1..N     \* by their place in scan_targets

ASSUME CountAssumption == N \in Nat /\ MaxWorkers \in Nat \ {0}
ASSUME ChunkedAssumption == Chunked \subseteq Files /\ StuckChunks \subseteq Chunked

(* A result by its parse_error: none, that of an exception, a timeout with *)
(* some findings of the chunks, a timeout without.                         *)
Answers == {"whole", "error", "partial", "timeout"}
ASSUME NoneAssumption == None \notin Answers

VARIABLES
    task,      \* where scan_one(f) is
    free,      \* the semaphore's value
    daemon,    \* the thread that analyses f
    holder,    \* result_holder, the queue of one
    answer,    \* what the pool thread returns
    results,   \* results[f]
    errors,    \* the files whose scan_fn raised
    reported   \* the results the command line goes on with, None before

pool == <<task, free, answer>>
vars == <<pool, daemon, holder, results, errors, reported>>

(* The type invariant; only a whole analysis and an exception of one get   *)
(* into the queue.                                                         *)
TypeOK ==
    /\ task \in [Files -> {"waiting", "starting", "getting", "fallback", "returned", "raised", "done"}]
    /\ free \in 0..MaxWorkers
    /\ daemon \in [Files -> {"none", "running", "ended"}]
    /\ holder \in [Files -> {None, "whole", "error"}]
    /\ answer \in [Files -> Answers \cup {None}]
    /\ results \in [Files -> Answers \cup {None}]
    /\ errors \subseteq Files
    /\ reported \in {None} \cup SUBSET Files

Init ==
    /\ task = [f \in Files |-> "waiting"]
    /\ free = MaxWorkers
    /\ daemon = [f \in Files |-> "none"]
    /\ holder = [f \in Files |-> None]
    /\ answer = [f \in Files |-> None]
    /\ results = [f \in Files |-> None]
    /\ errors = {}
    /\ reported = None

-----------------------------------------------------------------------------
(* The event loop.                                                         *)

(* async with sem: first come, first served, in the order of gather().     *)
Acquire(f) ==
    /\ task[f] = "waiting" /\ \A g \in 1..(f - 1) : task[g] # "waiting"
    /\ free > 0
    /\ free' = free - 1
    /\ task' = [task EXCEPT ![f] = "starting"]
    /\ UNCHANGED <<daemon, holder, answer, results, errors, reported>>

(* Mutant of Collect: a result with a parse_error is not kept.             *)
CollectWhole(f) ==
    /\ task[f] = "returned"
    /\ results' = IF answer[f] = "whole" THEN [results EXCEPT ![f] = answer[f]] ELSE results
    /\ task' = [task EXCEPT ![f] = "done"]
    /\ free' = free + 1
    /\ UNCHANGED <<daemon, holder, answer, errors, reported>>

(* to_thread returned: the result is kept and the semaphore released.      *)
Collect(f) ==
    /\ task[f] = "returned"
    /\ results' = [results EXCEPT ![f] = answer[f]]
    /\ task' = [task EXCEPT ![f] = "done"]
    /\ free' = free + 1
    /\ UNCHANGED <<daemon, holder, answer, errors, reported>>

(* Mutant of CollectError: the exception passes the semaphore by.          *)
CollectErrorHolding(f) ==
    /\ task[f] = "raised"
    /\ errors' = errors \cup {f}
    /\ task' = [task EXCEPT ![f] = "done"]
    /\ UNCHANGED <<free, daemon, holder, answer, results, reported>>

(* It raised: the file has no result, and the others go on.                *)
CollectError(f) ==
    /\ task[f] = "raised"
    /\ errors' = errors \cup {f}
    /\ task' = [task EXCEPT ![f] = "done"]
    /\ free' = free + 1
    /\ UNCHANGED <<daemon, holder, answer, results, reported>>

(* gather() is done; the command line takes the results there are.         *)
Report ==
    /\ \A f \in Files : task[f] = "done"
    /\ reported = None
    /\ reported' = {f \in Files : results[f] # None}
    /\ UNCHANGED <<pool, daemon, holder, results, errors>>

-----------------------------------------------------------------------------
(* The pool thread: _analyze_file_with_timeout.                            *)

Start(f) ==
    /\ task[f] = "starting"
    /\ daemon' = [daemon EXCEPT ![f] = "running"]
    /\ task' = [task EXCEPT ![f] = "getting"]
    /\ UNCHANGED <<free, holder, answer, results, errors, reported>>

(* No thread can be started: nothing catches that but scan_one.            *)
StartRaises(f) ==
    /\ task[f] = "starting"
    /\ task' = [task EXCEPT ![f] = "raised"]
    /\ UNCHANGED <<free, daemon, holder, answer, results, errors, reported>>

(* The pool thread returns a.                                              *)
Returns(f, a) ==
    /\ answer' = [answer EXCEPT ![f] = a]
    /\ task' = [task EXCEPT ![f] = "returned"]
    /\ UNCHANGED <<free, daemon, holder, results, errors, reported>>

Get(f) ==
    /\ task[f] = "getting" /\ holder[f] # None
    /\ Returns(f, holder[f])

(* queue.Empty, or the answer of the fallback that is over at once: the    *)
(* file cannot be read any more, or has a language it does not analyse.    *)
TimeOver(f) ==
    \/ Returns(f, "error")
    \/ f \notin Chunked /\ Returns(f, "timeout")
    \/ /\ f \in Chunked
       /\ task' = [task EXCEPT ![f] = "fallback"]
       /\ UNCHANGED <<free, daemon, holder, answer, results, errors, reported>>

(* Mutant of Timeout: the thread is joined before the queue is looked at.  *)
TimeoutJoined(f) ==
    /\ task[f] = "getting" /\ holder[f] = None /\ daemon[f] = "ended"
    /\ TimeOver(f)

Timeout(f) ==
    /\ task[f] = "getting" /\ holder[f] = None
    /\ TimeOver(f)

(* Mutant of FallbackEnds: a recovered result has no parse_error.          *)
FallbackEndsClean(f) ==
    /\ task[f] = "fallback" /\ f \notin StuckChunks
    /\ \E a \in {"whole", "timeout"} : Returns(f, a)

(* Every chunk is analysed or skipped; their findings, if any, are kept.   *)
FallbackEnds(f) ==
    /\ task[f] = "fallback" /\ f \notin StuckChunks
    /\ \E a \in {"partial", "timeout"} : Returns(f, a)

-----------------------------------------------------------------------------
(* The daemon thread: _worker.                                             *)

(* The analysis ends, at any time or never, also by an exception.          *)
Put(f) ==
    /\ daemon[f] = "running"
    /\ \E a \in {"whole", "error"} : holder' = [holder EXCEPT ![f] = a]
    /\ daemon' = [daemon EXCEPT ![f] = "ended"]
    /\ UNCHANGED <<pool, results, errors, reported>>

(* By an exception that is no Exception: nothing is put.                   *)
Die(f) ==
    /\ daemon[f] = "running"
    /\ daemon' = [daemon EXCEPT ![f] = "ended"]
    /\ UNCHANGED <<pool, holder, results, errors, reported>>

-----------------------------------------------------------------------------
Loop(f) == Acquire(f) \/ Collect(f) \/ CollectError(f)
Pool(f) ==
    \/ Start(f) \/ StartRaises(f)
    \/ Get(f) \/ Timeout(f) \/ FallbackEnds(f)
Daemon(f) == Put(f) \/ Die(f)

Next == (\E f \in Files : Loop(f) \/ Pool(f) \/ Daemon(f)) \/ Report

Spec == Init /\ [][Next]_vars

(* The event loop and the pool's threads run; a get ends, at its timeout   *)
(* if not before. That an analysis ends is not assumed, except that of the *)
(* chunks that do.                                                         *)
FairSpec == Spec /\ WF_vars(Report) /\ \A f \in Files : WF_vars(Loop(f)) /\ WF_vars(Pool(f))

-----------------------------------------------------------------------------
(* Properties.                                                             *)

Holding == {f \in Files : task[f] \notin {"waiting", "done"}}

(* "Bounded semaphore to control concurrency" (engine/async_scanner.py:10): *)
(* however a scan ends, its slot is neither lost nor handed out twice.     *)
SlotsKept == free + Cardinality(Holding) = MaxWorkers

(* No file gets lost on the way: the report lacks none but those whose     *)
(* scan raised, whatever hung, timed out or died.                          *)
ReportComplete == reported # None => reported = Files \ errors

(* A result without a parse_error, the kind an incremental scan stores, is *)
(* that of an analysis of the whole file, by a thread that is done with it *)
(* and with the graph it shares.                                           *)
WholeIsWhole ==
    \A f \in Files : results[f] = "whole" => daemon[f] = "ended" /\ holder[f] = "whole"

(* A file gets its result, or its error, however the analyses of all files *)
(* hang, so long as fewer fallbacks than slots do.                         *)
OthersAnswered ==
    Cardinality(StuckChunks) < MaxWorkers =>
        \A f \in Files \ StuckChunks : <>(task[f] = "done")
=============================================================================
