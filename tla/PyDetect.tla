------------------------------ MODULE PyDetect ------------------------------
(***************************************************************************)
(* What the Python analyses of one process share (python_analyzer.py):     *)
(* the module's two memoization caches, keyed by line, column and kind of  *)
(* node and by no file, and ast.walk, which _detect replaces by a caching  *)
(* walk of its own for as long as its rules run.  Pass 1 of the command    *)
(* line indexes the files in its main thread; pass 2 has a thread for each *)
(* of up to Workers files (ScanWorkers has its scheduler).                 *)
(***************************************************************************)
EXTENDS Naturals, FiniteSets

CONSTANTS
    Files,       \* the Python files of the scan
    Positions,   \* the (line, column, kind) keys of nodes
    Nodes,       \* the nodes of a file, each by position and depth
    Sources,     \* those of its nodes that are taint sources
    Returned,    \* those its function summaries are made from
    Indexed,     \* the positions pass 1 looks up: those, and of calls assigned
    Left,        \* the summaries earlier processes may have left of its text
    Noisy,       \* the files in which rules find something whatever the sources
    Workers,     \* the analyses at a time, those a timeout left behind included
    Raising,     \* the files on which some rule raises
    Original     \* the ast.walk of the library

(* Nodes that begin where they do and are of one kind have one key, as the *)
(* two calls of input().strip().  "outer" is the outermost of them, which a *)
(* walk meets first; those in it are taken together.                       *)
Placed == Positions \X {"outer", "inner"}
Outward(S) == \A n \in S : <<n[1], "outer">> \in S

ASSUME NodesAssumption ==
    /\ Nodes \in [Files -> SUBSET Placed] /\ Returned \in [Files -> SUBSET Placed]
    /\ Indexed \in [Files -> SUBSET Positions]
    /\ \A f \in Files : /\ Outward(Nodes[f]) /\ Outward(Returned[f])
                        /\ Returned[f] \subseteq Nodes[f]
                        /\ {n[1] : n \in Returned[f]} \subseteq Indexed[f]
                        /\ Indexed[f] \subseteq {n[1] : n \in Nodes[f]}
ASSUME SourcesAssumption ==
    Sources \in [Files -> SUBSET Placed] /\ \A f \in Files : Sources[f] \subseteq Nodes[f]
ASSUME LeftAssumption == \A f \in Files : Left[f] \subseteq SUBSET Returned[f]
ASSUME WorkersAssumption == Workers \in Nat \ {0} /\ IsFiniteSet(Files)
ASSUME OriginalAssumption == Original \notin Files

VARIABLES
    indexing,    \* the files pass 1 has still to index
    pc,          \* where the analysis of a file is
    todo,        \* the nodes it has still to look up
    looking,     \* the lookup it is in the middle of: <<node, "hit" or "miss">>
    said,        \* the nodes it took for sources
    basis,       \* those its function summaries take for sources
    loaded,      \* the files whose summaries an earlier process left
    cached,      \* _taint_source_cache: its keys
    sourced,     \* and those of them it holds a source for
    walk,        \* ast.walk: Original, or the file whose analysis made it
    saved,       \* _orig_walk of an analysis
    overlapped,  \* history: two analyses were under way at once
    fresh        \* history: the files whose analysis began with an empty cache

caches == <<cached, sourced>>
history == <<overlapped, fresh>>
vars == <<indexing, pc, todo, looking, said, basis, loaded, caches, walk, saved, history>>

Ended == {"done", "failed", "lost"}
Active == {f \in Files : pc[f] \in {"reading", "rules", "restored"}}

(* The type invariant.                                                     *)
TypeOK ==
    /\ indexing \subseteq Files
    /\ pc \in [Files -> {"idle", "reading", "rules", "restored"} \cup Ended]
    /\ {todo, said, basis} \subseteq [Files -> SUBSET Placed]
    /\ looking \in [Files -> SUBSET (Placed \X {"hit", "miss"})]
    /\ loaded \subseteq Files
    /\ sourced \subseteq cached /\ cached \subseteq Positions
    /\ walk \in Files \cup {Original}
    /\ saved \in [Files -> Files \cup {Original}]
    /\ overlapped \in BOOLEAN
    /\ fresh \subseteq Files

Init ==
    /\ indexing \in SUBSET Files
    /\ pc = [f \in Files |-> "idle"]
    /\ todo = [f \in Files |-> {}]
    /\ looking = [f \in Files |-> {}]
    /\ said = [f \in Files |-> {}]
    /\ loaded \in SUBSET {f \in Files : Left[f] # {}}
    /\ basis \in [Files -> SUBSET Placed]
    /\ \A f \in Files : basis[f] \in IF f \in loaded THEN Left[f] ELSE {{}}
    /\ cached = {} /\ sourced = {}
    /\ walk = Original
    /\ saved = [f \in Files |-> Original]
    /\ overlapped = FALSE
    /\ fresh = {}

-----------------------------------------------------------------------------
(* What is answered for every node at a position that no other file has    *)
(* put in the cache: the answer for the first of them.                     *)
SourceAt(f, p) == <<p, "outer">> \in Sources[f]

(* Pass 1: index_python_file looks up nodes and leaves the cache as it is; *)
(* a node at a position that is cached is not looked at.                   *)
Index(f) ==
    /\ f \in indexing
    /\ indexing' = indexing \ {f}
    /\ cached' = cached \cup Indexed[f]
    /\ sourced' = sourced \cup {p \in Indexed[f] \ cached : SourceAt(f, p)}
    /\ UNCHANGED <<pc, todo, looking, said, basis, loaded, walk, saved, history>>

-----------------------------------------------------------------------------
(* Pass 2: an analysis.                                                    *)

Goto(f, at) == pc' = [pc EXCEPT ![f] = at]

(* A thread takes the file and parses it.  Its function summaries are      *)
(* loaded if a process has ever persisted them for the same text, whatever *)
(* its cache was then, and otherwise made now.                             *)
Begin(f) ==
    /\ indexing = {} /\ pc[f] = "idle"
    /\ Cardinality(Active) < Workers
    /\ Goto(f, "reading")
    /\ todo' = [todo EXCEPT ![f] = IF f \in loaded THEN {} ELSE Returned[f]]
    /\ overlapped' = (overlapped \/ Active # {})
    /\ fresh' = IF cached = {} THEN fresh \cup {f} ELSE fresh
    /\ UNCHANGED <<indexing, looking, said, basis, loaded, caches, walk, saved>>

(* if nid in _taint_source_cache                                           *)
Look(f, n) ==
    /\ pc[f] \in {"reading", "rules"} /\ looking[f] = {}
    /\ n \in todo[f] /\ (n[2] = "inner" => <<n[1], "outer">> \notin todo[f])
    /\ looking' = [looking EXCEPT ![f] = {<<n, IF n[1] \in cached THEN "hit" ELSE "miss">>}]
    /\ todo' = [todo EXCEPT ![f] = @ \ {n}]
    /\ UNCHANGED <<indexing, pc, said, basis, loaded, caches, walk, saved, history>>

Answer(f, n, isSource) ==
    /\ said' = IF isSource THEN [said EXCEPT ![f] = @ \cup {n}] ELSE said
    /\ looking' = [looking EXCEPT ![f] = {}]
    /\ UNCHANGED <<indexing, todo, basis, loaded, walk, saved, history>>

(* return _taint_source_cache[nid], of whichever node put it there.        *)
Hit(f, n) ==
    /\ <<n, "hit">> \in looking[f] /\ n[1] \in cached
    /\ Answer(f, n, n[1] \in sourced)
    /\ UNCHANGED <<pc, caches>>

(* Mutant of KeyLost: the key is waited for.                               *)
KeyAwaited(f, n) ==
    /\ <<n, "hit">> \in looking[f] /\ n[1] \notin cached
    /\ UNCHANGED vars

(* The cache was cleared since: a KeyError, which analyze_python does not  *)
(* catch.  ast.walk stays as it is.                                        *)
KeyLost(f, n) ==
    /\ <<n, "hit">> \in looking[f] /\ n[1] \notin cached
    /\ Goto(f, "lost")
    /\ Answer(f, n, FALSE)
    /\ UNCHANGED caches

(* Mutant of Miss: None is the answer until the node has been looked at.   *)
MissNone(f, n) ==
    /\ <<n, "miss">> \in looking[f]
    /\ Answer(f, n, FALSE)
    /\ cached' = cached \cup {n[1]}
    /\ UNCHANGED <<pc, sourced>>

(* Not cached: the node is looked at and the answer written, over any that *)
(* another analysis has written since.                                     *)
Miss(f, n) ==
    /\ <<n, "miss">> \in looking[f]
    /\ Answer(f, n, n \in Sources[f])
    /\ cached' = cached \cup {n[1]}
    /\ sourced' = IF n \in Sources[f] THEN sourced \cup {n[1]} ELSE sourced \ {n[1]}
    /\ UNCHANGED pc

(* The summaries are there, and the rules will look at every node.         *)
SummariesMade(f) ==
    /\ pc[f] = "reading" /\ looking[f] = {} /\ todo[f] = {}
    /\ basis' = IF f \in loaded THEN basis ELSE [basis EXCEPT ![f] = said[f]]
    /\ said' = [said EXCEPT ![f] = {}]
    /\ todo' = [todo EXCEPT ![f] = Nodes[f]]
    /\ Goto(f, "rules")
    /\ UNCHANGED <<indexing, looking, loaded, caches, history>>

(* Mutant of Patch: what ast.walk was is saved after it is replaced.       *)
PatchThenSave(f) ==
    /\ SummariesMade(f)
    /\ saved' = [saved EXCEPT ![f] = f]
    /\ walk' = f

(* _orig_walk = ast.walk; ast.walk = _cached_walk                          *)
Patch(f) ==
    /\ SummariesMade(f)
    /\ saved' = [saved EXCEPT ![f] = walk]
    /\ walk' = f

(* A rule raises (analyze_python catches RecursionError and three others): *)
(* neither ast.walk nor the cache is put right.                            *)
RuleRaises(f) ==
    /\ f \in Raising /\ pc[f] = "rules" /\ looking[f] = {}
    /\ Goto(f, "failed")
    /\ UNCHANGED <<indexing, todo, looking, said, basis, loaded, caches, walk, saved, history>>

(* Mutant of Restore: ast.walk is left as it is.                           *)
RestoreNothing(f) ==
    /\ pc[f] = "rules" /\ looking[f] = {} /\ todo[f] = {}
    /\ f \notin Raising
    /\ Goto(f, "restored")
    /\ UNCHANGED <<indexing, todo, looking, said, basis, loaded, caches, walk, saved, history>>

(* ast.walk = _orig_walk, whoever has replaced it since.                   *)
Restore(f) ==
    /\ pc[f] = "rules" /\ looking[f] = {} /\ todo[f] = {}
    /\ f \notin Raising
    /\ walk' = saved[f]
    /\ Goto(f, "restored")
    /\ UNCHANGED <<indexing, todo, looking, said, basis, loaded, caches, saved, history>>

(* "if not findings: return findings" comes before the caches are cleared. *)
(* A source may have a finding, and so may a summary that has one.         *)
Finish(f) ==
    /\ pc[f] = "restored"
    /\ Goto(f, "done")
    /\ \/ f \notin Noisy /\ UNCHANGED caches
       \/ /\ f \in Noisy \/ said[f] \cup basis[f] # {}
          /\ cached' = {} /\ sourced' = {}
    /\ UNCHANGED <<indexing, todo, looking, said, basis, loaded, walk, saved, history>>

-----------------------------------------------------------------------------
Step(f) ==
    \/ Begin(f) \/ Patch(f) \/ RuleRaises(f) \/ Restore(f) \/ Finish(f)
    \/ \E n \in Placed : Look(f, n) \/ Hit(f, n) \/ KeyLost(f, n) \/ Miss(f, n)

Next == \E f \in Files : Index(f) \/ Step(f)

Spec == Init /\ [][Next]_vars

(* The threads run on, and pass 1 does.                                    *)
FairSpec == Spec /\ \A f \in Files : WF_vars(Index(f)) /\ WF_vars(Step(f))

-----------------------------------------------------------------------------
(* Properties.                                                             *)

(* The nodes that are taken for sources when only the file itself is in    *)
(* the cache: all that begin where the outermost is one.                   *)
Seen(f) == {n \in Nodes[f] : SourceAt(f, n[1])}

(* "Clear memoization caches at the end of each file scan"                 *)
(* (python_analyzer.py:1103): what the analysis of a file takes for a      *)
(* source is what it would if the file were scanned alone.                 *)
AsAlone == \A f \in Files : pc[f] = "done" => said[f] = Seen(f)

(* That holds of what begins with an empty cache, as the first file after  *)
(* one with findings does, while no two analyses are ever under way; and   *)
(* of the function summaries it makes, unless they were loaded.            *)
OwnSourcesWhenFresh ==
    ~overlapped => \A f \in fresh : pc[f] = "done" =>
        /\ said[f] = Seen(f)
        /\ f \notin loaded => basis[f] = Seen(f) \cap Returned[f]

(* A lookup never fails for a key that is gone, unless analyses overlap.   *)
NoKeyLostAlone == ~overlapped => \A f \in Files : pc[f] # "lost"

(* "Restore original ast.walk" (python_analyzer.py:7654): it is the one of *)
(* the library again when no analysis is under way, if none raised and no  *)
(* two ever overlapped.                                                    *)
WalkRestoredAlone ==
    (~overlapped /\ Active = {} /\ \A f \in Files : pc[f] # "failed") => walk = Original

(* However analyses overlap, raise and lose keys, a call of ast.walk ends  *)
(* in the library's: no analyses have saved each other's walks in a circle. *)
WalkEnds ==
    \A S \in SUBSET Files : walk \in S => \E f \in S : saved[f] \notin S

(* Every file is analysed or fails, whatever the other analyses do to it.  *)
EveryAnalysisEnds == <>(\A f \in Files : pc[f] \in Ended)
=============================================================================
