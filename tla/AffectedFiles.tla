--------------------------- MODULE AffectedFiles ---------------------------
(***************************************************************************)
(* IncrementalCache.affected_files (cache/incremental.py:205-234): passes  *)
(* over the candidates, in any order, each adding the candidates whose     *)
(* stored imports meet what was added before, until a pass adds none.      *)
(* IncrementalScan takes the result for one step; this is the loop.        *)
(* The names of its specification begin with Loop, as FixedPointProofs     *)
(* speaks of it and of IFDSSolver.                                         *)
(***************************************************************************)
EXTENDS Naturals

CONSTANT Files       \* the keys of the cache: normalised paths

VARIABLES
    imports,     \* get_imports, what the store holds during the call
    direct,      \* changed_paths
    candidates,
    affected,    \* affected; frontier holds the same files at every test
    todo,        \* candidates the current pass has not visited
    changed,     \* changed
    pc           \* "while": at the test of the loop, "for": in a pass, "done"

loopVars == <<imports, direct, candidates, affected, todo, changed, pc>>

(* The type invariant.                                                     *)
LoopTypeOK ==
    /\ imports \in [Files -> SUBSET Files]
    /\ {direct, candidates, affected, todo} \subseteq SUBSET Files
    /\ changed \in BOOLEAN
    /\ pc \in {"while", "for", "done"}

LoopInit ==
    /\ imports \in [Files -> SUBSET Files]
    /\ direct \in SUBSET Files
    /\ candidates \in SUBSET Files
    /\ affected = direct
    /\ todo = {}
    /\ changed = TRUE
    /\ pc = "while"

(* The test of the loop, and the snapshot of the candidates a pass visits. *)
While ==
    /\ pc = "while"
    /\ IF changed
         THEN /\ changed' = FALSE
              /\ todo' = candidates
              /\ pc' = "for"
         ELSE /\ pc' = "done"
              /\ UNCHANGED <<changed, todo>>
    /\ UNCHANGED <<imports, direct, candidates, affected>>

Meets(c) == imports[c] \cap affected # {}

(* Mutant of Visit: an addition does not ask for another pass.             *)
VisitOnce(c) ==
    /\ pc = "for" /\ c \in todo
    /\ todo' = todo \ {c}
    /\ affected' = IF Meets(c) THEN affected \cup {c} ELSE affected
    /\ UNCHANGED <<imports, direct, candidates, changed, pc>>

(* Mutant of Visit: a candidate that imports nothing joins the others.     *)
VisitLeaf(c) ==
    /\ pc = "for" /\ c \in todo
    /\ todo' = todo \ {c}
    /\ IF c \notin affected /\ (Meets(c) \/ imports[c] = {})
         THEN affected' = affected \cup {c} /\ changed' = TRUE
         ELSE UNCHANGED <<affected, changed>>
    /\ UNCHANGED <<imports, direct, candidates, pc>>

(* Mutant of Visit: a candidate that meets the set asks for another pass,  *)
(* also when it is in the set already.                                     *)
VisitAgain(c) ==
    /\ pc = "for" /\ c \in todo
    /\ todo' = todo \ {c}
    /\ IF Meets(c)
         THEN affected' = affected \cup {c} /\ changed' = TRUE
         ELSE UNCHANGED <<affected, changed>>
    /\ UNCHANGED <<imports, direct, candidates, pc>>

Visit(c) ==
    /\ pc = "for" /\ c \in todo
    /\ todo' = todo \ {c}
    /\ IF c \notin affected /\ Meets(c)
         THEN affected' = affected \cup {c} /\ changed' = TRUE
         ELSE UNCHANGED <<affected, changed>>
    /\ UNCHANGED <<imports, direct, candidates, pc>>

EndPass ==
    /\ pc = "for" /\ todo = {}
    /\ pc' = "while"
    /\ UNCHANGED <<imports, direct, candidates, affected, todo, changed>>

LoopNext == While \/ (\E c \in Files : Visit(c)) \/ EndPass

LoopSpec == LoopInit /\ [][LoopNext]_loopVars

(* The loop is sequential code that is never suspended.                    *)
LoopFairSpec == LoopSpec /\ WF_loopVars(LoopNext)

-----------------------------------------------------------------------------
(* Properties.                                                             *)

(* A set is closed when no candidate outside it imports from it.           *)
Closed(S) == \A c \in candidates : imports[c] \cap S # {} => c \in S

(* What the call returns misses no candidate that imports an affected      *)
(* file, directly or through others, whatever the order of the passes.     *)
NothingMissed == pc = "done" => direct \subseteq affected /\ Closed(affected)

(* It never holds a file that did not change and imports no affected file: *)
(* every closed set with the changed files in it holds all of the result.  *)
NothingExtra ==
    \A S \in SUBSET Files : (direct \subseteq S /\ Closed(S)) => affected \subseteq S

(* The passes come to an end, also when imports are cyclic.                *)
LoopEnds == <>(pc = "done")
=============================================================================
