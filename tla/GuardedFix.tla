----------------------------- MODULE GuardedFix -----------------------------
(***************************************************************************)
(* Runs of the command line over one tree of files (cli.py).  A run scans, *)
(* compares with a baseline that it may rewrite, and may then fix the      *)
(* files: unguarded (--apply-fixes), or guarded (--guarded-fix), when it   *)
(* scans them again and puts them back if a finding is new.  Runs may      *)
(* overlap, be killed, and fail to read or write a file; a scan of a file  *)
(* may time out, and then its chunks are analysed one by one.              *)
(***************************************************************************)
EXTENDS Naturals, FiniteSets

CONSTANTS
    Procs,       \* the processes that run it
    Files,       \* the files, numbers in the order of the results
    Lines,       \* the lines that findings are at
    Trees,       \* what the files may be like
    Baselines,   \* the findings that may be accepted at first
    Slow,        \* the sets of files whose first scans may time out
    Partials,    \* what the chunks of files may show, found otherwise or not
    MaxRuns,     \* how many runs begin
    NoProc       \* no process

Places == Files \X Lines

(* The findings of a tree, each known by its place as the fingerprints do: *)
(*   found    those of the unfixed files;                                  *)
(*   fixable  those with a safe inline fix;                                *)
(*   brings   <<x, y>>: the fix of x brings the finding y in its own file; *)
(*   crosses  the same, when only the analysis of all files shows y;       *)
(*   breaks   those whose fix keeps the file from being parsed;            *)
(*   dropped  those that a scan drops before the baseline (--strict, the   *)
(*            context passes) and the scan after the fixes does not.       *)
Tree == [found : SUBSET Places, fixable : SUBSET Places, brings : SUBSET (Places \X Places),
         crosses : SUBSET (Places \X Places), breaks : SUBSET Places, dropped : SUBSET Places]

ASSUME TreesAssumption == Trees \subseteq Tree
ASSUME BaselinesAssumption == Baselines \subseteq SUBSET Places
ASSUME PlacesAssumption == Files \subseteq Nat /\ Lines \subseteq Nat
ASSUME SlowAssumption == Slow \subseteq SUBSET Files /\ Partials \subseteq SUBSET Places
ASSUME RunsAssumption == MaxRuns \in Nat
ASSUME NoProcAssumption == NoProc \notin Procs

VARIABLES
    tree,        \* the tree
    text,        \* the places whose fix is in the files
    baseline,    \* the findings in the baseline file
    pc,          \* where a run is, or "idle"
    mode,        \* "report", "apply" or "guarded"
    accepted,    \* the baseline it read
    report,      \* the findings left of its scan
    broken,      \* the files its scan has an error for
    todo,        \* the files to fix, scan again or put back
    backups,     \* the files it has changed ...
    saved,       \* ... and the fixes they had before
    regressed,   \* the scan after the fixes found something new
    outcome,     \* what came of the last run of the process
    runs,        \* the runs that have begun
    was,         \* history: the text a run began with
    tried,       \* history: the text it scanned after its fixes
    slow,        \* history: the files whose first scan timed out
    late,        \* history: those whose scan after the fixes did
    alone,       \* history: no other run overlapped with it
    last         \* history: the process of the last run

run == <<mode, accepted, report, broken, backups, saved, regressed>>
history == <<runs, was, slow, late, alone, last>>
vars == <<tree, text, baseline, pc, run, todo, outcome, history, tried>>

PCs == {"idle", "fixing", "rescanning", "restoring"}
Outcomes == {"none", "reported", "fixed", "no-fixes", "verified", "reverted", "raised", "killed"}

(* The type invariant.                                                     *)
TypeOK ==
    /\ tree \in Trees
    /\ text \subseteq Places /\ baseline \subseteq Places
    /\ pc \in [Procs -> PCs] /\ outcome \in [Procs -> Outcomes]
    /\ mode \in [Procs -> {"report", "apply", "guarded"}]
    /\ \A p \in Procs :
          /\ accepted[p] \subseteq Places /\ report[p] \subseteq Places
          /\ report[p] \cap accepted[p] = {}
          /\ todo[p] \subseteq Files /\ broken[p] \subseteq Files
          /\ backups[p] \subseteq Files /\ saved[p] \subseteq backups[p] \X Lines
          /\ pc[p] # "idle" => mode[p] # "report"
          /\ pc[p] \in {"rescanning", "restoring"} => mode[p] = "guarded" /\ backups[p] # {}
    /\ regressed \in [Procs -> BOOLEAN]
    /\ runs \in 0..MaxRuns

Init ==
    /\ tree \in Trees
    /\ text = {} /\ baseline \in Baselines
    /\ pc = [p \in Procs |-> "idle"] /\ outcome = [p \in Procs |-> "none"]
    /\ mode = [p \in Procs |-> "report"]
    /\ accepted = [p \in Procs |-> {}] /\ report = [p \in Procs |-> {}]
    /\ broken = [p \in Procs |-> {}] /\ todo = [p \in Procs |-> {}]
    /\ backups = [p \in Procs |-> {}] /\ saved = [p \in Procs |-> {}]
    /\ regressed = [p \in Procs |-> FALSE]
    /\ runs = 0 /\ last = NoProc
    /\ was = [p \in Procs |-> {}] /\ tried = [p \in Procs |-> {}]
    /\ slow = [p \in Procs |-> {}] /\ late = [p \in Procs |-> {}] /\ alone = [p \in Procs |-> TRUE]

-----------------------------------------------------------------------------
(* What a scan finds in a text.                                            *)

In(S, f) == {x \in S : x[1] = f}

Brought(relation, t) == {y \in Places : \E x \in t : <<x, y>> \in relation}

Unparsed(t) == {f \in Files : In(t \cap tree.breaks, f) # {}}

(* A file by itself, and all of them.                                      *)
Own(t) == {x \in (tree.found \ t) \cup Brought(tree.brings, t) : x[1] \notin Unparsed(t)}

Full(t) == Own(t) \cup {x \in Brought(tree.crosses, t) : x[1] \notin Unparsed(t)}

-----------------------------------------------------------------------------
(* The first scan.  A file that times out has what its chunks show; what   *)
(* crosses to the other files may then be missed.                          *)
FirstScan(behind, shown) ==
    IF behind = {} THEN Full(text)
    ELSE {x \in Own(text) : x[1] \notin behind}
         \cup {x \in shown : x[1] \in behind \/ x \in Full(text)}

(* A run begins: the scan, the passes over its findings, the baseline, and *)
(* --baseline-update, which writes what the baseline left of them.  A file *)
(* that timed out has an error, like one that cannot be parsed, but also   *)
(* findings, which are fixed.                                              *)
Begin(p, m, update, behind, shown) ==
    LET left == (FirstScan(behind, shown) \ tree.dropped) \ baseline
        others == {q \in Procs \ {p} : pc[q] # "idle"}
    IN  /\ pc[p] = "idle" /\ runs < MaxRuns
        /\ runs' = runs + 1 /\ last' = p
        /\ mode' = [mode EXCEPT ![p] = m]
        /\ accepted' = [accepted EXCEPT ![p] = baseline]
        /\ report' = [report EXCEPT ![p] = left]
        /\ broken' = [broken EXCEPT ![p] = Unparsed(text) \cup behind]
        /\ baseline' = IF update THEN left ELSE baseline
        /\ backups' = [backups EXCEPT ![p] = {}] /\ saved' = [saved EXCEPT ![p] = {}]
        /\ regressed' = [regressed EXCEPT ![p] = FALSE]
        /\ was' = [was EXCEPT ![p] = text]
        /\ slow' = [slow EXCEPT ![p] = behind] /\ late' = [late EXCEPT ![p] = {}]
        /\ alone' = [q \in Procs |->
                        IF q = p THEN others = {} ELSE IF q \in others THEN FALSE ELSE alone[q]]
        /\ pc' = [pc EXCEPT ![p] = IF m = "report" THEN "idle" ELSE "fixing"]
        /\ outcome' = [outcome EXCEPT ![p] = IF m = "report" THEN "reported" ELSE "none"]
        /\ todo' = [todo EXCEPT ![p] = IF m = "report" THEN {} ELSE Files]
        /\ UNCHANGED <<tree, text, tried>>

(* The fixes that still match the line they are for.                       *)
Fixes(p, f) == In((report[p] \cap tree.fixable) \ text, f)

IsFirst(f, S) == f \in S /\ \A g \in S : f <= g

Ends(p, how) ==
    /\ pc' = [pc EXCEPT ![p] = "idle"] /\ todo' = [todo EXCEPT ![p] = {}]
    /\ outcome' = [outcome EXCEPT ![p] = how]

(* Mutant of Apply: only what is written is kept for the revert.           *)
ApplyAfter(p, f, how) ==
    /\ pc[p] = "fixing" /\ IsFirst(f, todo[p])
    /\ todo' = [todo EXCEPT ![p] = @ \ {f}]
    /\ text' = IF how = "written" THEN text \cup Fixes(p, f) ELSE text
    /\ LET new == how # "unread" /\ Fixes(p, f) # {}
       IN  /\ backups' = [backups EXCEPT ![p] = IF new THEN @ \cup {f} ELSE @]
           /\ saved' = [saved EXCEPT ![p] = IF new THEN @ \cup In(text', f) ELSE @]
    /\ UNCHANGED <<tree, baseline, pc, mode, accepted, report, broken, regressed, outcome, history, tried>>

(* One file is read, fixed and written, or cannot be; what is not written  *)
(* counts as fixed all the same.                                           *)
Apply(p, f, how) ==
    /\ pc[p] = "fixing" /\ IsFirst(f, todo[p])
    /\ todo' = [todo EXCEPT ![p] = @ \ {f}]
    /\ text' = IF how = "written" THEN text \cup Fixes(p, f) ELSE text
    /\ LET new == how # "unread" /\ Fixes(p, f) # {}
       IN  /\ backups' = [backups EXCEPT ![p] = IF new THEN @ \cup {f} ELSE @]
           /\ saved' = [saved EXCEPT ![p] = IF new THEN @ \cup In(text, f) ELSE @]
    /\ UNCHANGED <<tree, baseline, pc, mode, accepted, report, broken, regressed, outcome, history, tried>>

(* A file that is not UTF-8, which the scan has read all the same, ends    *)
(* the run: the files before it stay fixed.                                *)
Undecodable(p, f) ==
    /\ pc[p] = "fixing" /\ IsFirst(f, todo[p]) /\ In(report[p], f) # {}
    /\ Ends(p, "raised")
    /\ UNCHANGED <<tree, text, baseline, run, history, tried>>

(* Mutant of Applied: it scans again though nothing was fixed.             *)
AppliedNothing(p) ==
    /\ pc[p] = "fixing" /\ todo[p] = {}
    /\ IF mode[p] = "apply" THEN Ends(p, "fixed")
       ELSE /\ pc' = [pc EXCEPT ![p] = "rescanning"] /\ todo' = [todo EXCEPT ![p] = Files]
            /\ UNCHANGED outcome
    /\ tried' = [tried EXCEPT ![p] = text]
    /\ UNCHANGED <<tree, text, baseline, run, history>>

(* All the files are fixed: a guarded run that fixed something scans again.*)
Applied(p) ==
    /\ pc[p] = "fixing" /\ todo[p] = {}
    /\ IF mode[p] = "apply" THEN Ends(p, "fixed")
       ELSE IF backups[p] = {} THEN Ends(p, "no-fixes")
       ELSE /\ pc' = [pc EXCEPT ![p] = "rescanning"] /\ todo' = [todo EXCEPT ![p] = Files]
            /\ UNCHANGED outcome
    /\ tried' = [tried EXCEPT ![p] = text]
    /\ UNCHANGED <<tree, text, baseline, run, history>>

(* Mutants of News: parse errors do not count; the baseline is left out.   *)
NewsParsed(p, f) == In(Own(text) \ accepted[p], f) \ report[p] # {}

NewsAll(p, f) ==
    \/ In(Own(text), f) \ report[p] # {}
    \/ f \in Unparsed(text) \ broken[p]

(* The second scan of a file finds something that the run did not report.  *)
News(p, f) ==
    \/ In(Own(text) \ accepted[p], f) \ report[p] # {}
    \/ f \in Unparsed(text) \ broken[p]

(* One file is scanned again, with a graph of its own; a scan that times   *)
(* out has an error and the findings of its chunks.                        *)
Rescan(p, f, timely, shown) ==
    /\ pc[p] = "rescanning" /\ IsFirst(f, todo[p])
    /\ todo' = [todo EXCEPT ![p] = @ \ {f}]
    /\ LET overdue == In(shown \ accepted[p], f) \ report[p] # {} \/ f \notin broken[p]
       IN  regressed' = [regressed EXCEPT ![p] = @ \/ (IF timely THEN News(p, f) ELSE overdue)]
    /\ late' = [late EXCEPT ![p] = IF timely THEN @ ELSE @ \cup {f}]
    /\ UNCHANGED <<tree, text, baseline, pc, mode, accepted, report, broken, backups, saved,
                   outcome, runs, was, slow, alone, last, tried>>

Decide(p) ==
    /\ pc[p] = "rescanning" /\ todo[p] = {}
    /\ IF regressed[p]
         THEN /\ pc' = [pc EXCEPT ![p] = "restoring"] /\ todo' = [todo EXCEPT ![p] = backups[p]]
              /\ UNCHANGED outcome
         ELSE Ends(p, "verified")
    /\ UNCHANGED <<tree, text, baseline, run, history, tried>>

(* One file is put back; when it cannot be written the run ends in an      *)
(* exception, and the files after it stay as they are.                     *)
Restore(p, f, writes) ==
    /\ pc[p] = "restoring" /\ IsFirst(f, todo[p])
    /\ IF writes
         THEN /\ text' = (text \ In(text, f)) \cup In(saved[p], f)
              /\ IF todo[p] = {f} THEN Ends(p, "reverted")
                 ELSE todo' = [todo EXCEPT ![p] = @ \ {f}] /\ UNCHANGED <<pc, outcome>>
         ELSE Ends(p, "raised") /\ UNCHANGED text
    /\ UNCHANGED <<tree, baseline, run, history, tried>>

Kill(p) ==
    /\ pc[p] # "idle" /\ Ends(p, "killed")
    /\ UNCHANGED <<tree, text, baseline, run, history, tried>>

-----------------------------------------------------------------------------
Step(p) ==
    \/ Applied(p) \/ Decide(p)
    \/ \E f \in Files :
          \/ \E how \in {"written", "unwritten", "unread"} : Apply(p, f, how)
          \/ Undecodable(p, f)
          \/ \E ok \in BOOLEAN, shown \in Partials : Rescan(p, f, ok, shown)
          \/ \E ok \in BOOLEAN : Restore(p, f, ok)

Next ==
    \E p \in Procs :
        \/ \E m \in {"report", "apply", "guarded"}, u \in BOOLEAN, behind \in Slow, shown \in Partials :
              Begin(p, m, u, behind, shown)
        \/ Step(p) \/ Kill(p)

Spec == Init /\ [][Next]_vars

-----------------------------------------------------------------------------
(* Properties.  Until another run begins:                                  *)

Since(p, how) == last = p /\ alone[p] /\ pc[p] = "idle" /\ outcome[p] = how

(* "automatically revert if new issues or parse regressions are            *)
(* introduced" (cli.py:1721): a run that no other overlaps and that says   *)
(* it reverted leaves every file as it found it, also one that could not   *)
(* be written and those that an earlier run, killed or not, had fixed.     *)
RevertedAsBefore == \A p \in Procs : Since(p, "reverted") => text = was[p]

(* After a run that says its fixes are verified no file has by itself a    *)
(* finding that was neither reported nor accepted, unless both its scans   *)
(* timed out, and none is newly broken, unless its first scan did: to the  *)
(* run such a file has had an error all along (cli.py:1183).               *)
VerifiedNothingNew ==
    \A p \in Procs : Since(p, "verified") =>
        /\ \A x \in Own(text) :
              x \in report[p] \cup accepted[p] \/ x[1] \in slow[p] \cap late[p]
        /\ Unparsed(text) \ slow[p] \subseteq Unparsed(was[p])

(* The same of every file.                                                 *)
VerifiedNoneBroken ==
    \A p \in Procs : Since(p, "verified") => Unparsed(text) \subseteq Unparsed(was[p])

(* A revert has a reason: unless a scan timed out, or a finding is there   *)
(* that the first scan drops and the second does not, the fixes did bring  *)
(* a finding or break a file.                                              *)
RevertHasReason ==
    \A p \in Procs :
        (/\ Since(p, "reverted") /\ slow[p] = {} /\ late[p] = {}
         /\ Own(tried[p]) \cap tree.dropped = {}) =>
            \/ ~(Own(tried[p]) \subseteq Full(was[p]))
            \/ ~(Unparsed(tried[p]) \subseteq Unparsed(was[p]))

(* "Incorporates current findings into the accepted baseline"              *)
(* (cli.py:1880): what is accepted and still there stays accepted.         *)
AcceptedStay == [][baseline \cap Full(text) \subseteq baseline']_vars
=============================================================================
