-------------------------- MODULE GuardedFixProofs --------------------------
(***************************************************************************)
(* A guarded run that no other overlaps leaves the files as it found them  *)
(* when it reverts, reverts only with a reason, and leaves nothing new     *)
(* behind when it does not.  Such a run is alone until the next begins     *)
(* (OthersIdle), so that only its own steps change the files; what it has  *)
(* kept of each file is then what the file was like (Backed), what it has  *)
(* scanned again in time is settled (Rescanned), and a regression that it  *)
(* has seen is one against its first scan (Reasoned).                      *)
(***************************************************************************)
EXTENDS GuardedFix, TLAPS

Typed ==
    /\ TypeOK
    /\ accepted \in [Procs -> SUBSET Places] /\ report \in [Procs -> SUBSET Places]
    /\ saved \in [Procs -> SUBSET Places]
    /\ was \in [Procs -> SUBSET Places] /\ tried \in [Procs -> SUBSET Places]
    /\ broken \in [Procs -> SUBSET Files] /\ todo \in [Procs -> SUBSET Files]
    /\ backups \in [Procs -> SUBSET Files]
    /\ slow \in [Procs -> SUBSET Files] /\ late \in [Procs -> SUBSET Files]
    /\ alone \in [Procs -> BOOLEAN]
    /\ last \in Procs \cup {NoProc}

(* The run of p is the last that has begun, and no other overlapped.       *)
Lone(p) == last = p /\ alone[p]

OthersIdle == \A p \in Procs : Lone(p) => \A q \in Procs \ {p} : pc[q] = "idle"

(* What the run knows of the files as it found them.                       *)
AsScanned(p) ==
    /\ slow[p] = {} => report[p] = (Full(was[p]) \ tree.dropped) \ accepted[p]
    /\ broken[p] = Unparsed(was[p]) \cup slow[p]
    /\ \A x \in report[p] : x[1] \notin Unparsed(was[p]) \ slow[p]

FixesReported(p) == \A f \in backups[p] : In(report[p], f) # {}

Backed(p) ==
    /\ pc[p] = "fixing" => backups[p] \cap todo[p] = {}
    /\ pc[p] \in {"fixing", "rescanning"} =>
          \A f \in Files : In(was[p], f) = IF f \in backups[p] THEN In(saved[p], f) ELSE In(text, f)
    /\ pc[p] = "restoring" =>
          \A f \in Files : In(was[p], f) = IF f \in todo[p] THEN In(saved[p], f) ELSE In(text, f)

(* A file that both scans gave up says nothing.                            *)
Clear(p, f) ==
    /\ In(Own(text) \ accepted[p], f) \ report[p] = {} \/ f \in slow[p] \cap late[p]
    /\ f \in Unparsed(text) => f \in broken[p]

Rescanned(p) ==
    pc[p] = "rescanning" =>
        /\ tried[p] = text
        /\ ~regressed[p] => \A f \in Files \ todo[p] : Clear(p, f)

Regression(p) ==
    \/ ~(Own(tried[p]) \subseteq report[p] \cup accepted[p])
    \/ ~(Unparsed(tried[p]) \subseteq broken[p])

Reverting(p) == pc[p] = "restoring" \/ (pc[p] = "idle" /\ outcome[p] = "reverted")

Reasoned(p) ==
    /\ pc[p] = "fixing" => ~regressed[p]
    /\ Reverting(p) => regressed[p]
    /\ (pc[p] = "rescanning" \/ Reverting(p)) /\ regressed[p] /\ late[p] = {} => Regression(p)

Settled(p) ==
    pc[p] = "idle" =>
        /\ outcome[p] = "reverted" => text = was[p]
        /\ outcome[p] = "verified" =>
              /\ \A x \in Own(text) :
                    x \in report[p] \cup accepted[p] \/ x[1] \in slow[p] \cap late[p]
              /\ Unparsed(text) \ slow[p] \subseteq Unparsed(was[p])

LoneInv(p) ==
    AsScanned(p) /\ FixesReported(p) /\ Backed(p) /\ Rescanned(p) /\ Reasoned(p) /\ Settled(p)

IInv == Typed /\ OthersIdle /\ \A p \in Procs : Lone(p) => LoneInv(p)

-----------------------------------------------------------------------------
(* Files and findings.                                                     *)

LEMMA TreeForm ==
    ASSUME tree \in Trees
    PROVE  /\ tree.found \subseteq Places /\ tree.dropped \subseteq Places
           /\ tree.brings \subseteq Places \X Places /\ tree.crosses \subseteq Places \X Places
           /\ tree.breaks \subseteq Places
BY TreesAssumption DEF Tree

(* What a scan finds, it finds at a place in a file that can be parsed.    *)
LEMMA FullForm ==
    ASSUME tree \in Trees, NEW t
    PROVE  /\ Own(t) \subseteq Full(t) /\ Full(t) \subseteq Places
           /\ Unparsed(t) \subseteq Files
           /\ \A x \in Full(t) : x[1] \in Files \ Unparsed(t)
<1>1. tree.found \subseteq Places
  BY TreeForm
<1>2. \A R : Brought(R, t) \subseteq Places
  BY DEF Brought
<1>3. Full(t) \subseteq Places
  BY <1>1, <1>2 DEF Own, Full
<1>4. \A x \in Places : x[1] \in Files
  BY DEF Places
<1> QED
  BY <1>3, <1>4 DEF Own, Full, Unparsed

(* A scan that gives up some files has findings of the others only where   *)
(* those can be parsed.                                                    *)
LEMMA FirstScanForm ==
    ASSUME tree \in Trees, NEW behind \in Slow, NEW shown \in Partials
    PROVE  /\ FirstScan(behind, shown) \subseteq Places
           /\ \A x \in FirstScan(behind, shown) : x[1] \notin Unparsed(text) \ behind
<1>1. Own(text) \subseteq Full(text) /\ Full(text) \subseteq Places /\ shown \subseteq Places
  BY FullForm, SlowAssumption
<1>2. \A x \in Full(text) : x[1] \notin Unparsed(text)
  BY FullForm
<1> QED
  BY <1>1, <1>2 DEF FirstScan

(* Two texts with the same fixes in every file are the same.               *)
LEMMA ByFiles ==
    ASSUME NEW S \in SUBSET Places, NEW T \in SUBSET Places, \A f \in Files : In(S, f) = In(T, f)
    PROVE  S = T
<1>1. ASSUME NEW x \in Places
      PROVE  x \in S <=> x \in T
  <2>1. x[1] \in Files
    BY DEF Places
  <2> QED
    BY <2>1 DEF In
<1> QED
  BY <1>1

(* Whether a file can be parsed is a matter of its own fixes.              *)
LEMMA UnparsedByFile ==
    ASSUME NEW t, NEW u, NEW f \in Files, In(t, f) = In(u, f)
    PROVE  f \in Unparsed(t) <=> f \in Unparsed(u)
BY DEF Unparsed, In

LEMMA SameTree ==
    ASSUME tree' = tree
    PROVE  /\ \A t : Own(t)' = Own(t) /\ Full(t)' = Full(t) /\ Unparsed(t)' = Unparsed(t)
<1>1. \A R, t : Brought(R, t)' = Brought(R, t)
  BY DEF Brought
<1>2. \A t : Unparsed(t)' = Unparsed(t)
  BY DEF Unparsed, In
<1> QED
  BY <1>1, <1>2 DEF Own, Full, Brought, Unparsed

-----------------------------------------------------------------------------
(* Types.                                                                  *)

LEMMA TypedBegin ==
    ASSUME Typed, NEW p \in Procs, NEW m \in {"report", "apply", "guarded"}, NEW u \in BOOLEAN,
           NEW behind \in Slow, NEW shown \in Partials, Begin(p, m, u, behind, shown)
    PROVE  Typed'
<1> DEFINE left == (FirstScan(behind, shown) \ tree.dropped) \ baseline
           bad == Unparsed(text) \cup behind
<1>1. left \subseteq Places /\ left \cap baseline = {} /\ bad \subseteq Files /\ behind \subseteq Files
  BY FullForm, FirstScanForm, SlowAssumption DEF Typed, TypeOK
<1>2. /\ accepted' = [accepted EXCEPT ![p] = baseline] /\ report' = [report EXCEPT ![p] = left]
      /\ broken' = [broken EXCEPT ![p] = bad] /\ slow' = [slow EXCEPT ![p] = behind]
      /\ baseline' \in {left, baseline} /\ tree' = tree /\ text' = text /\ tried' = tried
      /\ was' = [was EXCEPT ![p] = text] /\ late' = [late EXCEPT ![p] = {}]
      /\ runs' = runs + 1 /\ last' = p /\ runs < MaxRuns
      /\ backups' = [backups EXCEPT ![p] = {}] /\ saved' = [saved EXCEPT ![p] = {}]
      /\ regressed' = [regressed EXCEPT ![p] = FALSE]
      /\ mode' = [mode EXCEPT ![p] = m]
      /\ pc' = [pc EXCEPT ![p] = IF m = "report" THEN "idle" ELSE "fixing"]
      /\ outcome' = [outcome EXCEPT ![p] = IF m = "report" THEN "reported" ELSE "none"]
      /\ todo' = [todo EXCEPT ![p] = IF m = "report" THEN {} ELSE Files]
  BY DEF Begin
<1> HIDE DEF left, bad
<1>3. runs' \in 0..MaxRuns
  BY <1>2, RunsAssumption DEF Typed, TypeOK
<1>4. alone' \in [Procs -> BOOLEAN]
  BY DEF Begin, Typed
<1>5. \A q \in Procs :
          /\ accepted[q]' \subseteq Places /\ report[q]' \subseteq Places
          /\ report[q]' \cap accepted[q]' = {}
          /\ todo[q]' \subseteq Files /\ broken[q]' \subseteq Files
          /\ backups[q]' \subseteq Files /\ saved[q]' \subseteq backups[q]' \X Lines
          /\ pc[q]' # "idle" => mode[q]' # "report"
          /\ pc[q]' \in {"rescanning", "restoring"} => mode[q]' = "guarded" /\ backups[q]' # {}
  BY <1>1, <1>2 DEF Typed, TypeOK
<1>6. /\ accepted' \in [Procs -> SUBSET Places] /\ report' \in [Procs -> SUBSET Places]
      /\ saved' \in [Procs -> SUBSET Places]
      /\ was' \in [Procs -> SUBSET Places] /\ tried' \in [Procs -> SUBSET Places]
      /\ broken' \in [Procs -> SUBSET Files] /\ todo' \in [Procs -> SUBSET Files]
      /\ backups' \in [Procs -> SUBSET Files]
      /\ slow' \in [Procs -> SUBSET Files] /\ late' \in [Procs -> SUBSET Files]
      /\ last' \in Procs \cup {NoProc}
  BY <1>1, <1>2 DEF Typed, TypeOK
<1>7. /\ tree' \in Trees /\ text' \subseteq Places /\ baseline' \subseteq Places
      /\ pc' \in [Procs -> PCs] /\ outcome' \in [Procs -> Outcomes]
      /\ mode' \in [Procs -> {"report", "apply", "guarded"}]
      /\ regressed' \in [Procs -> BOOLEAN]
  BY <1>1, <1>2 DEF Typed, TypeOK, PCs, Outcomes
<1> QED
  BY <1>3, <1>4, <1>5, <1>6, <1>7 DEF Typed, TypeOK

(* A run that ends, however it does.                                       *)
LEMMA TypedEnds ==
    ASSUME Typed, NEW p \in Procs, NEW how \in Outcomes, Ends(p, how),
           tree' = tree, baseline' = baseline, text' \subseteq Places, tried' \in [Procs -> SUBSET Places],
           UNCHANGED <<run, history>>
    PROVE  Typed'
<1>1. /\ pc' = [pc EXCEPT ![p] = "idle"] /\ todo' = [todo EXCEPT ![p] = {}]
      /\ outcome' = [outcome EXCEPT ![p] = how]
      /\ UNCHANGED <<mode, accepted, report, broken, backups, saved, regressed, runs, was, slow, late, alone, last>>
  BY DEF Ends, run, history
<1>2. /\ pc' \in [Procs -> PCs] /\ outcome' \in [Procs -> Outcomes] /\ todo' \in [Procs -> SUBSET Files]
  BY <1>1 DEF Typed, TypeOK, PCs
<1>3. \A q \in Procs :
          /\ pc[q]' # "idle" => pc[q]' = pc[q]
          /\ todo[q]' \subseteq Files
  BY <1>1 DEF Typed, TypeOK
<1>4. \A q \in Procs :
          /\ accepted[q]' \subseteq Places /\ report[q]' \subseteq Places
          /\ report[q]' \cap accepted[q]' = {}
          /\ todo[q]' \subseteq Files /\ broken[q]' \subseteq Files
          /\ backups[q]' \subseteq Files /\ saved[q]' \subseteq backups[q]' \X Lines
          /\ pc[q]' # "idle" => mode[q]' # "report"
          /\ pc[q]' \in {"rescanning", "restoring"} => mode[q]' = "guarded" /\ backups[q]' # {}
  BY <1>1, <1>3 DEF Typed, TypeOK
<1> QED
  BY <1>1, <1>2, <1>4 DEF Typed, TypeOK

LEMMA TypedApply ==
    ASSUME Typed, NEW p \in Procs, NEW f \in Files, NEW how \in {"written", "unwritten", "unread"},
           Apply(p, f, how)
    PROVE  Typed'
<1> DEFINE new == how # "unread" /\ Fixes(p, f) # {}
           kept == IF new THEN backups[p] \cup {f} ELSE backups[p]
           texts == IF new THEN saved[p] \cup In(text, f) ELSE saved[p]
<1>1. /\ pc[p] = "fixing" /\ f \in todo[p]
      /\ todo' = [todo EXCEPT ![p] = @ \ {f}]
      /\ text' = IF how = "written" THEN text \cup Fixes(p, f) ELSE text
      /\ backups' = [backups EXCEPT ![p] = kept] /\ saved' = [saved EXCEPT ![p] = texts]
      /\ UNCHANGED <<tree, baseline, pc, mode, accepted, report, broken, regressed, outcome, tried>>
      /\ UNCHANGED <<runs, was, slow, late, alone, last>>
  BY DEF Apply, IsFirst, history
<1>2. text' \subseteq Places
  BY <1>1 DEF Fixes, In, Typed, TypeOK
<1>3. In(text, f) \subseteq {f} \X Lines /\ In(text, f) \subseteq Places
  BY DEF In, Typed, TypeOK, Places
<1>4. kept \subseteq Files /\ texts \subseteq kept \X Lines /\ texts \subseteq Places
  BY <1>3 DEF Typed, TypeOK, Places
<1> HIDE DEF kept, texts
<1>5. \A q \in Procs :
          /\ accepted[q]' \subseteq Places /\ report[q]' \subseteq Places
          /\ report[q]' \cap accepted[q]' = {}
          /\ todo[q]' \subseteq Files /\ broken[q]' \subseteq Files
          /\ backups[q]' \subseteq Files /\ saved[q]' \subseteq backups[q]' \X Lines
          /\ pc[q]' # "idle" => mode[q]' # "report"
          /\ pc[q]' \in {"rescanning", "restoring"} => mode[q]' = "guarded" /\ backups[q]' # {}
  BY <1>1, <1>4 DEF Typed, TypeOK
<1>6. /\ saved' \in [Procs -> SUBSET Places] /\ todo' \in [Procs -> SUBSET Files]
      /\ backups' \in [Procs -> SUBSET Files]
  BY <1>1, <1>4 DEF Typed, TypeOK
<1> QED
  BY <1>1, <1>2, <1>5, <1>6 DEF Typed, TypeOK

LEMMA TypedApplied ==
    ASSUME Typed, NEW p \in Procs, Applied(p)
    PROVE  Typed'
<1>1. tried' \in [Procs -> SUBSET Places] /\ tree' = tree /\ baseline' = baseline /\ text' = text
  BY DEF Applied, Typed, TypeOK
<1>2. UNCHANGED <<run, history>> /\ pc[p] = "fixing"
  BY DEF Applied
<1>3. CASE Ends(p, "fixed") \/ Ends(p, "no-fixes")
  BY <1>1, <1>2, <1>3, TypedEnds DEF Outcomes, Typed, TypeOK
<1>4. CASE /\ mode[p] # "apply" /\ backups[p] # {}
           /\ pc' = [pc EXCEPT ![p] = "rescanning"] /\ todo' = [todo EXCEPT ![p] = Files]
           /\ UNCHANGED outcome
  <2>1. UNCHANGED <<mode, accepted, report, broken, backups, saved, regressed, runs, was, slow, late, alone, last>>
    BY <1>2 DEF run, history
  <2>2. pc' \in [Procs -> PCs] /\ todo' \in [Procs -> SUBSET Files]
    BY <1>4 DEF Typed, TypeOK, PCs
  <2>3. mode[p] = "guarded"
    BY <1>2, <1>4 DEF Typed, TypeOK
  <2>4. \A q \in Procs :
          /\ accepted[q]' \subseteq Places /\ report[q]' \subseteq Places
          /\ report[q]' \cap accepted[q]' = {}
          /\ todo[q]' \subseteq Files /\ broken[q]' \subseteq Files
          /\ backups[q]' \subseteq Files /\ saved[q]' \subseteq backups[q]' \X Lines
          /\ pc[q]' # "idle" => mode[q]' # "report"
          /\ pc[q]' \in {"rescanning", "restoring"} => mode[q]' = "guarded" /\ backups[q]' # {}
    BY <1>2, <1>4, <2>1, <2>3 DEF Typed, TypeOK
  <2> QED
    BY <1>1, <1>4, <2>1, <2>2, <2>4 DEF Typed, TypeOK
<1> QED
  BY <1>3, <1>4 DEF Applied

LEMMA TypedRescan ==
    ASSUME Typed, NEW p \in Procs, NEW f \in Files, NEW ok \in BOOLEAN, NEW shown \in Partials,
           Rescan(p, f, ok, shown)
    PROVE  Typed'
<1> DEFINE overdue == In(shown \ accepted[p], f) \ report[p] # {} \/ f \notin broken[p]
<1>1. /\ todo' = [todo EXCEPT ![p] = @ \ {f}]
      /\ regressed' = [regressed EXCEPT ![p] = @ \/ (IF ok THEN News(p, f) ELSE overdue)]
      /\ late' = [late EXCEPT ![p] = IF ok THEN @ ELSE @ \cup {f}]
      /\ UNCHANGED <<tree, text, baseline, pc, mode, accepted, report, broken, backups, saved,
                     outcome, runs, was, slow, alone, last, tried>>
  BY DEF Rescan
<1>2. todo' \in [Procs -> SUBSET Files]
  BY <1>1 DEF Typed
<1>3. regressed' \in [Procs -> BOOLEAN] /\ late' \in [Procs -> SUBSET Files]
  BY <1>1 DEF Typed, TypeOK
<1>4. \A q \in Procs : todo[q]' \subseteq Files
  BY <1>2
<1> QED
  BY <1>1, <1>2, <1>3, <1>4 DEF Typed, TypeOK

LEMMA TypedDecide ==
    ASSUME Typed, NEW p \in Procs, Decide(p)
    PROVE  Typed'
<1>1. /\ UNCHANGED <<tree, text, baseline, run, history, tried>>
      /\ pc[p] = "rescanning"
  BY DEF Decide
<1>2. CASE Ends(p, "verified")
  BY <1>1, <1>2, TypedEnds DEF Outcomes, Typed, TypeOK
<1>3. CASE /\ pc' = [pc EXCEPT ![p] = "restoring"] /\ todo' = [todo EXCEPT ![p] = backups[p]]
           /\ UNCHANGED outcome
  <2>1. UNCHANGED <<mode, accepted, report, broken, backups, saved, regressed, runs, was, slow, late, alone, last>>
    BY <1>1 DEF run, history
  <2>2. pc' \in [Procs -> PCs] /\ todo' \in [Procs -> SUBSET Files]
    BY <1>3 DEF Typed, TypeOK, PCs
  <2>3. \A q \in Procs :
          /\ accepted[q]' \subseteq Places /\ report[q]' \subseteq Places
          /\ report[q]' \cap accepted[q]' = {}
          /\ todo[q]' \subseteq Files /\ broken[q]' \subseteq Files
          /\ backups[q]' \subseteq Files /\ saved[q]' \subseteq backups[q]' \X Lines
          /\ pc[q]' # "idle" => mode[q]' # "report"
          /\ pc[q]' \in {"rescanning", "restoring"} => mode[q]' = "guarded" /\ backups[q]' # {}
    BY <1>1, <1>3, <2>1 DEF Typed, TypeOK
  <2> QED
    BY <1>1, <1>3, <2>1, <2>2, <2>3 DEF Typed, TypeOK
<1> QED
  BY <1>2, <1>3 DEF Decide

LEMMA TypedRestore ==
    ASSUME Typed, NEW p \in Procs, NEW f \in Files, NEW ok \in BOOLEAN, Restore(p, f, ok)
    PROVE  Typed'
<1>1. /\ UNCHANGED <<tree, baseline, run, history, tried>>
      /\ pc[p] = "restoring"
  BY DEF Restore
<1>2. text' \subseteq Places
  BY DEF Restore, In, Typed, TypeOK
<1>3. CASE Ends(p, "reverted") \/ Ends(p, "raised")
  BY <1>1, <1>2, <1>3, TypedEnds DEF Outcomes, Typed, TypeOK
<1>4. CASE todo' = [todo EXCEPT ![p] = @ \ {f}] /\ UNCHANGED <<pc, outcome>>
  <2>1. UNCHANGED <<mode, accepted, report, broken, backups, saved, regressed, runs, was, slow, late, alone, last>>
    BY <1>1 DEF run, history
  <2>2. todo' \in [Procs -> SUBSET Files] /\ \A q \in Procs : todo[q]' \subseteq Files
    BY <1>4 DEF Typed
  <2> QED
    BY <1>1, <1>2, <1>4, <2>1, <2>2 DEF Typed, TypeOK
<1> QED
  BY <1>3, <1>4 DEF Restore

-----------------------------------------------------------------------------
(* The run that is alone.                                                  *)

(* A run begins: it has just scanned the files as they are.                *)
LEMMA LoneBegin ==
    ASSUME Typed, NEW p \in Procs, NEW m \in {"report", "apply", "guarded"}, NEW u \in BOOLEAN,
           NEW behind \in Slow, NEW shown \in Partials, Begin(p, m, u, behind, shown)
    PROVE  LoneInv(p)'
<1>1. /\ tree' = tree /\ text' = text /\ was[p]' = text /\ accepted[p]' = baseline
      /\ report[p]' = (FirstScan(behind, shown) \ tree.dropped) \ baseline
      /\ broken[p]' = Unparsed(text) \cup behind /\ slow[p]' = behind
      /\ backups[p]' = {}
      /\ regressed[p]' = FALSE
      /\ \/ pc[p]' = "fixing"
         \/ pc[p]' = "idle" /\ outcome[p]' = "reported"
  BY DEF Begin, Typed, TypeOK
<1>2. \A x \in report[p]' : x[1] \notin Unparsed(text) \ behind
  BY <1>1, FirstScanForm DEF Typed, TypeOK
<1>3. behind = {} => FirstScan(behind, shown) = Full(text)
  BY DEF FirstScan
<1>4. Full(was[p])' = Full(text) /\ Unparsed(was[p])' = Unparsed(text)
  BY <1>1, SameTree
<1>5. AsScanned(p)'
  BY <1>1, <1>2, <1>3, <1>4 DEF AsScanned
<1> QED
  BY <1>1, <1>5 DEF LoneInv, FixesReported, Backed, Rescanned, Reasoned, Reverting, Settled

(* A file is fixed: what is kept of it is what the run found.              *)
LEMMA LoneApply ==
    ASSUME Typed, NEW p \in Procs, NEW f \in Files, NEW how \in {"written", "unwritten", "unread"},
           Apply(p, f, how), LoneInv(p)
    PROVE  LoneInv(p)'
<1> DEFINE new == how # "unread" /\ Fixes(p, f) # {}
<1>1. /\ pc[p] = "fixing" /\ pc[p]' = "fixing" /\ f \in todo[p]
      /\ todo[p]' = todo[p] \ {f}
      /\ text' = IF how = "written" THEN text \cup Fixes(p, f) ELSE text
      /\ backups[p]' = IF new THEN backups[p] \cup {f} ELSE backups[p]
      /\ saved[p]' = IF new THEN saved[p] \cup In(text, f) ELSE saved[p]
      /\ tree' = tree /\ UNCHANGED <<report, accepted, broken, slow, was, regressed>>
  BY DEF Apply, IsFirst, history, Typed, TypeOK
<1>2. Backed(p)
  BY DEF LoneInv
<1>3. backups[p]' \cap todo[p]' = {} /\ f \notin backups[p]
  BY <1>1, <1>2 DEF Backed
<1>4. Fixes(p, f) = {x \in Fixes(p, f) : x[1] = f}
  BY DEF Fixes, In
<1>5. ASSUME NEW g \in Files
      PROVE  In(was[p], g) = IF g \in backups[p]' THEN In(saved[p]', g) ELSE In(text', g)
  <2>1. In(was[p], g) = IF g \in backups[p] THEN In(saved[p], g) ELSE In(text, g)
    BY <1>1, <1>2 DEF Backed
  <2>2. CASE g # f
    <3>1. In(text', g) = In(text, g)
      BY <1>1, <1>4, <2>2 DEF In
    <3>2. In(saved[p]', g) = In(saved[p], g)
      BY <1>1, <2>2 DEF In
    <3> QED
      BY <1>1, <2>1, <2>2, <3>1, <3>2
  <2>3. CASE g = f /\ new
    <3>1. In(saved[p], f) = {}
      BY <1>3 DEF In, Typed, TypeOK
    <3>2. In(saved[p]', f) = In(text, f)
      BY <1>1, <2>3, <3>1 DEF In
    <3> QED
      BY <1>1, <1>3, <2>1, <2>3, <3>2
  <2>4. CASE g = f /\ ~new
    <3>1. text' = text
      BY <1>1, <2>4
    <3> QED
      BY <1>1, <1>3, <2>1, <2>4, <3>1
  <2> QED
    BY <2>2, <2>3, <2>4
<1>6. Backed(p)'
  BY <1>1, <1>3, <1>5 DEF Backed, In
<1>7. FixesReported(p)'
  BY <1>1 DEF LoneInv, FixesReported, Fixes, In
<1>8. AsScanned(p)'
  BY <1>1, SameTree DEF LoneInv, AsScanned
<1> QED
  BY <1>1, <1>6, <1>7, <1>8 DEF LoneInv, Rescanned, Reasoned, Reverting, Settled

(* A run that ends without a claim about the files.                        *)
LEMMA LoneEnds ==
    ASSUME Typed, NEW p \in Procs, NEW how \in Outcomes \ {"reverted", "verified"}, Ends(p, how),
           UNCHANGED <<tree, run, history>>, LoneInv(p)
    PROVE  LoneInv(p)'
<1>1. /\ pc[p]' = "idle" /\ outcome[p]' = how /\ tree' = tree
      /\ UNCHANGED <<report, accepted, broken, slow, was, backups>>
  BY DEF Ends, run, history, Typed, TypeOK
<1>2. AsScanned(p)'
  BY <1>1, SameTree DEF LoneInv, AsScanned
<1>3. FixesReported(p)'
  BY <1>1 DEF LoneInv, FixesReported, In
<1> QED
  BY <1>1, <1>2, <1>3 DEF LoneInv, Backed, Rescanned, Reasoned, Reverting, Settled

LEMMA LoneApplied ==
    ASSUME Typed, NEW p \in Procs, Applied(p), LoneInv(p)
    PROVE  LoneInv(p)'
<1>1. /\ UNCHANGED <<tree, text, run, history>> /\ tried[p]' = text /\ pc[p] = "fixing"
  BY DEF Applied, Typed
<1>2. CASE Ends(p, "fixed") \/ Ends(p, "no-fixes")
  BY <1>1, <1>2, LoneEnds DEF Outcomes
<1>3. CASE /\ pc' = [pc EXCEPT ![p] = "rescanning"] /\ todo' = [todo EXCEPT ![p] = Files]
  <2>1. /\ pc[p]' = "rescanning" /\ todo[p]' = Files /\ text' = text /\ tree' = tree
        /\ UNCHANGED <<report, accepted, broken, slow, was, backups, saved, regressed, late>>
    BY <1>1, <1>3 DEF run, history, Typed, TypeOK
  <2>2. AsScanned(p)'
    BY <2>1, SameTree DEF LoneInv, AsScanned
  <2>3. FixesReported(p)' /\ Backed(p)'
    BY <1>1, <2>1 DEF LoneInv, FixesReported, Backed, In
  <2>4. ~regressed[p]
    BY <1>1 DEF LoneInv, Reasoned
  <2> QED
    BY <1>1, <2>1, <2>2, <2>3, <2>4 DEF LoneInv, Rescanned, Reasoned, Reverting, Settled
<1> QED
  BY <1>2, <1>3 DEF Applied

(* A file is scanned again.  A scan that times out counts as a file that   *)
(* cannot be parsed: if the first scan could not parse it either, the file *)
(* has no fixes and still cannot be parsed.                                *)
LEMMA LoneRescan ==
    ASSUME Typed, NEW p \in Procs, NEW f \in Files, NEW ok \in BOOLEAN, NEW shown \in Partials,
           Rescan(p, f, ok, shown), LoneInv(p)
    PROVE  LoneInv(p)'
<1> DEFINE overdue == In(shown \ accepted[p], f) \ report[p] # {} \/ f \notin broken[p]
<1>1. /\ pc[p] = "rescanning" /\ pc[p]' = "rescanning" /\ f \in todo[p]
      /\ todo[p]' = todo[p] \ {f}
      /\ regressed[p]' = (regressed[p] \/ (IF ok THEN News(p, f) ELSE overdue))
      /\ late[p]' = IF ok THEN late[p] ELSE late[p] \cup {f}
      /\ UNCHANGED <<tree, text, report, accepted, broken, slow, was, backups, saved, tried>>
  BY DEF Rescan, IsFirst, Typed, TypeOK
<1>2. AsScanned(p)'
  BY <1>1, SameTree DEF LoneInv, AsScanned
<1>3. FixesReported(p)' /\ Backed(p)'
  BY <1>1 DEF LoneInv, FixesReported, Backed, In
<1>4. \A g \in Files : Clear(p, g) => Clear(p, g)'
  BY <1>1, SameTree DEF Clear, In
<1>5. ASSUME f \in broken[p] \ slow[p]
      PROVE  Clear(p, f)
  <2>1. f \in Unparsed(was[p]) \ slow[p]
    BY <1>5 DEF LoneInv, AsScanned
  <2>2. In(report[p], f) = {}
    BY <2>1 DEF LoneInv, AsScanned, In
  <2>3. f \notin backups[p]
    BY <2>2 DEF LoneInv, FixesReported
  <2>4. In(was[p], f) = In(text, f)
    BY <1>1, <2>3 DEF LoneInv, Backed
  <2>5. f \in Unparsed(text)
    BY <2>1, <2>4, UnparsedByFile
  <2>6. In(Own(text), f) = {}
    BY <2>5, FullForm DEF In, Typed, TypeOK
  <2> QED
    BY <1>5, <2>6 DEF Clear, In
<1>6. Rescanned(p)'
  <2>1. tried[p]' = text'
    BY <1>1 DEF LoneInv, Rescanned
  <2>2. ASSUME ~regressed[p]'
        PROVE  Clear(p, f)'
    <3>1. CASE ok
      <4>1. ~News(p, f)
        BY <1>1, <2>2, <3>1
      <4> QED
        BY <1>4, <4>1 DEF Clear, News
    <3>2. CASE ~ok /\ f \in slow[p]
      <4>1. f \in slow[p]' \cap late[p]' /\ f \in broken[p]'
        BY <1>1, <2>2, <3>2
      <4> QED
        BY <4>1 DEF Clear
    <3>3. CASE ~ok /\ f \notin slow[p]
      <4>1. f \in broken[p]
        BY <1>1, <2>2, <3>3
      <4> QED
        BY <1>4, <1>5, <3>3, <4>1
    <3> QED
      BY <3>1, <3>2, <3>3
  <2>3. ASSUME ~regressed[p]', NEW g \in Files \ todo[p]'
        PROVE  Clear(p, g)'
    <3>1. CASE g = f
      BY <2>2, <2>3, <3>1
    <3>2. CASE g # f
      <4>1. ~regressed[p] /\ g \in Files \ todo[p]
        BY <1>1, <2>3, <3>2
      <4> QED
        BY <1>1, <1>4, <4>1 DEF LoneInv, Rescanned
    <3> QED
      BY <3>1, <3>2
  <2> QED
    BY <2>1, <2>3 DEF Rescanned
<1>7. Reasoned(p)'
  <2>1. tried[p] = text
    BY <1>1 DEF LoneInv, Rescanned
  <2>2. ASSUME News(p, f) PROVE Regression(p)
    BY <2>1, <2>2 DEF News, Regression, In
  <2>3. Regression(p)' <=> Regression(p)
    BY <1>1, SameTree DEF Regression
  <2>4. ASSUME regressed[p]', late[p]' = {} PROVE Regression(p)
    <3>1. ok /\ late[p] = {} /\ (regressed[p] \/ News(p, f))
      BY <1>1, <2>4
    <3> QED
      BY <1>1, <2>2, <3>1 DEF LoneInv, Reasoned
  <2> QED
    BY <1>1, <2>3, <2>4 DEF Reasoned, Reverting
<1>8. Settled(p)'
  BY <1>1 DEF Settled
<1> QED
  BY <1>2, <1>3, <1>6, <1>7, <1>8 DEF LoneInv

LEMMA LoneDecide ==
    ASSUME Typed, NEW p \in Procs, Decide(p), LoneInv(p)
    PROVE  LoneInv(p)'
<1>1. /\ pc[p] = "rescanning" /\ todo[p] = {}
      /\ UNCHANGED <<tree, text, tried>>
      /\ UNCHANGED <<report, accepted, broken, slow, was, backups, saved, regressed, late>>
  BY DEF Decide, run, history
<1>2. AsScanned(p)'
  BY <1>1, SameTree DEF LoneInv, AsScanned
<1>3. FixesReported(p)'
  BY <1>1 DEF LoneInv, FixesReported, In
<1>4. Regression(p)' <=> Regression(p)
  BY <1>1, SameTree DEF Regression
<1>5. CASE regressed[p]
  <2>1. pc[p]' = "restoring" /\ todo[p]' = backups[p]
    BY <1>5 DEF Decide, Typed, TypeOK
  <2>2. Backed(p)'
    BY <1>1, <2>1 DEF LoneInv, Backed, In
  <2>3. Reasoned(p)'
    BY <1>1, <1>4, <1>5, <2>1 DEF LoneInv, Reasoned, Reverting
  <2> QED
    BY <1>2, <1>3, <2>1, <2>2, <2>3 DEF LoneInv, Rescanned, Settled
<1>6. CASE ~regressed[p]
  <2>1. pc[p]' = "idle" /\ outcome[p]' = "verified"
    BY <1>6 DEF Decide, Ends, Typed, TypeOK
  <2>2. \A g \in Files : Clear(p, g)
    BY <1>1, <1>6 DEF LoneInv, Rescanned
  <2>3. \A x \in Own(text) : x \in report[p] \cup accepted[p] \/ x[1] \in slow[p] \cap late[p]
    <3>1. \A x \in Own(text) : x[1] \in Files
      BY FullForm DEF Typed, TypeOK
    <3> QED
      BY <2>2, <3>1 DEF Clear, In
  <2>4. Unparsed(text) \ slow[p] \subseteq Unparsed(was[p])
    <3>1. Unparsed(text) \subseteq Files
      BY FullForm DEF Typed, TypeOK
    <3> QED
      BY <2>2, <3>1 DEF Clear, LoneInv, AsScanned
  <2>5. /\ Own(text)' = Own(text) /\ Unparsed(text)' = Unparsed(text)
        /\ Unparsed(was[p])' = Unparsed(was[p])
    BY <1>1, SameTree
  <2>6. Settled(p)'
    BY <1>1, <2>1, <2>3, <2>4, <2>5 DEF Settled
  <2> QED
    BY <1>2, <1>3, <2>1, <2>6 DEF LoneInv, Backed, Rescanned, Reasoned, Reverting
<1> QED
  BY <1>5, <1>6

(* A file is put back; after the last one all are as they were.            *)
LEMMA LoneRestore ==
    ASSUME Typed, NEW p \in Procs, NEW f \in Files, NEW ok \in BOOLEAN, Restore(p, f, ok), LoneInv(p)
    PROVE  LoneInv(p)'
<1>1. /\ pc[p] = "restoring" /\ f \in todo[p]
      /\ UNCHANGED <<tree, run, history, tried>>
      /\ UNCHANGED <<report, accepted, broken, slow, was, backups, saved, regressed, late>>
  BY DEF Restore, IsFirst, run, history
<1>2. AsScanned(p)'
  BY <1>1, SameTree DEF LoneInv, AsScanned
<1>3. FixesReported(p)'
  BY <1>1 DEF LoneInv, FixesReported, In
<1>4. Regression(p)' <=> Regression(p)
  BY <1>1, SameTree DEF Regression
<1>5. CASE ~ok
  <2>1. Ends(p, "raised") /\ text' = text
    BY <1>5 DEF Restore
  <2> QED
    BY <1>1, <2>1, LoneEnds DEF Outcomes
<1>6. CASE ok
  <2>1. text' = (text \ In(text, f)) \cup In(saved[p], f)
    BY <1>6 DEF Restore
  <2>2. ASSUME NEW g \in Files
        PROVE  In(was[p], g) = IF g \in todo[p] \ {f} THEN In(saved[p], g) ELSE In(text', g)
    <3>1. In(was[p], g) = IF g \in todo[p] THEN In(saved[p], g) ELSE In(text, g)
      BY <1>1 DEF LoneInv, Backed
    <3>2. CASE g = f
      BY <1>1, <2>1, <3>1, <3>2 DEF In
    <3>3. CASE g # f
      <4>1. In(text', g) = In(text, g)
        BY <2>1, <3>3 DEF In
      <4> QED
        BY <3>1, <3>3, <4>1
    <3> QED
      BY <3>2, <3>3
  <2>3. CASE todo[p] = {f}
    <3>1. pc[p]' = "idle" /\ outcome[p]' = "reverted"
      BY <1>6, <2>3 DEF Restore, Ends, Typed, TypeOK
    <3>2. text' \subseteq Places /\ was[p] \subseteq Places
      BY <2>1 DEF In, Typed, TypeOK
    <3>3. text' = was[p]
      <4>1. \A g \in Files : In(was[p], g) = In(text', g)
        BY <2>2, <2>3
      <4> QED
        BY <3>2, <4>1, ByFiles
    <3>4. Settled(p)'
      BY <1>1, <3>1, <3>3 DEF Settled
    <3>5. Reasoned(p)'
      BY <1>1, <1>4, <3>1 DEF LoneInv, Reasoned, Reverting
    <3> QED
      BY <1>2, <1>3, <3>1, <3>4, <3>5 DEF LoneInv, Backed, Rescanned
  <2>4. CASE todo[p] # {f}
    <3>1. pc[p]' = "restoring" /\ todo[p]' = todo[p] \ {f}
      BY <1>1, <1>6, <2>4 DEF Restore, Typed, TypeOK
    <3>2. Backed(p)'
      BY <1>1, <2>2, <3>1 DEF Backed, In
    <3>3. Reasoned(p)'
      BY <1>1, <1>4, <3>1 DEF LoneInv, Reasoned, Reverting
    <3> QED
      BY <1>2, <1>3, <3>1, <3>2, <3>3 DEF LoneInv, Rescanned, Settled
  <2> QED
    BY <2>3, <2>4
<1> QED
  BY <1>5, <1>6

-----------------------------------------------------------------------------
(* All the runs.                                                           *)

LEMMA InitInv == Init => IInv
<1> SUFFICES ASSUME Init PROVE IInv
  OBVIOUS
<1>1. Typed
  BY BaselinesAssumption, RunsAssumption DEF Init, Typed, TypeOK, PCs, Outcomes
<1>2. \A p \in Procs : ~Lone(p)
  BY NoProcAssumption DEF Init, Lone
<1> QED
  BY <1>1, <1>2 DEF IInv, OthersIdle

(* When a run begins no earlier one is the last any more, and it is alone  *)
(* only if no other is under way.                                          *)
LEMMA BeginInv ==
    ASSUME IInv, NEW p \in Procs, NEW m \in {"report", "apply", "guarded"}, NEW u \in BOOLEAN,
           NEW behind \in Slow, NEW shown \in Partials, Begin(p, m, u, behind, shown)
    PROVE  IInv'
<1>1. Typed'
  BY TypedBegin DEF IInv
<1>2. \A q \in Procs : Lone(q)' => q = p
  BY DEF Lone, Begin
<1>3. LoneInv(p)'
  BY LoneBegin DEF IInv
<1>4. ASSUME Lone(p)', NEW q \in Procs \ {p}
      PROVE  pc[q]' = "idle"
  <2>1. alone[p]' = ({r \in Procs \ {p} : pc[r] # "idle"} = {})
    BY DEF Begin
  <2>2. pc[q] = "idle"
    BY <1>4, <2>1 DEF Lone
  <2> QED
    BY <2>2 DEF Begin, IInv, Typed, TypeOK
<1> QED
  BY <1>1, <1>2, <1>3, <1>4 DEF IInv, OthersIdle

(* A step of a run that is under way says nothing of another that is alone:*)
(* there is none.                                                          *)
LEMMA RunInv ==
    ASSUME IInv, NEW p \in Procs, pc[p] # "idle", Typed',
           UNCHANGED <<alone, last>>, \A q \in Procs \ {p} : pc[q]' = pc[q],
           Lone(p) => LoneInv(p)'
    PROVE  IInv'
<1>1. \A q \in Procs : Lone(q)' <=> Lone(q)
  BY DEF Lone
<1>2. \A q \in Procs : Lone(q) => q = p
  BY DEF IInv, OthersIdle
<1> QED
  BY <1>1, <1>2 DEF IInv, OthersIdle

LEMMA StepInv == IInv /\ [Next]_vars => IInv'
<1> SUFFICES ASSUME IInv, [Next]_vars PROVE IInv'
  OBVIOUS
<1> USE DEF IInv
<1>1. ASSUME NEW p \in Procs, NEW m \in {"report", "apply", "guarded"}, NEW u \in BOOLEAN,
             NEW behind \in Slow, NEW shown \in Partials, Begin(p, m, u, behind, shown)
      PROVE  IInv'
  BY <1>1, BeginInv
<1>2. ASSUME NEW p \in Procs, Applied(p)
      PROVE  IInv'
  <2>1. pc[p] # "idle" /\ UNCHANGED <<alone, last>> /\ \A q \in Procs \ {p} : pc[q]' = pc[q]
    BY <1>2 DEF Applied, Ends, history, Typed, TypeOK
  <2> QED
    BY <1>2, <2>1, TypedApplied, LoneApplied, RunInv
<1>3. ASSUME NEW p \in Procs, Decide(p)
      PROVE  IInv'
  <2>1. pc[p] # "idle" /\ UNCHANGED <<alone, last>> /\ \A q \in Procs \ {p} : pc[q]' = pc[q]
    BY <1>3 DEF Decide, Ends, history, Typed, TypeOK
  <2> QED
    BY <1>3, <2>1, TypedDecide, LoneDecide, RunInv
<1>4. ASSUME NEW p \in Procs, NEW f \in Files, NEW how \in {"written", "unwritten", "unread"}, Apply(p, f, how)
      PROVE  IInv'
  <2>1. pc[p] # "idle" /\ UNCHANGED <<alone, last>> /\ \A q \in Procs \ {p} : pc[q]' = pc[q]
    BY <1>4 DEF Apply, history
  <2> QED
    BY <1>4, <2>1, TypedApply, LoneApply, RunInv
<1>5. ASSUME NEW p \in Procs, NEW f \in Files, Undecodable(p, f)
      PROVE  IInv'
  <2>1. pc[p] # "idle" /\ UNCHANGED <<alone, last>> /\ \A q \in Procs \ {p} : pc[q]' = pc[q]
    BY <1>5 DEF Undecodable, Ends, history, Typed, TypeOK
  <2>2. Ends(p, "raised") /\ UNCHANGED <<tree, text, baseline, run, history, tried>>
    BY <1>5 DEF Undecodable
  <2>3. Typed'
    BY <2>2, TypedEnds DEF Outcomes, Typed, TypeOK
  <2> QED
    BY <2>1, <2>2, <2>3, LoneEnds, RunInv DEF Outcomes
<1>6. ASSUME NEW p \in Procs, NEW f \in Files, NEW ok \in BOOLEAN, NEW shown \in Partials,
           Rescan(p, f, ok, shown)
      PROVE  IInv'
  <2>1. pc[p] # "idle" /\ UNCHANGED <<alone, last>> /\ \A q \in Procs \ {p} : pc[q]' = pc[q]
    BY <1>6 DEF Rescan
  <2> QED
    BY <1>6, <2>1, TypedRescan, LoneRescan, RunInv
<1>7. ASSUME NEW p \in Procs, NEW f \in Files, NEW ok \in BOOLEAN, Restore(p, f, ok)
      PROVE  IInv'
  <2>1. pc[p] # "idle" /\ UNCHANGED <<alone, last>> /\ \A q \in Procs \ {p} : pc[q]' = pc[q]
    BY <1>7 DEF Restore, Ends, history, Typed, TypeOK
  <2> QED
    BY <1>7, <2>1, TypedRestore, LoneRestore, RunInv
<1>8. ASSUME NEW p \in Procs, Kill(p)
      PROVE  IInv'
  <2>1. pc[p] # "idle" /\ UNCHANGED <<alone, last>> /\ \A q \in Procs \ {p} : pc[q]' = pc[q]
    BY <1>8 DEF Kill, Ends, history, Typed, TypeOK
  <2>2. Ends(p, "killed") /\ UNCHANGED <<tree, text, baseline, run, history, tried>>
    BY <1>8 DEF Kill
  <2>3. Typed'
    BY <2>2, TypedEnds DEF Outcomes, Typed, TypeOK
  <2> QED
    BY <2>1, <2>2, <2>3, LoneEnds, RunInv DEF Outcomes
<1>9. CASE UNCHANGED vars
  <2>1. UNCHANGED <<tree, text, baseline, pc, todo, outcome, tried>>
    BY <1>9 DEF vars
  <2>2. UNCHANGED <<mode, accepted, report, broken, backups, saved, regressed, runs, was, slow, late, alone, last>>
    BY <1>9 DEF vars, run, history
  <2>3. Typed' /\ OthersIdle' /\ \A p \in Procs : Lone(p)' <=> Lone(p)
    BY <2>1, <2>2 DEF Typed, TypeOK, OthersIdle, Lone
  <2>4. ASSUME NEW p \in Procs, LoneInv(p)
        PROVE  LoneInv(p)'
    <3>1. AsScanned(p)' /\ Settled(p)' /\ (Regression(p)' <=> Regression(p))
      BY <2>1, <2>2, <2>4, SameTree DEF LoneInv, AsScanned, Settled, Regression
    <3>2. FixesReported(p)' /\ Backed(p)' /\ Reasoned(p)'
      BY <2>1, <2>2, <2>4, <3>1 DEF LoneInv, FixesReported, Backed, Reasoned, Reverting, In
    <3>3. \A f : Clear(p, f)' <=> Clear(p, f)
      BY <2>1, <2>2, SameTree DEF Clear, In
    <3>4. Rescanned(p)'
      BY <2>1, <2>2, <2>4, <3>3 DEF LoneInv, Rescanned
    <3> QED
      BY <3>1, <3>2, <3>4 DEF LoneInv
  <2> QED
    BY <2>3, <2>4
<1> QED
  BY <1>1, <1>2, <1>3, <1>4, <1>5, <1>6, <1>7, <1>8, <1>9 DEF Next, Step

LEMMA Invariance == Spec => []IInv
BY InitInv, StepInv, PTL DEF Spec

-----------------------------------------------------------------------------
(* What a run keeps has the form the revert relies on.                     *)
THEOREM TypeCorrect == Spec => []TypeOK
<1>1. IInv => TypeOK
  BY DEF IInv, Typed
<1> QED
  BY <1>1, Invariance, PTL

(* A guarded run that no other overlaps and that says it reverted leaves   *)
(* every file as it found it, whatever could not be read or written.       *)
THEOREM RevertedAsBeforeHolds == Spec => []RevertedAsBefore
<1>1. IInv => RevertedAsBefore
  BY DEF IInv, RevertedAsBefore, Since, Lone, LoneInv, Settled
<1> QED
  BY <1>1, Invariance, PTL

(* One that says its fixes are verified leaves no finding that it did not  *)
(* report and the baseline does not accept, and breaks no file, among the  *)
(* files whose scans did not time out.                                     *)
THEOREM VerifiedNothingNewHolds == Spec => []VerifiedNothingNew
<1>1. IInv => VerifiedNothingNew
  BY DEF IInv, VerifiedNothingNew, Since, Lone, LoneInv, Settled
<1> QED
  BY <1>1, Invariance, PTL

(* One that reverts does so because its fixes brought a finding or broke a *)
(* file, unless a scan timed out or a finding is one that only the first   *)
(* scan drops.                                                             *)
THEOREM RevertHasReasonHolds == Spec => []RevertHasReason
<1>1. ASSUME IInv, NEW p \in Procs, Since(p, "reverted"), slow[p] = {}, late[p] = {},
             Own(tried[p]) \cap tree.dropped = {}
      PROVE  \/ ~(Own(tried[p]) \subseteq Full(was[p]))
             \/ ~(Unparsed(tried[p]) \subseteq Unparsed(was[p]))
  <2>1. AsScanned(p) /\ Regression(p)
    BY <1>1 DEF IInv, Since, Lone, LoneInv, Reasoned, Reverting
  <2> QED
    BY <1>1, <2>1 DEF AsScanned, Regression
<1>2. IInv => RevertHasReason
  BY <1>1 DEF RevertHasReason
<1> QED
  BY <1>2, Invariance, PTL
=============================================================================
