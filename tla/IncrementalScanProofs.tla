----------------------- MODULE IncrementalScanProofs -----------------------
(***************************************************************************)
(* When no run crashes and nobody edits during one, the cache serves only  *)
(* findings of the text a file has: for any tree, any import relation, any *)
(* analyses that fail and any files deleted between runs.  The invariant   *)
(* says why: the findings row follows the hash row except for the one file *)
(* cur whose two rows the update loop is between, and there the result to  *)
(* be stored is of the text just hashed.                                   *)
(***************************************************************************)
EXTENDS IncrementalScan, TLAPS

(* The rows of a file agree, cur's apart.                                  *)
RowsAgree ==
    \A f \in Files : (f # cur /\ hash[f] # None /\ found[f] # None)
                        => found[f].text = hash[f]

(* The results the run still has to store are of the texts on disk.        *)
ResultsCurrent ==
    phase # "rest" =>
        \A f \in toStore : /\ disk[f] # None
                           /\ results[f] \in Entry
                           /\ results[f].text = disk[f]

CurStored ==
    /\ phase \in {"imports", "findings"} =>
          cur \in toStore /\ hash[cur] = disk[cur]
    /\ phase \notin {"imports", "findings"} => cur = None
    /\ phase = "serve" => toStore = {}
    /\ toScan \cap toStore = {}
    /\ phase = "rest" => toStore = {}

(* What the run was told to scan exists: nothing is deleted during a run.  *)
CandidatesExist ==
    phase # "rest" => \A f \in candidates : disk[f] # None

IInv == TypeOK /\ RowsAgree /\ ResultsCurrent /\ CurStored /\ CandidatesExist

Calm == Hazards \cap {"crash", "edit"} = {}

(* A scan of a file that exists is a well-typed result.                    *)
LEMMA AnalysisType ==
    ASSUME TypeOK, NEW f \in Files, disk[f] # None,
           NEW graph \in [Files -> Contents \cup {None}],
           NEW rows \in [Files -> Contents \cup {None}]
    PROVE  Analysis(f, graph, rows) \in Entry /\ Analysis(f, graph, rows).text = disk[f]
<1> DEFINE view == [g \in Files |-> IF g \in ImportsOf(f) THEN graph[g] ELSE None]
           helpers == [g \in Files |-> IF g \in ImportsOf(f) THEN rows[g] ELSE None]
<1>1. disk[f] \in Contents
  BY DEF TypeOK
<1>2. view \in [Files -> Contents \cup {None}] /\ helpers \in [Files -> Contents \cup {None}]
  OBVIOUS
<1>3. Analysis(f, graph, rows) = [text |-> disk[f], view |-> view, helpers |-> helpers,
                                  evidence |-> disk[f] \in Evident]
  BY DEF Analysis
<1>4. (disk[f] \in Evident) \in BOOLEAN
  OBVIOUS
<1> HIDE DEF view, helpers
<1> QED
  BY <1>1, <1>2, <1>3, <1>4 DEF Entry

(* What is recorded is a well-typed table: the present text of a recorded  *)
(* file that defines the function, the row it had of any other.            *)
LEMMA RecordedType ==
    ASSUME TypeOK, NEW S
    PROVE  /\ Recorded(S) \in [Files -> Contents \cup {None}]
           /\ \A g \in Files : Recorded(S)[g] =
                 IF g \in S \ Texts /\ disk[g] \in Defining THEN disk[g] ELSE sums[g]
BY DEF Recorded, TypeOK

(* A re-hydrated result keeps the text it was computed from.               *)
LEMMA RehydratedType ==
    ASSUME NEW e \in Entry
    PROVE  Rehydrated(e) \in Entry /\ Rehydrated(e).text = e.text
BY DEF Rehydrated, Entry

(* A run starts and closes in the invariant.                               *)
LEMMA ResetInv ==
    ASSUME IInv, Reset, phase' = "rest", UNCHANGED <<disk, sums, hash, imps, found>>,
           \A f \in Files : f = cur => FALSE
    PROVE  IInv'
<1>1. TypeOK'
  BY DEF IInv, TypeOK, Reset, NoResults
<1>2. RowsAgree'
  BY DEF IInv, RowsAgree, Reset
<1> QED
  BY <1>1, <1>2 DEF IInv, ResultsCurrent, CurStored, CandidatesExist, Reset

(* Every step of a calm system keeps the inductive invariant.              *)
LEMMA StepInv ==
    ASSUME Calm, IInv, [Next]_vars
    PROVE  IInv'
<1> USE DEF IInv
<1>0. None \notin Files /\ None \notin Contents /\ Failed # None
  BY NoneAssumption
<1>1. ASSUME NEW f \in Files, NEW c \in Contents, Edit(f, c)
      PROVE  IInv'
  <2>1. phase = "rest" /\ UNCHANGED <<sums, hash, imps, found, phase, candidates, direct,
                            toScan, indexed, results, toStore, cur>>
    BY <1>1 DEF Edit, Calm, store, run
  <2>2. TypeOK'
    BY <1>1, <2>1 DEF Edit, TypeOK
  <2> QED
    BY <2>1, <2>2 DEF RowsAgree, ResultsCurrent, CurStored, CandidatesExist
<1>2. ASSUME NEW f \in Files, Delete(f)
      PROVE  IInv'
  <2>1. phase = "rest" /\ UNCHANGED <<sums, hash, imps, found, phase, candidates, direct,
                            toScan, indexed, results, toStore, cur>>
    BY <1>2 DEF Delete, store, run
  <2>2. TypeOK'
    BY <1>2, <2>1 DEF Delete, TypeOK
  <2> QED
    BY <2>1, <2>2 DEF RowsAgree, ResultsCurrent, CurStored, CandidatesExist
<1>3. CASE Crash
  BY <1>3 DEF Crash, Calm
<1>4. CASE Detect
  <2>1. TypeOK'
    BY <1>4 DEF Detect, TypeOK, store
  <2> QED
    BY <1>4, <2>1 DEF Detect, store, RowsAgree, ResultsCurrent, CurStored, CandidatesExist
<1>5. CASE Serve
  <2> DEFINE served == {f \in candidates \ Affected(direct, candidates) :
                           ~FileChanged(f) /\ found[f] # None}
  <2>1. \A f \in served : /\ f \in Files /\ disk[f] # None /\ hash[f] = disk[f]
                          /\ found[f] \in Entry /\ found[f].text = disk[f]
    <3> SUFFICES ASSUME NEW f \in served
                 PROVE  /\ f \in Files /\ disk[f] # None /\ hash[f] = disk[f]
                        /\ found[f] \in Entry /\ found[f].text = disk[f]
      OBVIOUS
    <3>1. f \in Files /\ disk[f] # None /\ hash[f] = disk[f] /\ found[f] # None
      BY DEF FileChanged, TypeOK
    <3>2. cur = None
      BY <1>5 DEF CurStored, Serve
    <3> QED
      BY <3>1, <3>2, <1>0 DEF RowsAgree, TypeOK
  <2>2. \A f \in served : Rehydrated(found[f]) \in Entry /\ Rehydrated(found[f]).text = disk[f]
    BY <2>1, RehydratedType
  <2>3. served \subseteq Files /\ candidates \ served \subseteq Files
    BY DEF TypeOK
  <2>4. toScan' = IF candidates \ served \subseteq Texts THEN {} ELSE candidates \ served
    BY <1>5 DEF Serve
  <2>5. UNCHANGED <<disk, sums, hash, imps, found, indexed, cur>>
    BY <1>5 DEF Serve, store
  <2>6. CASE toScan' = {}
    <3>1. phase' = "rest" /\ candidates' = {} /\ direct' = {} /\ UNCHANGED <<results, toStore>>
      BY <1>5, <2>6 DEF Serve
    <3>2. TypeOK'
      BY <2>5, <2>6, <3>1 DEF TypeOK
    <3> QED
      BY <1>5, <2>5, <3>1, <3>2
      DEF Serve, RowsAgree, ResultsCurrent, CurStored, CandidatesExist
  <2>7. CASE toScan' # {}
    <3>1. /\ phase' = "index"
          /\ results' = [f \in Files |-> IF f \in served THEN Rehydrated(found[f]) ELSE None]
          /\ toStore' = served
          /\ candidates' = {} /\ direct' = {}
      BY <1>5, <2>7 DEF Serve
    <3> HIDE DEF served
    <3>2. results' \in [Files -> Entry \cup {None, Failed}]
      BY <2>2, <3>1
    <3>3. toScan' \in SUBSET Files
      BY <2>3, <2>4
    <3>4. TypeOK'
      BY <2>3, <2>5, <3>1, <3>2, <3>3 DEF TypeOK
    <3>5. ResultsCurrent'
      BY <2>1, <2>2, <2>5, <3>1 DEF ResultsCurrent
    <3> QED
      BY <1>5, <2>5, <3>1, <3>4, <3>5 DEF Serve, RowsAgree, CurStored, CandidatesExist
  <2> QED
    BY <2>6, <2>7
<1>6. CASE Index
  <2>1. TypeOK'
    BY <1>6, RecordedType DEF Index, TypeOK, store
  <2> QED
    BY <1>6, <2>1 DEF Index, store, RowsAgree, ResultsCurrent, CurStored, CandidatesExist
<1>7. ASSUME NEW f \in Files, Scan(f) \/ ScanFailed(f)
      PROVE  IInv'
  <2>1. /\ phase = "scan" /\ phase' \in {"scan", "hash"}
        /\ f \in toScan /\ f \notin toStore
        /\ toScan' = toScan \ {f}
        /\ UNCHANGED <<disk, hash, imps, found, candidates, direct, indexed, cur>>
        /\ sums' \in [Files -> Contents \cup {None}]
    BY <1>7, RecordedType DEF Scan, ScanFailed, Scanned, store, CurStored, TypeOK
  <2>2. TypeOK' /\ ResultsCurrent' /\ toScan' \cap toStore' = {}
    <3>1. CASE Scan(f)
      <4>1. /\ disk[f] # None
            /\ results' = [results EXCEPT ![f] = Analysis(f, indexed, sums')]
            /\ toStore' = toStore \cup {f}
        BY <3>1 DEF Scan
      <4>2. Analysis(f, indexed, sums') \in Entry /\ Analysis(f, indexed, sums').text = disk[f]
        BY <2>1, <4>1, AnalysisType DEF TypeOK
      <4>3. TypeOK'
        BY <2>1, <4>1, <4>2 DEF TypeOK
      <4>4. ResultsCurrent'
        BY <2>1, <4>1, <4>2 DEF ResultsCurrent, TypeOK
      <4> QED
        BY <2>1, <4>1, <4>3, <4>4 DEF CurStored
    <3>2. CASE ScanFailed(f)
      <4>1. results' = [results EXCEPT ![f] = Failed] /\ UNCHANGED toStore
        BY <3>2 DEF ScanFailed
      <4>2. TypeOK'
        BY <2>1, <4>1 DEF TypeOK
      <4>3. ResultsCurrent'
        BY <2>1, <4>1 DEF ResultsCurrent, TypeOK
      <4> QED
        BY <2>1, <4>1, <4>2, <4>3 DEF CurStored
    <3> QED
      BY <1>7, <3>1, <3>2
  <2>3. RowsAgree' /\ CandidatesExist'
    BY <2>1 DEF RowsAgree, CandidatesExist
  <2>4. cur = None
    BY <2>1 DEF CurStored
  <2>5. CurStored'
    BY <2>1, <2>2, <2>4 DEF CurStored
  <2> QED
    BY <2>2, <2>3, <2>5
<1>8. ASSUME NEW f \in Files, StoreHash(f)
      PROVE  IInv'
  <2>1. disk[f] # None /\ hash' = [hash EXCEPT ![f] = disk[f]] /\ f \in toStore
    BY <1>8 DEF StoreHash, ResultsCurrent
  <2>2. cur = None
    BY <1>8 DEF StoreHash, CurStored
  <2>3. TypeOK'
    BY <1>8, <2>1 DEF StoreHash, TypeOK
  <2>4. RowsAgree'
    BY <1>8, <1>0, <2>1, <2>2 DEF StoreHash, RowsAgree, TypeOK
  <2>5. CurStored'
    BY <1>8, <2>1, <2>3 DEF StoreHash, CurStored, TypeOK
  <2> QED
    BY <1>8, <2>3, <2>4, <2>5 DEF StoreHash, ResultsCurrent, CandidatesExist
<1>9. CASE StoreImports
  <2>0. cur \in Files
    BY <1>9 DEF StoreImports, CurStored, TypeOK
  <2>1. ImportsOf(cur) \in SUBSET Files
    BY <2>0, ImportsAssumption DEF ImportsOf, TypeOK
  <2>2. TypeOK'
    BY <1>9, <2>1 DEF StoreImports, TypeOK, run
  <2> QED
    BY <1>9, <2>2 DEF StoreImports, run, RowsAgree, ResultsCurrent, CurStored, CandidatesExist
<1>10. CASE StoreFindings
  <2>1. cur \in toStore /\ cur \in Files /\ results[cur] \in Entry
        /\ results[cur].text = hash[cur]
    BY <1>10 DEF StoreFindings, CurStored, ResultsCurrent, TypeOK
  <2>2. TypeOK'
    BY <1>10, <2>1 DEF StoreFindings, TypeOK
  <2>3. RowsAgree'
    BY <1>10, <2>1 DEF StoreFindings, RowsAgree, TypeOK
  <2> QED
    BY <1>10, <2>2, <2>3 DEF StoreFindings, ResultsCurrent, CurStored, CandidatesExist
<1>11. CASE Finish
  <2>1. cur = None
    BY <1>11 DEF Finish, CurStored
  <2> QED
    BY <1>11, <2>1, <1>0, ResetInv DEF Finish, store
<1>12. CASE UNCHANGED vars
  BY <1>12 DEF vars, store, run, TypeOK, RowsAgree, ResultsCurrent, CurStored, CandidatesExist
<1> QED
  BY <1>1, <1>2, <1>3, <1>4, <1>5, <1>6, <1>7, <1>8, <1>9, <1>10, <1>11, <1>12
  DEF Next, User, Run

(* The first run starts in the invariant: nothing is stored.               *)
LEMMA InitInv == Init => IInv
<1> SUFFICES ASSUME Init PROVE IInv
  OBVIOUS
<1>1. TypeOK
  BY DEF Init, TypeOK, NoResults
<1> QED
  BY <1>1 DEF Init, IInv, RowsAgree, ResultsCurrent, CurStored, CandidatesExist, NoResults

(* Without crashes and without edits during a run, whatever fails and      *)
(* whatever is deleted between runs, the cache serves only findings of the *)
(* text a file has.                                                        *)
THEOREM OwnTextCurrentHolds ==
    ASSUME Calm
    PROVE  Spec => []OwnTextCurrent
<1>1. IInv => OwnTextCurrent
  <2> SUFFICES ASSUME IInv, phase = "rest", NEW f \in Servable
               PROVE  found[f].text = disk[f]
    BY DEF OwnTextCurrent
  <2>1. f \in Files /\ disk[f] # None /\ found[f] # None
    BY DEF Servable
  <2>2. ~FileChanged(f)
    BY <2>1 DEF Servable, Affected
  <2>3. f # cur
    BY <2>1, NoneAssumption DEF IInv, CurStored
  <2> QED
    BY <2>1, <2>2, <2>3 DEF IInv, RowsAgree, FileChanged
<1>2. IInv /\ [Next]_vars => IInv'
  BY StepInv
<1> QED
  BY <1>1, <1>2, InitInv, PTL DEF Spec

(* The store and the run stay well typed in the same conditions.           *)
THEOREM TypeCorrect ==
    ASSUME Calm
    PROVE  Spec => []TypeOK
<1>1. IInv => TypeOK
  BY DEF IInv
<1>2. IInv /\ [Next]_vars => IInv'
  BY StepInv
<1> QED
  BY <1>1, <1>2, InitInv, PTL DEF Spec
-----------------------------------------------------------------------------
(***************************************************************************)
(* With no hazard at all the imports are current too and the run is the    *)
(* memo table of ScanCache.  The invariant follows a row through a run:    *)
(* between runs it is right for the hashes stored, the result that waits   *)
(* to be stored and the rows already stored are right for the disk, and no *)
(* file is outside the two when the last of them is done.  The function    *)
(* summaries follow the hashes between runs and the disk after pass 1.     *)
(***************************************************************************)
Quiet == Hazards = {}

(* Findings e of f with these imports are right for these texts.           *)
Right(f, e, texts, its) ==
    /\ e.text = texts[f]
    /\ \A g \in Files : e.view[g] = None \/ (g \in its /\ e.view[g] = texts[g])
    /\ \A g \in its \ Texts : texts[g] \in Defining => e.helpers[g] = texts[g]
    /\ \A g \in Files : e.helpers[g] # None => g \in its \ Texts

(* The function summaries stored of the files G are of these texts.        *)
SumsRight(G, texts) == \A g \in G \ Texts : texts[g] \in Defining => sums[g] = texts[g]

(* What a text imports, as ImportsOf has it of the text on disk.           *)
TextImports(f, t) == IF f \in Texts \/ t = None THEN {} ELSE Imports[t]

RowRight(f) ==
    found[f] # None => /\ hash[f] # None
                       /\ imps[f] = TextImports(f, hash[f])
                       /\ Right(f, found[f], hash, imps[f])

RestRight == phase \in {"rest", "serve"} => \A f \in Files : RowRight(f)

ResultsRight ==
    phase \notin {"rest", "serve"} =>
        \A f \in toStore : Right(f, results[f], disk, ImportsOf(f))

StoredRight ==
    phase \in {"hash", "imports", "findings"} =>
        /\ toScan = {}
        /\ \A f \in Files \ toStore : /\ hash[f] = disk[f] /\ imps[f] = ImportsOf(f)
                                      /\ found[f] # None
                                      /\ Right(f, found[f], disk, ImportsOf(f))
        /\ phase = "findings" => imps[cur] = ImportsOf(cur)

SummariesRight ==
    /\ \A g \in Texts : sums[g] = None
    /\ phase \in {"rest", "serve"} => SumsRight(Files, hash)
    /\ phase = "index" => SumsRight(toStore, disk)
    /\ phase \notin {"rest", "serve", "index"} => SumsRight(Files, disk)

RunCovers ==
    /\ \A f \in Files : disk[f] # None
    /\ phase = "serve" => /\ candidates = Files
                          /\ direct = {f \in Files : FileChanged(f)}
    /\ phase \in {"index", "scan"} => toScan \cup toStore = Files
    /\ phase = "scan" => \A g \in Files : indexed[g] \in {None, disk[g]}

QInv == IInv /\ RestRight /\ ResultsRight /\ StoredRight /\ SummariesRight /\ RunCovers

(* A file that is not affected by the changed ones has rows that are right *)
(* for the texts on disk, and not only for the hashes stored: were one of  *)
(* its imports changed, the closed set that leaves it out could not be.    *)
LEMMA UnaffectedRight ==
    ASSUME TypeOK, \A f \in Files : RowRight(f), NEW f \in Files,
           f \notin Affected({g \in Files : FileChanged(g)}, Files), found[f] # None
    PROVE  Right(f, found[f], disk, ImportsOf(f))
<1>1. PICK S \in SUBSET Files : /\ {g \in Files : FileChanged(g)} \subseteq S
                                /\ Importing(S, Files) /\ f \notin S
  BY DEF Affected
<1>2. \A g \in Files \ S : disk[g] # None /\ hash[g] = disk[g]
  BY <1>1 DEF FileChanged
<1>3. imps[f] \cap S = {}
  BY <1>1 DEF Importing
<1>4. imps[f] = ImportsOf(f) /\ imps[f] \subseteq Files \ S
  BY <1>1, <1>2, <1>3 DEF RowRight, TextImports, ImportsOf, TypeOK
<1>5. Right(f, found[f], hash, imps[f]) /\ hash[f] = disk[f]
  BY <1>1, <1>2 DEF RowRight
<1> QED
  BY <1>2, <1>4, <1>5 DEF Right

(* A scan of the texts on disk, by a graph that holds no others and with   *)
(* summaries of them, is right.                                            *)
LEMMA AnalysisRight ==
    ASSUME TypeOK, NEW f \in Files, NEW graph, NEW rows,
           \A g \in Files : graph[g] \in {None, disk[g]},
           \A g \in Files \ Texts : disk[g] \in Defining => rows[g] = disk[g],
           \A g \in Texts : rows[g] = None
    PROVE  Right(f, Analysis(f, graph, rows), disk, ImportsOf(f))
<1>1. ImportsOf(f) \subseteq Files
  BY ImportsAssumption DEF ImportsOf, TypeOK
<1> QED
  BY <1>1, FilesAssumption DEF Right, Analysis

(* A re-hydrated result is as right as the row it came from.               *)
LEMMA RehydratedRight ==
    ASSUME NEW f \in Files, NEW e \in Entry, NEW texts, NEW its, Right(f, e, texts, its)
    PROVE  Right(f, Rehydrated(e), texts, its)
BY DEF Right, Rehydrated, Entry

(* The summaries stay those of the hashes between runs, become those of    *)
(* the disk in pass 1 - of the files to scan because it records them, of   *)
(* the served ones because they have not changed - and stay so.            *)
LEMMA SummariesStep ==
    ASSUME Quiet, QInv, TypeOK', [Next]_vars
    PROVE  SummariesRight'
<1>0. TypeOK /\ None \notin Contents /\ Texts \subseteq Files
  BY NoneAssumption, FilesAssumption DEF QInv, IInv
<1>1. CASE User
  <2>1. phase = "rest" /\ UNCHANGED <<sums, hash, phase>>
    BY <1>1 DEF User, Edit, Delete, Quiet, store
  <2> QED
    BY <2>1 DEF QInv, SummariesRight, SumsRight
<1>2. CASE Crash
  BY <1>2 DEF Crash, Quiet
<1>3. CASE Detect
  BY <1>3 DEF Detect, store, QInv, SummariesRight, SumsRight
<1>4. CASE Serve
  <2>1. phase = "serve" /\ UNCHANGED <<sums, hash, disk>>
    BY <1>4 DEF Serve, store
  <2>2. CASE phase' = "rest"
    BY <2>1, <2>2 DEF QInv, SummariesRight, SumsRight
  <2>3. CASE phase' = "index"
    <3>1. toStore' \subseteq {f \in candidates : ~FileChanged(f)}
      BY <1>4, <2>3 DEF Serve
    <3>2. \A f \in toStore' : f \in Files /\ hash[f] = disk[f]
      BY <3>1, <1>0 DEF FileChanged, TypeOK
    <3> QED
      BY <2>1, <2>3, <3>2 DEF QInv, SummariesRight, SumsRight
  <2> QED
    BY <1>4, <2>2, <2>3 DEF Serve
<1>5. CASE Index
  <2>1. /\ phase = "index" /\ phase' = "scan" /\ UNCHANGED <<disk, toStore>>
        /\ sums' = Recorded(toScan)
    BY <1>5 DEF Index
  <2>2. toScan \cup toStore = Files
    BY <2>1 DEF QInv, RunCovers
  <2> QED
    BY <1>0, <2>1, <2>2, RecordedType DEF QInv, SummariesRight, SumsRight
<1>6. ASSUME NEW f \in Files, Scan(f)
      PROVE  SummariesRight'
  <2>1. /\ phase = "scan" /\ phase' \in {"scan", "hash"} /\ UNCHANGED disk
        /\ sums' = Recorded({f})
    BY <1>6 DEF Scan, Scanned
  <2> QED
    BY <1>0, <2>1, RecordedType DEF QInv, SummariesRight, SumsRight
<1>7. ASSUME NEW f \in Files, ScanFailed(f)
      PROVE  FALSE
  BY <1>7 DEF ScanFailed, QInv, RunCovers, Quiet
<1>8. CASE (\E f \in Files : StoreHash(f)) \/ StoreImports \/ StoreFindings
  <2>1. /\ phase \in {"hash", "imports", "findings"} /\ phase' \in {"hash", "imports", "findings"}
        /\ UNCHANGED <<sums, disk>>
    BY <1>8 DEF StoreHash, StoreImports, StoreFindings
  <2> QED
    BY <2>1 DEF QInv, SummariesRight, SumsRight
<1>9. CASE Finish
  <2>1. phase = "hash" /\ toStore = {} /\ phase' = "rest" /\ UNCHANGED <<sums, disk, hash>>
    BY <1>9 DEF Finish, store
  <2>2. \A f \in Files : hash[f] = disk[f]
    BY <2>1 DEF QInv, StoredRight
  <2> QED
    BY <2>1, <2>2 DEF QInv, SummariesRight, SumsRight
<1>10. CASE UNCHANGED vars
  BY <1>10 DEF vars, store, run, QInv, SummariesRight, SumsRight
<1> QED
  BY <1>1, <1>2, <1>3, <1>4, <1>5, <1>6, <1>7, <1>8, <1>9, <1>10 DEF Next, Run

(* Every step of a quiet system keeps the invariant.                       *)
LEMMA QuietStep ==
    ASSUME Quiet, QInv, [Next]_vars
    PROVE  QInv'
<1>0. IInv' /\ IInv
  BY StepInv DEF Calm, Quiet, QInv
<1>a. TypeOK /\ TypeOK' /\ None \notin Contents
  BY <1>0, NoneAssumption DEF IInv
<1>b. SummariesRight'
  BY <1>a, SummariesStep
<1> SUFFICES RestRight' /\ ResultsRight' /\ StoredRight' /\ RunCovers'
  BY <1>0, <1>b DEF QInv
<1>1. ASSUME NEW f \in Files, NEW c \in Contents, Edit(f, c)
      PROVE  RestRight' /\ ResultsRight' /\ StoredRight' /\ RunCovers'
  <2>1. /\ phase = "rest" /\ disk' = [disk EXCEPT ![f] = c]
        /\ UNCHANGED <<hash, imps, found, phase, candidates, direct,
                       toScan, indexed, results, toStore, cur>>
    BY <1>1 DEF Edit, Quiet, store, run
  <2>2. \A g \in Files : disk'[g] # None
    BY <2>1, <1>a DEF QInv, RunCovers, TypeOK
  <2> QED
    BY <2>1, <2>2 DEF QInv, RestRight, RowRight, ResultsRight, StoredRight, RunCovers
<1>2. ASSUME NEW f \in Files, Delete(f)
      PROVE  FALSE
  BY <1>2 DEF Delete, Quiet
<1>3. CASE Crash
  BY <1>3 DEF Crash, Quiet
<1>4. CASE Detect
  <2>1. candidates' = Files
    BY <1>4 DEF Detect, QInv, RunCovers
  <2>2. direct' = {f \in Files : FileChanged(f)}
    BY <1>4, <2>1 DEF Detect
  <2>3. UNCHANGED <<disk, hash, imps, found>> /\ phase' = "serve" /\ phase = "rest"
    BY <1>4 DEF Detect, store
  <2>4. {f \in Files : FileChanged(f)} = {f \in Files : FileChanged(f)}'
    BY <2>3 DEF FileChanged
  <2> QED
    BY <2>1, <2>2, <2>3, <2>4
    DEF QInv, RestRight, RowRight, ResultsRight, StoredRight, RunCovers
<1>5. CASE Serve
  <2> DEFINE served == {f \in candidates \ Affected(direct, candidates) :
                           ~FileChanged(f) /\ found[f] # None}
  <2>1. /\ UNCHANGED <<disk, hash, imps, found, indexed, cur>> /\ phase = "serve"
        /\ toScan' = IF candidates \ served \subseteq Texts THEN {} ELSE candidates \ served
    BY <1>5 DEF Serve, store
  <2>2. candidates = Files /\ direct = {f \in Files : FileChanged(f)}
        /\ \A f \in Files : RowRight(f)
    BY <2>1 DEF QInv, RunCovers, RestRight
  <2>3. CASE toScan' = {}
    <3>1. phase' = "rest"
      BY <1>5, <2>3 DEF Serve
    <3> QED
      BY <2>1, <2>2, <2>3, <3>1
      DEF QInv, RestRight, RowRight, ResultsRight, StoredRight, RunCovers
  <2>4. CASE toScan' # {}
    <3>1. /\ phase' = "index"
          /\ results' = [f \in Files |-> IF f \in served THEN Rehydrated(found[f]) ELSE None]
          /\ toStore' = served
      BY <1>5, <2>4 DEF Serve
    <3>2. \A f \in served : Right(f, results'[f], disk, ImportsOf(f))
      <4> SUFFICES ASSUME NEW f \in served PROVE Right(f, results'[f], disk, ImportsOf(f))
        OBVIOUS
      <4>1. f \in Files /\ found[f] # None /\ found[f] \in Entry
            /\ f \notin Affected({g \in Files : FileChanged(g)}, Files)
        BY <2>2, <1>a DEF TypeOK
      <4>2. Right(f, found[f], disk, ImportsOf(f))
        BY <2>2, <4>1, <1>a, UnaffectedRight
      <4> QED
        BY <3>1, <4>1, <4>2, RehydratedRight
    <3>3. toScan' \cup toStore' = Files
      BY <2>1, <2>2, <2>4, <3>1
    <3>4. \A f \in Files : ImportsOf(f)' = ImportsOf(f)
      BY <2>1 DEF ImportsOf
    <3>5. ResultsRight'
      <4>1. served \subseteq Files
        BY <2>2
      <4> HIDE DEF served
      <4> QED
        BY <2>1, <3>1, <3>2, <3>4, <4>1 DEF ResultsRight, Right
    <3> QED
      BY <2>1, <3>1, <3>3, <3>5 DEF QInv, RestRight, StoredRight, RunCovers
  <2> QED
    BY <2>3, <2>4
<1>6. CASE Index
  <2>1. /\ phase = "index" /\ phase' = "scan"
        /\ UNCHANGED <<disk, hash, imps, found, toScan, results, toStore, cur>>
        /\ \A g \in Files : indexed'[g] \in {None, disk[g]}
    BY <1>6 DEF Index, store
  <2>2. \A f \in Files : ImportsOf(f)' = ImportsOf(f)
    BY <2>1 DEF ImportsOf
  <2>3. toStore \subseteq Files
    BY <1>a DEF TypeOK
  <2>4. ResultsRight'
    BY <2>1, <2>2, <2>3 DEF QInv, ResultsRight, Right
  <2> QED
    BY <2>1, <2>4 DEF QInv, RestRight, StoredRight, RunCovers
<1>7. ASSUME NEW f \in Files, ScanFailed(f)
      PROVE  FALSE
  BY <1>7 DEF ScanFailed, QInv, RunCovers, Quiet
<1>8. ASSUME NEW f \in Files, Scan(f)
      PROVE  RestRight' /\ ResultsRight' /\ StoredRight' /\ RunCovers'
  <2>1. /\ phase = "scan" /\ f \in toScan /\ toScan' = toScan \ {f}
        /\ phase' = IF toScan' = {} THEN "hash" ELSE "scan"
        /\ UNCHANGED <<disk, hash, imps, found, indexed, cur>>
        /\ results' = [results EXCEPT ![f] = Analysis(f, indexed, sums')]
        /\ toStore' = toStore \cup {f}
    BY <1>8 DEF Scan, Scanned, store
  <2>2. \A g \in Files : ImportsOf(g)' = ImportsOf(g)
    BY <2>1 DEF ImportsOf
  <2>3. Right(f, Analysis(f, indexed, sums'), disk, ImportsOf(f))
    <3>1. /\ \A g \in Files \ Texts : disk[g] \in Defining => sums'[g] = disk[g]
          /\ \A g \in Texts : sums'[g] = None
      BY <1>b, <2>1 DEF SummariesRight, SumsRight
    <3> QED
      BY <1>a, <2>1, <3>1, AnalysisRight DEF QInv, RunCovers
  <2>4. results'[f] = Analysis(f, indexed, sums') /\ \A g \in Files \ {f} : results'[g] = results[g]
    BY <2>1, <1>a DEF TypeOK
  <2>5. toStore \subseteq Files /\ toScan' \cup toStore' = Files
    BY <2>1, <1>a DEF QInv, RunCovers, TypeOK
  <2>6. ResultsRight'
    BY <2>1, <2>2, <2>3, <2>4, <2>5 DEF QInv, ResultsRight, Right
  <2> QED
    BY <2>1, <2>5, <2>6 DEF QInv, RestRight, StoredRight, RunCovers
<1>9. ASSUME NEW f \in Files, StoreHash(f)
      PROVE  RestRight' /\ ResultsRight' /\ StoredRight' /\ RunCovers'
  <2>1. /\ phase = "hash" /\ phase' = "imports" /\ f \in toStore /\ cur' = f
        /\ disk[f] # None /\ hash' = [hash EXCEPT ![f] = disk[f]]
        /\ UNCHANGED <<disk, imps, found, toScan, results, toStore>>
    BY <1>9 DEF StoreHash, QInv, RunCovers
  <2>2. \A g \in Files : ImportsOf(g)' = ImportsOf(g)
    BY <2>1 DEF ImportsOf
  <2>3. toStore \subseteq Files
    BY <1>a DEF TypeOK
  <2>4. ResultsRight'
    BY <2>1, <2>2, <2>3 DEF QInv, ResultsRight, Right
  <2>5. StoredRight'
    BY <2>1, <2>2, <1>a DEF QInv, StoredRight, Right, TypeOK
  <2> QED
    BY <2>1, <2>4, <2>5 DEF QInv, RestRight, RunCovers
<1>10. CASE StoreImports
  <2>1. /\ phase = "imports" /\ phase' = "findings" /\ cur \in toStore
        /\ imps' = [imps EXCEPT ![cur] = ImportsOf(cur)]
        /\ UNCHANGED <<disk, hash, found, toScan, results, toStore, cur>>
    BY <1>10, <1>0 DEF StoreImports, run, IInv, CurStored
  <2>2. \A g \in Files : ImportsOf(g)' = ImportsOf(g)
    BY <2>1 DEF ImportsOf
  <2>3. toStore \subseteq Files
    BY <1>a DEF TypeOK
  <2>4. ResultsRight'
    BY <2>1, <2>2, <2>3 DEF QInv, ResultsRight, Right
  <2>5. StoredRight'
    BY <2>1, <2>2, <2>3, <1>a DEF QInv, StoredRight, Right, TypeOK
  <2> QED
    BY <2>1, <2>4, <2>5 DEF QInv, RestRight, RunCovers
<1>11. CASE StoreFindings
  <2>1. /\ phase = "findings" /\ phase' = "hash" /\ cur \in toStore
        /\ found' = [found EXCEPT ![cur] = results[cur]] /\ toStore' = toStore \ {cur}
        /\ UNCHANGED <<disk, hash, imps, toScan, results>>
        /\ hash[cur] = disk[cur] /\ imps[cur] = ImportsOf(cur)
        /\ results[cur] \in Entry /\ Right(cur, results[cur], disk, ImportsOf(cur))
    BY <1>11, <1>0 DEF StoreFindings, IInv, CurStored, ResultsCurrent,
                       QInv, StoredRight, ResultsRight
  <2>2. \A g \in Files : ImportsOf(g)' = ImportsOf(g)
    BY <2>1 DEF ImportsOf
  <2>3. toStore \subseteq Files /\ None \notin Entry
    BY <1>a, EntryAssumption DEF TypeOK
  <2>4. ResultsRight'
    BY <2>1, <2>2, <2>3 DEF QInv, ResultsRight, Right
  <2>5. StoredRight'
    BY <2>1, <2>2, <2>3, <1>a DEF QInv, StoredRight, Right, TypeOK
  <2> QED
    BY <2>1, <2>4, <2>5 DEF QInv, RestRight, RunCovers
<1>12. CASE Finish
  <2>1. /\ phase = "hash" /\ toStore = {} /\ phase' = "rest"
        /\ UNCHANGED <<disk, hash, imps, found>>
    BY <1>12 DEF Finish, store
  <2>2. \A f \in Files : /\ hash[f] = disk[f] /\ imps[f] = ImportsOf(f)
                         /\ Right(f, found[f], disk, ImportsOf(f)) /\ disk[f] # None
    BY <2>1 DEF QInv, StoredRight, RunCovers
  <2>3. \A f \in Files : imps[f] \subseteq Files /\ imps[f] = TextImports(f, hash[f])
    BY <2>2, <1>a DEF TypeOK, ImportsOf, TextImports
  <2>4. \A f \in Files : Right(f, found[f], hash, imps[f])
    BY <2>2, <2>3 DEF Right
  <2>5. \A f \in Files : RowRight(f)'
    BY <2>1, <2>2, <2>3, <2>4 DEF RowRight, Right, TextImports
  <2> QED
    BY <2>1, <2>5 DEF QInv, RestRight, ResultsRight, StoredRight, RunCovers
<1>13. CASE UNCHANGED vars
  BY <1>13 DEF vars, store, run, QInv, RestRight, RowRight, ResultsRight, StoredRight,
               RunCovers, Right, ImportsOf, FileChanged
<1> QED
  BY <1>1, <1>2, <1>3, <1>4, <1>5, <1>6, <1>7, <1>8, <1>9, <1>10, <1>11, <1>12, <1>13
  DEF Next, User, Run

(* The first run starts in it.                                             *)
LEMMA QuietInit ==
    ASSUME Quiet
    PROVE  Init => QInv
<1> SUFFICES ASSUME Init PROVE QInv
  OBVIOUS
<1>1. IInv
  BY InitInv
<1>2. \A f \in Files : disk[f] # None
  BY NoneAssumption DEF Init
<1> QED
  BY <1>1, <1>2, FilesAssumption DEF Init, QInv, RestRight, RowRight, ResultsRight, StoredRight,
                    SummariesRight, SumsRight, RunCovers, NoResults

(* What the next run serves is right for the texts on disk.                *)
LEMMA ServableRight ==
    ASSUME QInv, phase = "rest", NEW f \in Servable
    PROVE  f \in Files /\ found[f] # None /\ Right(f, found[f], disk, ImportsOf(f))
<1>1. {g \in Files : disk[g] # None} = Files
  BY DEF QInv, RunCovers
<1>2. /\ f \in Files /\ found[f] # None
      /\ f \notin Affected({g \in Files : FileChanged(g)}, Files)
  BY <1>1 DEF Servable
<1>3. TypeOK /\ \A g \in Files : RowRight(g)
  BY DEF QInv, IInv, RestRight
<1> QED
  BY <1>2, <1>3, UnaffectedRight

(* With no hazard, nothing the next run serves was computed from a         *)
(* module-level taint of a text that an imported file no longer has, or    *)
(* from an outdated summary of a function the import defines: following    *)
(* the imports stored for the changed files finds every importer there is  *)
(* to find, and pass 1 has refreshed the summaries before it is scanned.   *)
THEOREM ImportsCurrentHolds ==
    ASSUME Quiet
    PROVE  Spec => []ImportsCurrent
<1>1. QInv => ImportsCurrent
  BY ServableRight DEF ImportsCurrent, Right
<1>2. QInv /\ [Next]_vars => QInv'
  BY QuietStep
<1> QED
  BY <1>1, <1>2, QuietInit, PTL DEF Spec

(* With no hazard, the run implements the memo table of ScanCache: every   *)
(* step of it learns right findings of one file, edits a file, or leaves   *)
(* texts and rows alone, and never serves more than what is good.          *)
THEOREM ImplementsCacheHolds ==
    ASSUME Quiet
    PROVE  Spec => ImplementsCache
<1> DEFINE served == IF phase = "rest" THEN Servable ELSE {}
<1>1. Init => Cache!Init
  <2> SUFFICES ASSUME Init PROVE Cache!Init
    OBVIOUS
  <2>1. Servable = {}
    BY DEF Init, NoResults, Servable
  <2> QED
    BY <2>1 DEF Init, NoResults, Cache!Init
<1>2. QInv => served \subseteq {f \in Files : Cache!Good(f)}
  <2> SUFFICES ASSUME QInv, NEW f \in served
               PROVE  f \in Files /\ Cache!Good(f)
    OBVIOUS
  <2>1. phase = "rest" /\ f \in Servable
    OBVIOUS
  <2> QED
    BY <2>1, ServableRight DEF Right, Cache!Good
<1>3. QInv /\ QInv' /\ [Next]_vars => [Cache!Next]_(Cache!vars)
  <2> SUFFICES ASSUME QInv, QInv', [Next]_vars PROVE Cache!Next
    OBVIOUS
  <2>0. Cache!Serve
    <3>1. (served \subseteq {f \in Files : Cache!Good(f)})'
      BY <1>2, PTL
    <3> QED
      BY <3>1 DEF Cache!Serve
  <2>1. ASSUME NEW f \in Files, NEW c \in Contents, Edit(f, c)
        PROVE  Cache!Edit(f)
    BY <2>1 DEF Edit, store, Cache!Edit
  <2>2. ASSUME NEW f \in Files, Delete(f) \/ ScanFailed(f)
        PROVE  FALSE
    BY <2>2 DEF Delete, ScanFailed, QInv, RunCovers, Quiet
  <2>3. CASE Crash
    BY <2>3 DEF Crash, Quiet
  <2>4. CASE StoreFindings
    <3>1. PICK f \in Files : f = cur
      BY <2>4 DEF StoreFindings, QInv, IInv, TypeOK, CurStored
    <3>2. /\ found' = [found EXCEPT ![f] = results[f]] /\ UNCHANGED disk
          /\ Right(f, results[f], disk, ImportsOf(f))
          /\ results[f] \in Entry /\ found \in [Files -> Entry \cup {None}]
      BY <2>4, <3>1 DEF StoreFindings, QInv, IInv, TypeOK, CurStored, ResultsCurrent, ResultsRight
    <3>3. found'[f] = results[f] /\ found'[f] # None
      BY <3>2, EntryAssumption
    <3>4. Cache!Good(f)'
      BY <3>2, <3>3 DEF Cache!Good, Right
    <3>5. \A g \in Files \ {f} : found'[g] = found[g]
      BY <3>2
    <3>6. Cache!Learn(f)
      BY <3>2, <3>4, <3>5 DEF Cache!Learn
    <3> QED
      BY <2>0, <3>6 DEF Cache!Next
  <2>5. ASSUME UNCHANGED <<disk, found>>
        PROVE  Cache!Next
    BY <2>0, <2>5 DEF Cache!Next
  <2> QED
    BY <2>0, <2>1, <2>2, <2>3, <2>4, <2>5
    DEF Next, User, Run, Detect, Serve, Index, Scan, Scanned, StoreHash, StoreImports,
        Finish, store, vars, Cache!Next
<1>4. QInv /\ [Next]_vars => QInv'
  BY QuietStep
<1> QED
  BY <1>1, <1>3, <1>4, QuietInit, PTL DEF Spec, ImplementsCache, Cache!Spec

-----------------------------------------------------------------------------
(* affected_files, which a run takes for one step, is a loop over what the *)
(* store holds.                                                            *)

VARIABLES affected, todo, changed, pc

Loop == INSTANCE AffectedFiles WITH imports <- imps

(* A loop that misses nothing and has nothing extra ends with the set that *)
(* a run goes on with.                                                     *)
THEOREM LoopComputesAffected ==
    ASSUME direct \subseteq candidates, candidates \subseteq Files, pc = "done",
           Loop!NothingMissed, Loop!NothingExtra
    PROVE  affected = Affected(direct, candidates)
<1>1. \A S \in SUBSET candidates : Importing(S, candidates) => Loop!Closed(S)
  BY DEF Importing, Loop!Closed
<1>2. \A S \in SUBSET candidates : direct \subseteq S /\ Importing(S, candidates) => affected \subseteq S
  BY <1>1 DEF Loop!NothingExtra
<1>3. Importing(candidates, candidates)
  BY DEF Importing
<1>4. affected \subseteq candidates
  BY <1>2, <1>3
<1>5. direct \subseteq affected /\ Importing(affected, candidates)
  BY DEF Loop!NothingMissed, Loop!Closed, Importing
<1> QED
  BY <1>2, <1>4, <1>5 DEF Affected
=============================================================================
