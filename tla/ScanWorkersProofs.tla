------------------------- MODULE ScanWorkersProofs -------------------------
(***************************************************************************)
(* For any number of files and workers, whichever analyses hang, raise or  *)
(* die: the semaphore's slots are kept, no file is lost from the report    *)
(* and a result without a parse_error is that of a finished analysis.      *)
(***************************************************************************)
EXTENDS ScanWorkers, FiniteSetTheorems, TLAPS

(* The queue holds the one answer of a thread that has ended, there is a   *)
(* thread only after the task has its slot, and the task's result is its   *)
(* answer, which is "whole" only when the queue's is.                      *)
FileInv(f) ==
    /\ holder[f] # None => daemon[f] = "ended"
    /\ task[f] \in {"waiting", "starting"} => daemon[f] = "none"
    /\ answer[f] = "whole" => holder[f] = "whole"
    /\ task[f] = "returned" => answer[f] # None
    /\ results[f] # None => results[f] = answer[f]
    /\ task[f] = "done" => (results[f] # None <=> f \notin errors)
    /\ task[f] # "done" => results[f] = None /\ f \notin errors

FilesInv == \A f \in Files : FileInv(f)

(* Nothing is scanned once the report is made.                             *)
ReportInv == reported # None => /\ \A f \in Files : task[f] = "done"
                                /\ reported = Files \ errors

IInv == TypeOK /\ SlotsKept /\ FilesInv /\ ReportInv

LEMMA HoldingFinite == IsFiniteSet(Files) /\ Holding \in SUBSET Files /\ IsFiniteSet(Holding)
<1>1. IsFiniteSet(Files)
  BY FS_Interval, CountAssumption DEF Files
<1>2. Holding \in SUBSET Files
  BY DEF Holding
<1> QED
  BY <1>1, <1>2, FS_Subset

LEMMA Initially == Init => IInv
<1> SUFFICES ASSUME Init PROVE IInv
  OBVIOUS
<1>1. Holding = {}
  BY DEF Init, Holding
<1>2. SlotsKept
  BY <1>1, FS_EmptySet, CountAssumption DEF Init, SlotsKept
<1>3. TypeOK
  BY CountAssumption, NoneAssumption DEF Init, TypeOK, Answers
<1>4. FilesInv
  BY NoneAssumption DEF Init, FilesInv, FileInv, Answers
<1> QED
  BY <1>2, <1>3, <1>4 DEF Init, IInv, ReportInv

(* A task that moves between two states with a slot keeps it.              *)
LEMMA SlotStays ==
    ASSUME TypeOK, SlotsKept, NEW f \in Files, NEW s,
           task[f] \notin {"waiting", "done"}, s \notin {"waiting", "done"},
           task' = [task EXCEPT ![f] = s], free' = free
    PROVE  SlotsKept'
<1>1. Holding' = Holding
  BY DEF TypeOK, Holding
<1> QED
  BY <1>1 DEF SlotsKept

LEMMA SlotTaken ==
    ASSUME TypeOK, SlotsKept, NEW f \in Files, task[f] = "waiting", free > 0,
           task' = [task EXCEPT ![f] = "starting"], free' = free - 1
    PROVE  SlotsKept' /\ free' \in 0..MaxWorkers
<1>1. Holding' = Holding \cup {f} /\ f \notin Holding
  BY DEF TypeOK, Holding
<1>2. Cardinality(Holding') = Cardinality(Holding) + 1
  BY <1>1, HoldingFinite, FS_AddElement
<1>3. Cardinality(Holding) \in Nat
  BY HoldingFinite, FS_CardinalityType
<1> QED
  BY <1>2, <1>3, CountAssumption DEF SlotsKept, TypeOK

LEMMA SlotReleased ==
    ASSUME TypeOK, SlotsKept, NEW f \in Files, task[f] \notin {"waiting", "done"},
           task' = [task EXCEPT ![f] = "done"], free' = free + 1
    PROVE  SlotsKept' /\ free' \in 0..MaxWorkers
<1>1. Holding' = Holding \ {f} /\ f \in Holding
  BY DEF TypeOK, Holding
<1>2. Cardinality(Holding') = Cardinality(Holding) - 1
  BY <1>1, HoldingFinite, FS_RemoveElement
<1>3. Cardinality(Holding) \in Nat /\ IsFiniteSet(Holding')
  BY <1>1, HoldingFinite, FS_CardinalityType, FS_Subset
<1>4. Cardinality(Holding') \in Nat
  BY <1>3, FS_CardinalityType
<1> QED
  BY <1>2, <1>3, <1>4, CountAssumption DEF SlotsKept, TypeOK

(* While a task is not done there is no report yet.                        *)
LEMMA Unreported == ASSUME ReportInv, NEW f \in Files, task[f] # "done" PROVE reported = None
BY DEF ReportInv

LEMMA LoopStep == ASSUME IInv, NEW f \in Files, Loop(f) PROVE IInv'
<1> USE DEF IInv, pool
<1>1. CASE Acquire(f)
  <2>1. SlotsKept' /\ free' \in 0..MaxWorkers
    BY <1>1, SlotTaken DEF Acquire
  <2>2. TypeOK'
    BY <1>1, <2>1 DEF Acquire, TypeOK
  <2>3. FilesInv'
    BY <1>1 DEF Acquire, FilesInv, FileInv, TypeOK
  <2>4. ReportInv'
    BY <1>1, Unreported DEF Acquire, ReportInv
  <2> QED
    BY <2>1, <2>2, <2>3, <2>4
<1>2. CASE Collect(f)
  <2>1. SlotsKept' /\ free' \in 0..MaxWorkers
    BY <1>2, SlotReleased DEF Collect
  <2>2. TypeOK'
    BY <1>2, <2>1 DEF Collect, TypeOK
  <2>3. FilesInv'
    BY <1>2 DEF Collect, FilesInv, FileInv, TypeOK
  <2>4. ReportInv'
    BY <1>2, Unreported DEF Collect, ReportInv
  <2> QED
    BY <2>1, <2>2, <2>3, <2>4
<1>3. CASE CollectError(f)
  <2>1. SlotsKept' /\ free' \in 0..MaxWorkers
    BY <1>3, SlotReleased DEF CollectError
  <2>2. TypeOK'
    BY <1>3, <2>1 DEF CollectError, TypeOK
  <2>3. FilesInv'
    BY <1>3 DEF CollectError, FilesInv, FileInv, TypeOK
  <2>4. ReportInv'
    BY <1>3, Unreported DEF CollectError, ReportInv
  <2> QED
    BY <2>1, <2>2, <2>3, <2>4
<1> QED
  BY <1>1, <1>2, <1>3 DEF Loop

(* The pool thread returns an answer that is "whole" only if the queue's is. *)
LEMMA ReturnsStep ==
    ASSUME IInv, NEW f \in Files, NEW a \in Answers, Returns(f, a),
           task[f] \in {"getting", "fallback"}, a = "whole" => holder[f] = "whole"
    PROVE  IInv'
<1> USE DEF IInv, Returns
<1>1. SlotsKept'
  BY SlotStays
<1>2. TypeOK'
  BY DEF TypeOK
<1>3. FilesInv'
  BY NoneAssumption DEF FilesInv, FileInv, TypeOK
<1>4. ReportInv'
  BY Unreported DEF ReportInv
<1> QED
  BY <1>1, <1>2, <1>3, <1>4

(* Another move of the task's pool thread that holds no answer.            *)
LEMMA MoveStep ==
    ASSUME IInv, NEW f \in Files, NEW s \in {"raised", "fallback"},
           task[f] \in {"starting", "getting"},
           task' = [task EXCEPT ![f] = s],
           UNCHANGED <<free, daemon, holder, answer, results, errors, reported>>
    PROVE  IInv'
<1> USE DEF IInv
<1>1. SlotsKept'
  BY SlotStays
<1>2. TypeOK'
  BY DEF TypeOK
<1>3. FilesInv'
  BY DEF FilesInv, FileInv, TypeOK
<1>4. ReportInv'
  BY Unreported DEF ReportInv
<1> QED
  BY <1>1, <1>2, <1>3, <1>4

LEMMA PoolStep == ASSUME IInv, NEW f \in Files, Pool(f) PROVE IInv'
<1>1. CASE Start(f)
  <2> USE <1>1 DEF IInv, Start
  <2>1. SlotsKept'
    BY SlotStays
  <2>2. TypeOK'
    BY DEF TypeOK
  <2>3. FilesInv'
    BY DEF FilesInv, FileInv, TypeOK
  <2>4. ReportInv'
    BY Unreported DEF ReportInv
  <2> QED
    BY <2>1, <2>2, <2>3, <2>4
<1>2. CASE StartRaises(f)
  BY <1>2, MoveStep DEF StartRaises
<1>3. CASE Get(f)
  <2>1. holder[f] \in {"whole", "error"}
    BY <1>3 DEF Get, IInv, TypeOK
  <2> QED
    BY <1>3, <2>1, ReturnsStep DEF Get, Answers
<1>4. CASE Timeout(f)
  BY <1>4, ReturnsStep, MoveStep DEF Timeout, TimeOver, Answers
<1>5. CASE FallbackEnds(f)
  BY <1>5, ReturnsStep DEF FallbackEnds, Answers
<1> QED
  BY <1>1, <1>2, <1>3, <1>4, <1>5 DEF Pool

LEMMA DaemonStep == ASSUME IInv, NEW f \in Files, Daemon(f) PROVE IInv'
<1> USE DEF IInv, pool
<1>1. CASE Put(f)
  <2>1. PICK a \in {"whole", "error"} : holder' = [holder EXCEPT ![f] = a]
    BY <1>1 DEF Put
  <2>2. TypeOK'
    BY <1>1, <2>1 DEF Put, TypeOK
  <2>3. FilesInv'
    BY <1>1, <2>1, NoneAssumption DEF Put, FilesInv, FileInv, TypeOK, Answers
  <2> QED
    BY <1>1, <2>2, <2>3 DEF Put, SlotsKept, Holding, ReportInv
<1>2. CASE Die(f)
  <2>1. TypeOK'
    BY <1>2 DEF Die, TypeOK
  <2>2. FilesInv'
    BY <1>2 DEF Die, FilesInv, FileInv, TypeOK
  <2> QED
    BY <1>2, <2>1, <2>2 DEF Die, SlotsKept, Holding, ReportInv
<1> QED
  BY <1>1, <1>2 DEF Daemon

LEMMA ReportStep == ASSUME IInv, Report PROVE IInv'
<1> USE DEF IInv, Report, pool
<1>1. {f \in Files : results[f] # None} = Files \ errors
  BY DEF FilesInv, FileInv
<1>2. TypeOK'
  BY DEF TypeOK
<1>3. FilesInv'
  BY DEF FilesInv, FileInv
<1> QED
  BY <1>1, <1>2, <1>3 DEF SlotsKept, Holding, ReportInv

LEMMA Inductive == Spec => []IInv
<1>1. ASSUME IInv, UNCHANGED vars PROVE IInv'
  BY <1>1 DEF IInv, vars, pool, TypeOK, SlotsKept, Holding, FilesInv, FileInv, ReportInv
<1>2. IInv /\ [Next]_vars => IInv'
  BY <1>1, LoopStep, PoolStep, DaemonStep, ReportStep DEF Next
<1> QED
  BY <1>2, Initially, PTL DEF Spec

-----------------------------------------------------------------------------
(* Types: the semaphore's value stays within its bounds.                   *)
THEOREM TypeCorrect == Spec => []TypeOK
<1>1. IInv => TypeOK
  BY DEF IInv
<1> QED
  BY <1>1, Inductive, PTL

(* scan_files_parallel neither loses nor doubles a slot.                   *)
THEOREM SlotsKeptHolds == Spec => []SlotsKept
<1>1. IInv => SlotsKept
  BY DEF IInv
<1> QED
  BY <1>1, Inductive, PTL

(* The report lacks no file but those whose scan raised.                   *)
THEOREM ReportCompleteHolds == Spec => []ReportComplete
<1>1. IInv => ReportComplete
  BY DEF IInv, ReportInv, ReportComplete
<1> QED
  BY <1>1, Inductive, PTL

(* A result without a parse_error is a finished analysis of the file.      *)
THEOREM WholeIsWholeHolds == Spec => []WholeIsWhole
<1>1. IInv => WholeIsWhole
  BY NoneAssumption DEF IInv, FilesInv, FileInv, WholeIsWhole, Answers
<1> QED
  BY <1>1, Inductive, PTL
=============================================================================
