------------------------- MODULE SummaryGraphProofs -------------------------
(***************************************************************************)
(* For any files, functions, labels, dependencies, similar names and       *)
(* edits: the index of callers is complete for what memory holds, which    *)
(* makes an invalidation reach every dependent in memory that names what   *)
(* it depends on by its normalised path, and while no process ends and no  *)
(* invalidation is cut short, what memory holds is up to date.             *)
(***************************************************************************)
EXTENDS SummaryGraph, TLAPS

Table == [Functions -> Summary \cup {None}]
Index == [Labels -> SUBSET Functions]

(* CallersKnown, of any summaries and index.                               *)
Known(m, r) == \A k \in Functions, d \in Labels : m[k] # None /\ d \in (m[k]).deps => k \in r[d]

(* A lookup that failed was of a function without facts.                   *)
MissingBare == \A k \in missing : mem[k] = None \/ (mem[k]).facts = Blank

(* No row outlives, within a process, the summary it was saved from.       *)
RowsInMemory == ~interrupted => \A k \in Functions : sumRow[k] # None => mem[k] # None

LEMMA NoneIsNoSummary == None \notin Summary
BY NoneAssumption DEF Summary

(* What an analyser computes is a summary.                                 *)
LEMMA ComputableType ==
    ASSUME NEW k \in Functions, NEW s \in Computable[k]
    PROVE  s \in Summary \cup {None} /\ (s # None => s \in Summary)
<1>1. Computable[k] \in SUBSET ([facts : Facts, deps : SUBSET Labels] \cup {None})
  BY ComputableAssumption
<1>2. s \in [facts : Facts, deps : SUBSET Labels] \cup {None}
  BY <1>1
<1>3. [facts : Facts, deps : SUBSET Labels] \subseteq Summary
  BY DEF Summary
<1> QED
  BY <1>2, <1>3

(* Rebuilding the index for k keeps its type, makes it complete for k and  *)
(* leaves it so for the others.                                            *)
LEMMA RebuiltIndex ==
    ASSUME NEW r \in Index, NEW k \in Functions, NEW s \in Summary
    PROVE  /\ Rebuilt(r, k, s.deps) \in Index
           /\ \A d \in s.deps : k \in Rebuilt(r, k, s.deps)[d]
           /\ \A j \in Functions, d \in Labels : j # k /\ j \in r[d] => j \in Rebuilt(r, k, s.deps)[d]
<1>1. s.deps \subseteq Labels
  BY DEF Summary
<1>2. \A d \in Labels : r[d] \subseteq Functions
  BY DEF Index
<1> QED
  BY <1>1, <1>2 DEF Rebuilt, Index

(* A summary entered together with its rebuilt index.                      *)
LEMMA EnteredKnown ==
    ASSUME NEW m \in Table, NEW r \in Index, Known(m, r),
           NEW k \in Functions, NEW s \in Summary
    PROVE  /\ [m EXCEPT ![k] = s] \in Table
           /\ Known([m EXCEPT ![k] = s], Rebuilt(r, k, s.deps))
<1>1. [m EXCEPT ![k] = s] \in Table
  BY DEF Table
<1>2. ASSUME NEW j \in Functions, NEW d \in Labels,
             [m EXCEPT ![k] = s][j] # None, d \in ([m EXCEPT ![k] = s][j]).deps
      PROVE  j \in Rebuilt(r, k, s.deps)[d]
  <2>1. CASE j = k
    <3>1. [m EXCEPT ![k] = s][j] = s
      BY <2>1 DEF Table
    <3> QED
      BY <1>2, <2>1, <3>1, RebuiltIndex
  <2>2. CASE j # k
    <3>1. [m EXCEPT ![k] = s][j] = m[j]
      BY <2>2 DEF Table
    <3>2. j \in r[d]
      BY <1>2, <3>1 DEF Known
    <3> QED
      BY <2>2, <3>2, RebuiltIndex
  <2> QED
    BY <2>1, <2>2
<1> QED
  BY <1>1, <1>2 DEF Known

(* The caller's summary with one more callee.                              *)
LEMMA CallingType ==
    ASSUME NEW m \in Table, NEW caller \in Functions, NEW callee \in Functions
    PROVE  /\ Calling(m, caller, callee) \in Summary
           /\ Calling(m, caller, callee).facts = Blank
                 \/ (m[caller] # None /\ Calling(m, caller, callee).facts = (m[caller]).facts)
           /\ m[caller] = None => Calling(m, caller, callee).facts = Blank
<1>0. callee \in Labels
  BY LabelsAssumption
<1>1. CASE m[caller] = None
  <2>1. Calling(m, caller, callee) = [facts |-> Blank, deps |-> {callee}]
    BY <1>1 DEF Calling
  <2> QED
    BY <1>0, <1>1, <2>1 DEF Summary
<1>2. CASE m[caller] # None
  <2>1. m[caller] \in Summary
    BY <1>2 DEF Table
  <2>2. Calling(m, caller, callee) = [m[caller] EXCEPT !.deps = @ \cup {callee}]
    BY <1>2 DEF Calling
  <2>3. Calling(m, caller, callee) = [facts |-> (m[caller]).facts, deps |-> (m[caller]).deps \cup {callee}]
    BY <2>1, <2>2 DEF Summary
  <2>4. (m[caller]).facts \in Facts \cup {Blank} /\ (m[caller]).deps \subseteq Labels
    BY <2>1 DEF Summary
  <2>5. Calling(m, caller, callee).facts = (m[caller]).facts
    BY <2>3
  <2>6. Calling(m, caller, callee) \in Summary
    BY <1>0, <2>3, <2>4 DEF Summary
  <2> QED
    BY <1>2, <2>5, <2>6
<1> QED
  BY <1>1, <1>2

(* Recording a call keeps the index complete, and no facts are changed.    *)
LEMMA WithCallKnown ==
    ASSUME NEW m \in Table, NEW r \in Index, Known(m, r),
           NEW caller \in Functions, NEW callee \in Functions,
           WithCall(m, r, caller, callee)
    PROVE  /\ mem' \in Table /\ rev' \in Index /\ Known(mem', rev')
           /\ mem' = [m EXCEPT ![caller] = Calling(m, caller, callee)]
<1> DEFINE s == Calling(m, caller, callee)
<1>1. s \in Summary
  BY CallingType
<1>2. mem' = [m EXCEPT ![caller] = s]
  BY DEF WithCall
<1>3. CASE m[caller] # None /\ callee \in (m[caller]).deps
  <2>1. rev' = r
    BY <1>3 DEF WithCall
  <2>2. m[caller] \in Summary
    BY <1>3 DEF Table
  <2>3. s = m[caller]
    <3>1. s = [m[caller] EXCEPT !.deps = (m[caller]).deps \cup {callee}]
      BY <1>3 DEF Calling
    <3>2. (m[caller]).deps \cup {callee} = (m[caller]).deps
      BY <1>3
    <3> QED
      BY <2>2, <3>1, <3>2 DEF Summary
  <2>4. [m EXCEPT ![caller] = s] = m
    BY <2>3 DEF Table
  <2> QED
    BY <1>2, <2>1, <2>4
<1>4. CASE ~(m[caller] # None /\ callee \in (m[caller]).deps)
  <2>1. rev' = Rebuilt(r, caller, s.deps)
    BY <1>4 DEF WithCall
  <2> HIDE DEF s
  <2>2. [m EXCEPT ![caller] = s] \in Table /\ Known([m EXCEPT ![caller] = s], Rebuilt(r, caller, s.deps))
    BY <1>1, EnteredKnown
  <2>3. Rebuilt(r, caller, s.deps) \in Index
    BY <1>1, RebuiltIndex
  <2> QED
    BY <1>2, <2>1, <2>2, <2>3 DEF s
<1> QED
  BY <1>3, <1>4

(* Loading a function's rows keeps the index complete.                     *)
LEMMA LoadedKnown ==
    ASSUME TypeOK, Known(mem, rev), NEW k \in Functions, sumRow[k] # None
    PROVE  LoadedMem(k) \in Table /\ LoadedRev(k) \in Index /\ Known(LoadedMem(k), LoadedRev(k))
<1>1. sumRow[k] \in Summary /\ depRow[k] \subseteq Functions
  BY DEF TypeOK
<1>2. mem \in Table /\ rev \in Index
  BY DEF TypeOK, Table, Index
<1> DEFINE r == Rebuilt(rev, k, sumRow[k].deps)
<1>3. LoadedMem(k) \in Table /\ Known(LoadedMem(k), r)
  BY <1>1, <1>2, EnteredKnown DEF LoadedMem
<1>4. r \in Index
  BY <1>1, <1>2, RebuiltIndex
<1>5. LoadedRev(k) = [r EXCEPT ![k] = r[k] \cup depRow[k]]
  BY DEF LoadedRev
<1> HIDE DEF r
<1>6. LoadedRev(k) \in Index /\ \A d \in Labels : r[d] \subseteq LoadedRev(k)[d]
  BY <1>1, <1>4, <1>5, LabelsAssumption DEF Index
<1> QED
  BY <1>3, <1>6 DEF Known

(* The set an invalidation drops holds the changed functions in memory and *)
(* is closed under the index.                                              *)
LEMMA InvalidatedClosed ==
    ASSUME NEW S
    PROVE  /\ Invalidated(S) \subseteq Functions
           /\ ChangedIn(S) \subseteq Invalidated(S)
           /\ \A d \in Invalidated(S), k \in Functions : k \in rev[d] => k \in Invalidated(S)
<1>1. ChangedIn(S) \subseteq Functions
  BY DEF ChangedIn
<1>2. ASSUME NEW d \in Invalidated(S), NEW k \in Functions, k \in rev[d]
      PROVE  k \in Invalidated(S)
  <2>1. ASSUME NEW T \in SUBSET Functions, ChangedIn(S) \subseteq T,
               \A e \in T : rev[e] \subseteq T
        PROVE  k \in T
    <3>1. d \in T
      BY <2>1 DEF Invalidated
    <3> QED
      BY <1>2, <2>1, <3>1
  <2> QED
    BY <2>1 DEF Invalidated
<1> QED
  BY <1>1, <1>2 DEF Invalidated

-----------------------------------------------------------------------------
(* The inductive invariant, action by action.                              *)

IInv == TypeOK /\ CallersKnown /\ RowsInMemory /\ FreshUninterrupted

LEMMA Initially == Init => IInv
<1> SUFFICES ASSUME Init PROVE IInv
  OBVIOUS
<1>1. \A k \in Functions : code[k] \in Summary \cup {None}
  BY ComputableType DEF Init
<1>2. code \in [Functions -> Summary \cup {None}]
  BY <1>1 DEF Init
<1>3. TypeOK
  BY <1>2 DEF Init, TypeOK, NoSummaries, NoCallers
<1> QED
  BY <1>3 DEF Init, IInv, CallersKnown, RowsInMemory, FreshUninterrupted, Fresh, NoSummaries, NoCallers

LEMMA EditStep ==
    ASSUME IInv, NEW k \in Functions, NEW s \in Computable[k], Edit(k, s)
    PROVE  IInv'
<1>1. s \in Summary \cup {None} /\ FileOf[k] \in Files
  BY ComputableType, FilesAssumption
<1> USE DEF IInv, Edit, graph, rows, history
<1>2. TypeOK'
  BY <1>1 DEF TypeOK
<1>3. \A j \in Functions : j # k => code'[j] = code[j]
  BY DEF TypeOK
<1>4. FreshUninterrupted'
  BY <1>3 DEF FreshUninterrupted, Fresh
<1> QED
  BY <1>2, <1>4 DEF CallersKnown, RowsInMemory

LEMMA RecordStep ==
    ASSUME IInv, NEW k \in Functions, Record(k)
    PROVE  IInv'
<1> USE DEF IInv, Record, rows, history
<1>1. code[k] \in Summary /\ mem \in Table /\ rev \in Index /\ Known(mem, rev)
  BY DEF TypeOK, Table, Index, CallersKnown, Known
<1>2. mem' \in Table /\ Known(mem', rev')
  BY <1>1, EnteredKnown
<1>3. rev' \in Index
  BY <1>1, RebuiltIndex
<1>4. mem'[k] = code[k] /\ \A j \in Functions : j # k => mem'[j] = mem[j]
  BY <1>1 DEF Table
<1>5. TypeOK'
  <2>1. MissingBare'
    BY <1>4 DEF TypeOK, MissingBare
  <2> QED
    BY <1>2, <1>3, <2>1 DEF TypeOK, Table, Index, MissingBare
<1>6. CallersKnown'
  BY <1>2 DEF Known, CallersKnown
<1>7. RowsInMemory'
  BY <1>4 DEF RowsInMemory
<1>8. FreshUninterrupted'
  BY <1>4 DEF FreshUninterrupted, Fresh
<1> QED
  BY <1>5, <1>6, <1>7, <1>8

LEMMA LookupFailsStep ==
    ASSUME IInv, NEW k \in Functions, LookupFails(k)
    PROVE  IInv'
<1> USE DEF IInv, LookupFails, rows, history
<1>1. mem[k] = None
  BY DEF InMemory
<1>2. TypeOK'
  BY <1>1 DEF TypeOK
<1> QED
  BY <1>2 DEF CallersKnown, RowsInMemory, FreshUninterrupted, Fresh

(* What a call adds to memory has no facts that were not there.            *)
LEMMA WithCallFacts ==
    ASSUME NEW m \in Table, NEW caller \in Functions, NEW callee \in Functions,
           mem' = [m EXCEPT ![caller] = Calling(m, caller, callee)]
    PROVE  /\ \A k \in Functions : m[k] # None => mem'[k] # None
           /\ \A k \in Functions :
                 \/ mem'[k] = m[k]
                 \/ mem'[k] # None /\ (mem'[k]).facts = Blank
                 \/ mem'[k] # None /\ m[k] # None /\ (mem'[k]).facts = (m[k]).facts
           /\ \A k \in Functions :
                 m[k] = None \/ (m[k]).facts = Blank => mem'[k] = None \/ (mem'[k]).facts = Blank
<1> DEFINE s == Calling(m, caller, callee)
<1>1. /\ s \in Summary
      /\ s.facts = Blank \/ (m[caller] # None /\ s.facts = (m[caller]).facts)
  BY CallingType
<1>2. s # None
  BY <1>1, NoneIsNoSummary
<1>3. mem'[caller] = s /\ \A k \in Functions : k # caller => mem'[k] = m[k]
  BY DEF Table
<1> QED
  BY <1>1, <1>2, <1>3

LEMMA PropagateInMemoryStep ==
    ASSUME IInv, NEW caller \in Functions, NEW callee \in Functions,
           PropagateInMemory(caller, callee)
    PROVE  IInv'
<1> USE DEF IInv, PropagateInMemory, rows, history
<1>1. mem \in Table /\ rev \in Index /\ Known(mem, rev)
  BY DEF TypeOK, Table, Index, CallersKnown, Known
<1>2. /\ mem' \in Table /\ rev' \in Index /\ Known(mem', rev')
      /\ mem' = [mem EXCEPT ![caller] = Calling(mem, caller, callee)]
  BY <1>1, WithCallKnown
<1>3. /\ \A k \in Functions : mem[k] # None => mem'[k] # None
      /\ \A k \in Functions :
            \/ mem'[k] = mem[k]
            \/ mem'[k] # None /\ (mem'[k]).facts = Blank
            \/ mem'[k] # None /\ mem[k] # None /\ (mem'[k]).facts = (mem[k]).facts
      /\ \A k \in Functions :
            mem[k] = None \/ (mem[k]).facts = Blank => mem'[k] = None \/ (mem'[k]).facts = Blank
  BY <1>1, <1>2, WithCallFacts
<1>4. TypeOK'
  <2>1. MissingBare'
    BY <1>3 DEF TypeOK, MissingBare
  <2> QED
    BY <1>2, <2>1 DEF TypeOK, Table, Index, MissingBare
<1>5. CallersKnown'
  BY <1>2 DEF Known, CallersKnown
<1>6. RowsInMemory'
  BY <1>3 DEF RowsInMemory
<1>7. FreshUninterrupted'
  BY <1>3 DEF FreshUninterrupted, Fresh
<1> QED
  BY <1>4, <1>5, <1>6, <1>7

(* Nothing is loaded in an uninterrupted process: a function with a row is *)
(* in memory.                                                              *)
LEMMA PropagateLoadingStep ==
    ASSUME IInv, NEW caller \in Functions, NEW callee \in Functions,
           PropagateLoading(caller, callee)
    PROVE  IInv'
<1> USE DEF IInv, PropagateLoading, rows, history
<1>1. mem[callee] = None /\ sumRow[callee] # None
  BY DEF Loadable
<1>2. interrupted
  BY <1>1 DEF RowsInMemory
<1> DEFINE m == LoadedMem(callee)
<1>3. m \in Table /\ LoadedRev(callee) \in Index /\ Known(m, LoadedRev(callee))
  BY <1>1, LoadedKnown DEF CallersKnown, Known
<1>4. /\ mem' \in Table /\ rev' \in Index /\ Known(mem', rev')
      /\ mem' = [m EXCEPT ![caller] = Calling(m, caller, callee)]
  BY <1>3, WithCallKnown
<1>5. \A k \in Functions :
         m[k] = None \/ (m[k]).facts = Blank => mem'[k] = None \/ (mem'[k]).facts = Blank
  BY <1>3, <1>4, WithCallFacts
<1>6. \A k \in Functions : k # callee => m[k] = mem[k]
  BY DEF LoadedMem, TypeOK
<1>7. TypeOK'
  <2>1. MissingBare'
    BY <1>5, <1>6 DEF TypeOK, MissingBare
  <2> QED
    BY <1>4, <2>1 DEF TypeOK, Table, Index, MissingBare
<1>8. CallersKnown'
  BY <1>4 DEF Known, CallersKnown
<1> QED
  BY <1>2, <1>7, <1>8 DEF RowsInMemory, FreshUninterrupted

LEMMA SaveStep ==
    ASSUME IInv, Save
    PROVE  IInv'
<1>1. PICK w \in LastWritten, S \in SUBSET Functions, D \in SUBSET Functions :
         /\ sumRow' = [k \in Functions |-> IF k \in S THEN SavedSum[k] ELSE sumRow[k]]
         /\ depRow' = [k \in Functions |-> IF k \in D THEN SavedDep(w)[k] ELSE depRow[k]]
         /\ UNCHANGED <<code, graph, history>>
  BY DEF Save
<1> USE DEF IInv, graph, history
<1>2. SavedSum \in [Functions -> Summary \cup {None}] /\ SavedDep(w) \in [Functions -> SUBSET Functions]
  BY DEF SavedSum, SavedDep, LastWritten, TypeOK
<1>3. /\ sumRow' \in [Functions -> Summary \cup {None}]
      /\ depRow' \in [Functions -> SUBSET Functions]
  BY <1>1, <1>2 DEF TypeOK
<1>4. TypeOK'
  BY <1>1, <1>3 DEF TypeOK
<1>5. RowsInMemory'
  <2>1. \A k \in Functions : sumRow'[k] = sumRow[k] \/ sumRow'[k] = mem[k]
    BY <1>1 DEF SavedSum
  <2> QED
    BY <1>1, <2>1 DEF RowsInMemory
<1> QED
  BY <1>1, <1>4, <1>5 DEF CallersKnown, FreshUninterrupted, Fresh

LEMMA RestartStep ==
    ASSUME IInv, Restart
    PROVE  IInv'
<1> USE DEF IInv, Restart, rows, NoSummaries, NoCallers
<1>1. TypeOK'
  BY DEF TypeOK
<1> QED
  BY <1>1 DEF CallersKnown, RowsInMemory, FreshUninterrupted

(* What memory keeps of a changed file after an invalidation: nothing.     *)
LEMMA InvalidateStep ==
    ASSUME IInv, NEW S \in SUBSET Files, Invalidate(S)
    PROVE  IInv'
<1> DEFINE K == Invalidated(S)
<1>1. K \subseteq Functions /\ ChangedIn(S) \subseteq K
  BY InvalidatedClosed
<1> HIDE DEF K
<1>2. /\ mem' = [k \in Functions |-> IF k \in K THEN None ELSE mem[k]]
      /\ rev' = [d \in Labels |-> rev[d] \ K]
      /\ missing' = missing \ K
      /\ sumRow' = [k \in Functions |-> IF k \in K THEN None ELSE sumRow[k]]
      /\ depRow' = [k \in Functions |-> IF k \in K THEN {} ELSE depRow[k]]
      /\ changed' = changed \ S
      /\ code' = code /\ interrupted' = interrupted
  BY DEF Invalidate, Forget, K
<1> USE DEF IInv
<1>3. TypeOK'
  BY <1>2 DEF TypeOK
<1>4. CallersKnown'
  BY <1>2 DEF CallersKnown
<1>5. RowsInMemory'
  BY <1>2 DEF RowsInMemory
<1>6. FreshUninterrupted'
  <2>1. \A k \in Functions : FileOf[k] \in S => mem'[k] = None
    BY <1>1, <1>2 DEF ChangedIn
  <2>2. \A k \in Functions : mem'[k] = None \/ mem'[k] = mem[k]
    BY <1>2
  <2> QED
    BY <1>2, <2>1, <2>2 DEF FreshUninterrupted, Fresh
<1> QED
  BY <1>3, <1>4, <1>5, <1>6

LEMMA InvalidateFailsStep ==
    ASSUME IInv, NEW S \in SUBSET Files, InvalidateFails(S)
    PROVE  IInv'
<1>1. PICK K \in SUBSET Invalidated(S) : \E k \in Invalidated(S) \ K : \E R \in {K, K \cup {k}} :
        /\ mem' = [j \in Functions |-> IF j \in K \cup {k} THEN None ELSE mem[j]]
        /\ missing' = missing \ (K \cup {k})
        /\ sumRow' = [j \in Functions |-> IF j \in R THEN None ELSE sumRow[j]]
        /\ depRow' = [j \in Functions |-> IF j \in K THEN {} ELSE depRow[j]]
        /\ interrupted' = TRUE
        /\ UNCHANGED <<code, rev, changed>>
  BY DEF InvalidateFails
<1>2. PICK k \in Invalidated(S) \ K : \E R \in {K, K \cup {k}} :
        /\ mem' = [j \in Functions |-> IF j \in K \cup {k} THEN None ELSE mem[j]]
        /\ missing' = missing \ (K \cup {k})
        /\ sumRow' = [j \in Functions |-> IF j \in R THEN None ELSE sumRow[j]]
        /\ depRow' = [j \in Functions |-> IF j \in K THEN {} ELSE depRow[j]]
        /\ interrupted' = TRUE
        /\ code' = code /\ rev' = rev /\ changed' = changed
  BY <1>1
<1>3. PICK R \in {K, K \cup {k}} :
        /\ mem' = [j \in Functions |-> IF j \in K \cup {k} THEN None ELSE mem[j]]
        /\ missing' = missing \ (K \cup {k})
        /\ sumRow' = [j \in Functions |-> IF j \in R THEN None ELSE sumRow[j]]
        /\ depRow' = [j \in Functions |-> IF j \in K THEN {} ELSE depRow[j]]
        /\ interrupted' = TRUE
        /\ code' = code /\ rev' = rev /\ changed' = changed
  BY <1>2
<1> USE DEF IInv
<1>4. TypeOK'
  BY <1>3 DEF TypeOK
<1>5. CallersKnown'
  BY <1>3 DEF CallersKnown
<1> QED
  BY <1>3, <1>4, <1>5 DEF RowsInMemory, FreshUninterrupted

LEMMA IInvStep == IInv /\ [Next]_vars => IInv'
<1> SUFFICES ASSUME IInv, [Next]_vars PROVE IInv'
  OBVIOUS
<1>1. CASE Next
  <2>1. CASE \E k \in Functions : Record(k) \/ \E s \in Computable[k] : Edit(k, s)
    BY <2>1, RecordStep, EditStep
  <2>2. CASE \E k \in Functions : \E callee \in CallsOf[k] :
                PropagateInMemory(k, callee) \/ PropagateLoading(k, callee) \/ LookupFails(callee)
    <3>1. \A k \in Functions : CallsOf[k] \subseteq Functions
      BY FilesAssumption
    <3> QED
      BY <2>2, <3>1, PropagateInMemoryStep, PropagateLoadingStep, LookupFailsStep
  <2>3. CASE Save \/ Restart
    BY <2>3, SaveStep, RestartStep
  <2>4. CASE \E S \in SUBSET Files : Invalidate(S) \/ InvalidateFails(S)
    BY <2>4, InvalidateStep, InvalidateFailsStep
  <2> QED
    BY <1>1, <2>1, <2>2, <2>3, <2>4 DEF Next
<1>2. CASE UNCHANGED vars
  BY <1>2 DEF vars, graph, rows, history, IInv, TypeOK, CallersKnown, RowsInMemory, FreshUninterrupted, Fresh
<1> QED
  BY <1>1, <1>2

LEMMA Inductive == Spec => []IInv
BY Initially, IInvStep, PTL DEF Spec

-----------------------------------------------------------------------------
(* Types, and a function with facts in memory is not known as missing.     *)
THEOREM TypeCorrect == Spec => []TypeOK
<1>1. IInv => TypeOK
  BY DEF IInv
<1> QED
  BY <1>1, Inductive, PTL

(* The reverse index of ir/global_graph.py knows every caller of memory's  *)
(* summaries under the label it depends on, however they came there.       *)
THEOREM CallersKnownHolds == Spec => []CallersKnown
<1>1. IInv => CallersKnown
  BY DEF IInv
<1> QED
  BY <1>1, Inductive, PTL

(* Within the first process, while the database answers, memory is fresh   *)
(* in the files invalidated since they changed.                            *)
THEOREM FreshUninterruptedHolds == Spec => []FreshUninterrupted
<1>1. IInv => FreshUninterrupted
  BY DEF IInv
<1> QED
  BY <1>1, Inductive, PTL

(* invalidate_changed_files leaves no summary of a changed file and none   *)
(* that depends by a normalised name on one it dropped, at any distance.   *)
LEMMA SurvivorsStep ==
    ASSUME IInv, NEW S \in SUBSET Files, Invalidate(S),
           NEW k \in Functions, mem'[k] # None
    PROVE  /\ FileOf[k] \notin S
           /\ \A d \in mem'[k].deps \cap Functions : mem[d] # None => mem'[d] # None
<1> DEFINE K == Invalidated(S)
<1>1. mem' = [j \in Functions |-> IF j \in K THEN None ELSE mem[j]]
  BY DEF Invalidate, Forget
<1>2. k \notin K /\ mem'[k] = mem[k] /\ mem[k] # None
  BY <1>1
<1>3. FileOf[k] \notin S
  BY <1>2, InvalidatedClosed DEF ChangedIn
<1>4. \A d \in (mem[k]).deps \cap Functions : d \notin K
  BY <1>2, InvalidatedClosed, LabelsAssumption DEF IInv, CallersKnown
<1> QED
  BY <1>1, <1>2, <1>3, <1>4

THEOREM SurvivorsUnaffectedHolds == Spec => SurvivorsUnaffected
<1>1. ASSUME IInv, [Next]_vars
      PROVE  [\A S \in SUBSET Files : Invalidate(S) =>
                \A k \in Functions : mem'[k] # None =>
                    /\ FileOf[k] \notin S
                    /\ \A d \in mem'[k].deps \cap Functions : mem[d] # None => mem'[d] # None]_vars
  BY <1>1, SurvivorsStep
<1> QED
  BY <1>1, Inductive, PTL DEF Spec, SurvivorsUnaffected
=============================================================================
