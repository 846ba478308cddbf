--------------------------- MODULE FixedPointProofs ---------------------------
(***************************************************************************)
(* The two algorithms that repeat until nothing is added: solve() of the   *)
(* IFDS solver, for every program, every set of flow functions and every   *)
(* depth of contexts, and affected_files of the incremental cache, for     *)
(* every import graph and every order of its passes.  Each returns the     *)
(* least closed set.                                                       *)
(***************************************************************************)
EXTENDS IFDSSolver, AffectedFiles, SequenceTheorems, FiniteSetTheorems, WellFoundedInduction, TLAPS

-----------------------------------------------------------------------------
(* Contexts.                                                               *)

(* A context is a sequence of call sites no longer than MaxDepth, and every *)
(* such sequence is one.                                                   *)
LEMMA ContextSeq ==
    ASSUME NEW s
    PROVE  s \in Contexts <=> s \in Seq(CallNodes) /\ Len(s) <= MaxDepth
<1>0. MaxDepth \in Nat
  BY DepthAssumption
<1>1. ASSUME s \in Contexts
      PROVE  s \in Seq(CallNodes) /\ Len(s) <= MaxDepth
  <2>1. PICK d \in 0..MaxDepth : s \in [1..d -> CallNodes]
    BY <1>1 DEF Contexts
  <2>2. d \in Nat /\ d <= MaxDepth
    BY <1>0
  <2> QED
    BY <2>1, <2>2
<1>2. ASSUME s \in Seq(CallNodes), Len(s) <= MaxDepth
      PROVE  s \in Contexts
  <2>1. s \in [1..Len(s) -> CallNodes] /\ Len(s) \in Nat
    BY <1>2, LenProperties
  <2>2. Len(s) \in 0..MaxDepth
    BY <1>0, <1>2, <2>1
  <2> QED
    BY <2>1, <2>2 DEF Contexts
<1> QED
  BY <1>1, <1>2

(* A pushed context is a context, and ends with the call pushed.           *)
LEMMA PushContext ==
    ASSUME NEW ctx \in Contexts, NEW c \in CallNodes
    PROVE  /\ Push(ctx, c) \in Contexts
           /\ Push(ctx, c) # <<>>
           /\ Push(ctx, c)[Len(Push(ctx, c))] = c
<1>1. ctx \in Seq(CallNodes) /\ Len(ctx) \in Nat /\ Len(ctx) <= MaxDepth
  BY ContextSeq, LenProperties
<1>2. MaxDepth \in Nat \ {0}
  BY DepthAssumption
<1>3. PICK s \in Seq(CallNodes) : Len(s) < MaxDepth /\ Push(ctx, c) = Append(s, c)
  <2>1. CASE Len(ctx) < MaxDepth
    BY <1>1, <2>1 DEF Push
  <2>2. CASE ~(Len(ctx) < MaxDepth)
    <3>1. ctx # <<>> /\ Push(ctx, c) = Append(Tail(ctx), c)
      BY <1>1, <1>2, <2>2 DEF Push
    <3>2. Tail(ctx) \in Seq(CallNodes) /\ Len(Tail(ctx)) = Len(ctx) - 1
      BY <1>1, <3>1, HeadTailProperties
    <3>3. Len(Tail(ctx)) < MaxDepth
      BY <1>1, <1>2, <3>2
    <3> QED
      BY <3>1, <3>2, <3>3
  <2> QED
    BY <2>1, <2>2
<1>4. /\ Append(s, c) \in Seq(CallNodes) /\ Append(s, c) # <<>>
      /\ Len(Append(s, c)) = Len(s) + 1 /\ Append(s, c)[Len(s) + 1] = c
  OBVIOUS
<1>5. Len(Append(s, c)) <= MaxDepth
  <2>1. Len(s) \in Nat
    BY LenProperties
  <2> QED
    BY <1>2, <1>3, <1>4, <2>1
<1>6. Append(s, c) \in Contexts
  BY <1>4, <1>5, ContextSeq
<1> QED
  BY <1>3, <1>4, <1>6

(* A popped context is a context.                                          *)
LEMMA PopContext ==
    ASSUME NEW ctx \in Contexts
    PROVE  Pop(ctx) \in Contexts
<1>1. ctx \in Seq(CallNodes) /\ Len(ctx) \in Nat /\ Len(ctx) <= MaxDepth /\ MaxDepth \in Nat
  BY ContextSeq, LenProperties, DepthAssumption
<1>2. CASE ctx = <<>>
  BY <1>2 DEF Pop
<1>3. CASE ctx # <<>>
  <2>1. Len(ctx) >= 1 /\ Pop(ctx) = SubSeq(ctx, 1, Len(ctx) - 1)
    BY <1>1, <1>3, EmptySeq DEF Pop
  <2>2. \A i \in 1..(Len(ctx) - 1) : ctx[i] \in CallNodes
    BY <1>1, ElementOfSeq
  <2>3. /\ SubSeq(ctx, 1, Len(ctx) - 1) \in Seq(CallNodes)
        /\ Len(SubSeq(ctx, 1, Len(ctx) - 1)) <= Len(ctx)
    BY <1>1, <2>1, <2>2, SubSeqProperties
  <2>4. Len(SubSeq(ctx, 1, Len(ctx) - 1)) \in Nat
    BY <2>3, LenProperties
  <2>5. Len(SubSeq(ctx, 1, Len(ctx) - 1)) <= MaxDepth
    BY <1>1, <2>3, <2>4
  <2>6. SubSeq(ctx, 1, Len(ctx) - 1) \in Contexts
    BY <2>3, <2>5, ContextSeq
  <2> QED
    BY <2>1, <2>6
<1> QED
  BY <1>2, <1>3

(* Propagation stays within the program.                                   *)
LEMMA PropagatedType ==
    ASSUME edges \subseteq Flows, NEW n \in Nodes, NEW ctx \in Contexts, NEW f \in Facts
    PROVE  Propagated(n, ctx, f) \subseteq Triples
<1>1. AlongEdges(n, ctx, f) \subseteq Triples
  <2> SUFFICES ASSUME NEW e \in edges, NEW h \in e.fn[f]
               PROVE  <<e.to, ctx, h>> \in Triples
    BY DEF AlongEdges
  <2>1. e.to \in Nodes /\ e.fn \in [Facts -> SUBSET Facts]
    BY FlowAssumption
  <2> QED
    BY <2>1 DEF Triples
<1>2. IntoCallee(n, ctx, f) \subseteq Triples
  BY PushContext, GraphAssumption DEF IntoCallee, Triples
<1>3. BackToCall(n, ctx, f) \subseteq Triples
  <2> SUFFICES ASSUME NEW e \in edges
               PROVE  <<e.to, Pop(ctx), f>> \in Triples
    BY DEF BackToCall
  <2>1. e.to \in Nodes
    BY FlowAssumption
  <2> QED
    BY <2>1, PopContext DEF Triples
<1> QED
  BY <1>1, <1>2, <1>3 DEF Propagated

(* Propagation depends on the registered edges and on nothing that solving *)
(* or seeding changes.                                                     *)
LEMMA PropagatedSame ==
    ASSUME UNCHANGED edges, NEW n, NEW ctx, NEW f
    PROVE  Propagated(n, ctx, f)' = Propagated(n, ctx, f)
BY DEF Propagated, AlongEdges, IntoCallee, BackToCall

-----------------------------------------------------------------------------
(* The inductive invariant.                                                *)

(* Every fact is waiting at its key or has been propagated already.        *)
Pending ==
    \A t \in result : <<t[1], t[2]>> \in worklist \/ Propagated(t[1], t[2], t[3]) \subseteq result

(* Before the first solve() only seeds are known, and all of them wait.    *)
SetupOnly ==
    phase = "setup" => result = seeds /\ \A t \in result : <<t[1], t[2]>> \in worklist

IInv == TypeOK /\ seeds \subseteq result /\ SetupOnly /\ Pending

LEMMA InitInv == Init => IInv
BY DEF Init, IInv, TypeOK, SetupOnly, Pending

(* One turn of the loop keeps the invariant: what was propagated before is *)
(* still there, the key taken has been propagated now, and a key that got  *)
(* a new fact is queued.                                                   *)
LEMMA ProcessInv ==
    ASSUME IInv, NEW n \in Nodes, NEW ctx \in Contexts, Process(n, ctx)
    PROVE  IInv'
<1> USE DEF IInv
<1>1. /\ phase = "solving" /\ <<n, ctx>> \in worklist
      /\ result' = result \cup Reached(n, ctx)
      /\ worklist' = (worklist \ {<<n, ctx>>})
                       \cup {<<t[1], t[2]>> : t \in Reached(n, ctx) \ result}
      /\ UNCHANGED <<edges, seeds, phase>>
  BY DEF Process
<1>2. Reached(n, ctx) \subseteq Triples
  BY PropagatedType DEF Reached, FactsAt, TypeOK
<1>3. TypeOK'
  <2>1. \A t \in Triples : <<t[1], t[2]>> \in Keys
    BY DEF Triples, Keys
  <2> QED
    BY <1>1, <1>2, <2>1 DEF TypeOK
<1>4. Pending'
  <2> SUFFICES ASSUME NEW t \in result', <<t[1], t[2]>> \notin worklist'
               PROVE  Propagated(t[1], t[2], t[3])' \subseteq result'
    BY DEF Pending
  <2>1. t \in result
    BY <1>1
  <2>2. CASE <<t[1], t[2]>> = <<n, ctx>>
    <3>1. t[1] = n /\ t[2] = ctx /\ t[3] \in Facts /\ <<n, ctx, t[3]>> \in result
      BY <2>1, <2>2 DEF TypeOK, Triples
    <3>2. Propagated(n, ctx, t[3]) \subseteq Reached(n, ctx)
      BY <3>1 DEF Reached, FactsAt
    <3> QED
      BY <1>1, <3>1, <3>2, PropagatedSame
  <2>3. CASE <<t[1], t[2]>> # <<n, ctx>>
    <3>1. <<t[1], t[2]>> \notin worklist
      BY <1>1, <2>3
    <3>2. Propagated(t[1], t[2], t[3]) \subseteq result
      BY <2>1, <3>1 DEF Pending
    <3> QED
      BY <1>1, <3>2, PropagatedSame
  <2> QED
    BY <2>2, <2>3
<1> QED
  BY <1>1, <1>3, <1>4 DEF SetupOnly

LEMMA StepInv == IInv /\ [Next]_vars => IInv'
<1> SUFFICES ASSUME IInv, [Next]_vars
             PROVE  IInv'
  OBVIOUS
<1> USE DEF IInv
<1>1. ASSUME NEW e \in Flows, AddEdge(e)
      PROVE  IInv'
  BY <1>1 DEF AddEdge, TypeOK, SetupOnly, Pending
<1>2. ASSUME NEW t \in Sources, SetSeed(t)
      PROVE  IInv'
  <2>1. t \in Triples /\ <<t[1], t[2]>> \in Keys
    BY SourceAssumption DEF Triples, Keys
  <2>2. TypeOK' /\ seeds' \subseteq result' /\ SetupOnly'
    BY <1>2, <2>1 DEF SetSeed, TypeOK, SetupOnly
  <2>3. Pending'
    <3> SUFFICES ASSUME NEW r \in result', <<r[1], r[2]>> \notin worklist'
                 PROVE  Propagated(r[1], r[2], r[3])' \subseteq result'
      BY DEF Pending
    <3>1. r \in result /\ <<r[1], r[2]>> \notin worklist
      BY <1>2 DEF SetSeed
    <3>2. Propagated(r[1], r[2], r[3]) \subseteq result
      BY <3>1 DEF Pending
    <3> QED
      BY <1>2, <3>2, PropagatedSame DEF SetSeed
  <2> QED
    BY <2>2, <2>3
<1>3. CASE Solve
  <2>1. Pending'
    BY <1>3, PropagatedSame DEF Solve, Pending
  <2> QED
    BY <1>3, <2>1 DEF Solve, TypeOK, SetupOnly
<1>4. ASSUME NEW n \in Nodes, NEW ctx \in Contexts, Process(n, ctx)
      PROVE  IInv'
  BY <1>4, ProcessInv
<1>5. CASE Return
  <2>1. Pending'
    BY <1>5, PropagatedSame DEF Return, Pending
  <2> QED
    BY <1>5, <2>1 DEF Return, TypeOK, SetupOnly
<1>6. CASE UNCHANGED vars
  <2>1. Pending'
    BY <1>6, PropagatedSame DEF vars, Pending
  <2> QED
    BY <1>6, <2>1 DEF vars, TypeOK, SetupOnly
<1> QED
  BY <1>1, <1>2, <1>3, <1>4, <1>5, <1>6 DEF Next, Client, Loop

(* The solver's state is well typed: no context outgrows MaxDepth, however *)
(* deep the recursion of the program.                                      *)
THEOREM TypeCorrect == Spec => []TypeOK
<1>1. IInv => TypeOK
  BY DEF IInv
<1> QED
  BY InitInv, StepInv, <1>1, PTL DEF Spec

(* What solve() returns holds the seeds and is closed under propagation,   *)
(* whatever the program, the flow functions and the order of the worklist. *)
THEOREM FixedPointHolds == Spec => []FixedPoint
<1>1. IInv => FixedPoint
  BY DEF IInv, Pending, FixedPoint
<1> QED
  BY InitInv, StepInv, <1>1, PTL DEF Spec

-----------------------------------------------------------------------------
(* No fact too many.                                                       *)

(* The result lies in every set that holds the seeds and is closed under   *)
(* propagation: with FixedPoint it is the least of them.                   *)
Least ==
    \A R \in SUBSET Triples :
        (seeds \subseteq R /\ \A t \in R : Propagated(t[1], t[2], t[3]) \subseteq R) => result \subseteq R

LEMMA LeastStep == IInv /\ Least /\ [Next]_vars => Least'
<1> SUFFICES ASSUME IInv, Least, [Next]_vars,
                    NEW R \in SUBSET Triples, seeds' \subseteq R,
                    \A t \in R : Propagated(t[1], t[2], t[3])' \subseteq R
             PROVE  result' \subseteq R
  BY DEF Least
<1>1. ASSUME NEW e \in Flows, AddEdge(e)
      PROVE  result' \subseteq R
  BY <1>1 DEF AddEdge, IInv, SetupOnly
<1>2. ASSUME UNCHANGED edges, seeds \subseteq seeds'
      PROVE  result \subseteq R
  BY <1>2, PropagatedSame DEF Least
<1>3. ASSUME NEW t \in Sources, SetSeed(t)
      PROVE  result' \subseteq R
  BY <1>2, <1>3 DEF SetSeed
<1>4. CASE Solve
  BY <1>2, <1>4 DEF Solve
<1>5. ASSUME NEW n \in Nodes, NEW ctx \in Contexts, Process(n, ctx)
      PROVE  result' \subseteq R
  <2>1. UNCHANGED <<edges, seeds>> /\ result' = result \cup Reached(n, ctx)
    BY <1>5 DEF Process
  <2>2. result \subseteq R
    BY <1>2, <2>1
  <2>3. Reached(n, ctx) \subseteq R
    <3> SUFFICES ASSUME NEW f \in FactsAt(n, ctx)
                 PROVE  Propagated(n, ctx, f) \subseteq R
      BY DEF Reached
    <3>1. <<n, ctx, f>> \in R
      BY <2>2 DEF FactsAt
    <3>2. Propagated(n, ctx, f)' \subseteq R
      BY <3>1
    <3> QED
      BY <2>1, <3>2, PropagatedSame
  <2> QED
    BY <2>1, <2>2, <2>3
<1>6. CASE Return
  BY <1>2, <1>6 DEF Return
<1>7. CASE UNCHANGED vars
  BY <1>2, <1>7 DEF vars
<1> QED
  BY <1>1, <1>3, <1>4, <1>5, <1>6, <1>7 DEF Next, Client, Loop

(* The result is at all times within every solution.                       *)
THEOREM LeastHolds == Spec => []Least
<1>1. Init => IInv /\ Least
  BY InitInv DEF Init, Least
<1>2. IInv /\ Least /\ [Next]_vars => (IInv /\ Least)'
  BY StepInv, LeastStep
<1> QED
  BY <1>1, <1>2, PTL DEF Spec

-----------------------------------------------------------------------------
(* Contexts keep calls apart.                                              *)

LEMMA OwnCallStep == IInv /\ OwnCallOnly /\ [Next]_vars => OwnCallOnly'
<1> SUFFICES ASSUME IInv, OwnCallOnly, [Next]_vars,
                    NEW t \in result' \ seeds', NEW g \in DOMAIN Entry,
                    t[1] = Entry[g], \A e \in edges' : e.to # t[1]
             PROVE  /\ t[2] # <<>>
                    /\ Callee[t[2][Len(t[2])]] = g
                    /\ \E ctx \in Contexts :
                          /\ Push(ctx, t[2][Len(t[2])]) = t[2]
                          /\ <<t[2][Len(t[2])], ctx, t[3]>> \in result'
  BY DEF OwnCallOnly
<1>1. ASSUME NEW e \in Flows, AddEdge(e)
      PROVE  FALSE
  BY <1>1 DEF AddEdge, IInv, SetupOnly
<1>2. CASE t \in result /\ t \notin seeds /\ UNCHANGED edges /\ result \subseteq result'
  BY <1>2 DEF OwnCallOnly
<1>3. ASSUME NEW s \in Sources, SetSeed(s)
      PROVE  t \in result /\ t \notin seeds /\ UNCHANGED edges /\ result \subseteq result'
  BY <1>3 DEF SetSeed
<1>4. ASSUME UNCHANGED <<edges, seeds, result>>
      PROVE  t \in result /\ t \notin seeds /\ UNCHANGED edges /\ result \subseteq result'
  BY <1>4
<1>5. ASSUME NEW n \in Nodes, NEW ctx \in Contexts, Process(n, ctx), t \notin result
      PROVE  /\ t[2] # <<>>
             /\ Callee[t[2][Len(t[2])]] = g
             /\ \E c \in Contexts :
                   /\ Push(c, t[2][Len(t[2])]) = t[2]
                   /\ <<t[2][Len(t[2])], c, t[3]>> \in result'
  <2>1. UNCHANGED <<edges, seeds>> /\ result' = result \cup Reached(n, ctx)
    BY <1>5 DEF Process
  <2>2. PICK f \in FactsAt(n, ctx) : t \in Propagated(n, ctx, f)
    BY <1>5, <2>1 DEF Reached
  <2>3. t \notin AlongEdges(n, ctx, f)
    BY <2>1 DEF AlongEdges
  <2>4. t \notin BackToCall(n, ctx, f)
    BY <2>1 DEF BackToCall
  <2>5. t \in IntoCallee(n, ctx, f)
    BY <2>2, <2>3, <2>4 DEF Propagated
  <2>6. /\ n \in CallNodes /\ Callee[n] \in DOMAIN Entry
        /\ t = <<Entry[Callee[n]], Push(ctx, n), f>>
    BY <2>5 DEF IntoCallee
  <2>7. Callee[n] = g
    BY <2>6, GraphAssumption
  <2>8. t[2] = Push(ctx, n) /\ t[3] = f
    BY <2>6
  <2>9. t[2] # <<>> /\ t[2][Len(t[2])] = n
    BY <2>6, <2>8, PushContext
  <2>10. <<n, ctx, f>> \in result'
    BY <2>1 DEF FactsAt
  <2> QED
    BY <2>7, <2>8, <2>9, <2>10
<1>6. ASSUME NEW n \in Nodes, NEW ctx \in Contexts, Process(n, ctx)
      PROVE  t \notin seeds /\ UNCHANGED edges /\ result \subseteq result'
  BY <1>6 DEF Process
<1> QED
  BY <1>1, <1>2, <1>3, <1>4, <1>5, <1>6 DEF Next, Client, Loop, Solve, Return, vars

(* A fact that reached the entry of a function came from the call its      *)
(* context ends with, from a context that call leads from.                 *)
THEOREM OwnCallOnlyHolds == Spec => []OwnCallOnly
<1>1. Init => IInv /\ OwnCallOnly
  BY InitInv DEF Init, OwnCallOnly
<1>2. IInv /\ OwnCallOnly /\ [Next]_vars => (IInv /\ OwnCallOnly)'
  BY StepInv, OwnCallStep
<1> QED
  BY <1>1, <1>2, PTL DEF Spec

-----------------------------------------------------------------------------
(* Each fact has a path of its own.                                        *)

LEMMA LeastNumber == \A S \in SUBSET Nat : S # {} => \E n \in S : \A m \in S : n <= m
<1> SUFFICES ASSUME NEW S \in SUBSET Nat, S # {}
             PROVE  \E n \in S : \A m \in S : n <= m
  OBVIOUS
<1> DEFINE R == {ss \in Nat \X Nat : ss[1] < ss[2]}
<1>1. IsWellFoundedOn(R, Nat)
  BY NatLessThanWellFounded DEF OpToRel
<1>2. \A n, m \in Nat : <<m, n>> \in R <=> m < n
  OBVIOUS
<1> HIDE DEF R
<1>3. PICK n \in S : \A m \in S : ~(<<m, n>> \in R)
  BY <1>1, WFMin
<1>4. ASSUME NEW m \in S PROVE n <= m
  <2>1. n \in Nat /\ m \in Nat /\ ~(m < n)
    BY <1>2, <1>3
  <2> QED
    BY <2>1
<1> QED
  BY <1>4

(* A set of numbers that holds 0 and the successor of each of its members. *)
LEMMA AllNumbers ==
    ASSUME NEW S \in SUBSET Nat, 0 \in S, \A k \in S : k + 1 \in S
    PROVE  S = Nat
<1>1. ASSUME Nat \ S # {} PROVE FALSE
  <2>1. PICK n \in Nat \ S : \A m \in Nat \ S : n <= m
    BY <1>1, LeastNumber
  <2>2. n - 1 \in Nat /\ ~(n <= n - 1)
    BY <2>1
  <2>3. n - 1 \in S
    BY <2>1, <2>2
  <2> QED
    BY <2>1, <2>3
<1> QED
  BY <1>1

(* A function may be iterated.                                             *)
LEMMA Iterated ==
    ASSUME NEW D, NEW S \in D, NEW F \in [D -> D]
    PROVE  \E h \in [Nat -> D] : h[0] = S /\ \A k \in Nat : h[k + 1] = F[h[k]]
<1> DEFINE G(n) == {g \in [0..n -> D] : g[0] = S /\ \A k \in 0..n : k < n => g[k + 1] = F[g[k]]}
<1>1. \A n \in Nat : G(n) # {}
  <2> DEFINE N == {n \in Nat : G(n) # {}}
  <2>1. 0 \in N
    <3>1. [k \in 0..0 |-> S] \in G(0)
      OBVIOUS
    <3> QED
      BY <3>1
  <2>2. ASSUME NEW n \in N PROVE n + 1 \in N
    <3>1. PICK g \in G(n) : TRUE
      OBVIOUS
    <3>2. PICK e : e = [k \in 0..(n + 1) |-> IF k = n + 1 THEN F[g[n]] ELSE g[k]]
      OBVIOUS
    <3>3. n \in Nat /\ \A k \in 0..n : g[k] \in D
      BY <3>1
    <3>4. \A k \in 0..(n + 1) : e[k] \in D
      BY <3>2, <3>3
    <3>5. e \in [0..(n + 1) -> D]
      BY <3>2, <3>4
    <3>6. e[0] = S
      BY <3>1, <3>2, <3>3
    <3>7. ASSUME NEW k \in 0..(n + 1), k < n + 1 PROVE e[k + 1] = F[e[k]]
      <4>1. CASE k = n
        BY <3>2, <3>3, <4>1
      <4>2. CASE k # n
        <5>1. k \in 0..n /\ k < n /\ k + 1 \in 0..n /\ k + 1 # n + 1 /\ k # n + 1
          BY <3>3, <3>7, <4>2
        <5>2. g[k + 1] = F[g[k]]
          BY <3>1, <5>1
        <5> QED
          BY <3>2, <3>3, <5>1, <5>2
      <4> QED
        BY <4>1, <4>2
    <3>8. e \in G(n + 1)
      BY <3>5, <3>6, <3>7
    <3> QED
      BY <3>3, <3>8
  <2> HIDE DEF G
  <2>3. N \in SUBSET Nat
    OBVIOUS
  <2> HIDE DEF N
  <2>4. N = Nat
    BY <2>1, <2>2, <2>3, AllNumbers
  <2> QED
    BY <2>4 DEF N
<1>2. ASSUME NEW m \in Nat, NEW n \in Nat, m <= n, NEW f \in G(m), NEW g \in G(n)
      PROVE  \A k \in 0..m : f[k] = g[k]
  <2> DEFINE N == {k \in Nat : k <= m => f[k] = g[k]}
  <2>1. 0 \in N
    OBVIOUS
  <2>2. ASSUME NEW k \in N PROVE k + 1 \in N
    <3>1. SUFFICES ASSUME k + 1 <= m PROVE f[k + 1] = g[k + 1]
      OBVIOUS
    <3>2. k \in Nat /\ k \in 0..m /\ k < m /\ k \in 0..n /\ k < n /\ f[k] = g[k]
      BY <1>2, <3>1
    <3>3. f[k + 1] = F[f[k]] /\ g[k + 1] = F[g[k]]
      BY <3>2
    <3> QED
      BY <3>2, <3>3
  <2>3. N \in SUBSET Nat
    OBVIOUS
  <2> HIDE DEF N
  <2>4. N = Nat
    BY <2>1, <2>2, <2>3, AllNumbers
  <2>5. \A k \in 0..m : k \in Nat /\ k <= m
    BY <1>2
  <2>6. \A k \in Nat : k <= m => f[k] = g[k]
    BY <2>4 DEF N
  <2> QED
    BY <2>5, <2>6
<1>3. PICK c : c = [n \in Nat |-> CHOOSE g \in G(n) : TRUE]
  OBVIOUS
<1>4. \A n \in Nat : c[n] \in G(n)
  <2> HIDE DEF G
  <2> QED
    BY <1>1, <1>3
<1>5. PICK h : h = [n \in Nat |-> c[n][n]]
  OBVIOUS
<1>6. \A n \in Nat : h[n] \in D
  BY <1>4, <1>5
<1>7. h[0] = S
  BY <1>4, <1>5
<1>8. ASSUME NEW k \in Nat PROVE h[k + 1] = F[h[k]]
  <2>1. c[k] \in G(k) /\ c[k + 1] \in G(k + 1)
    BY <1>4
  <2>2. \A j \in 0..k : c[k][j] = c[k + 1][j]
    <3>1. k + 1 \in Nat /\ k <= k + 1
      OBVIOUS
    <3> HIDE DEF G
    <3> QED
      BY <1>2, <2>1, <3>1
  <2>3. k \in 0..k /\ k \in 0..(k + 1) /\ k < k + 1
    OBVIOUS
  <2>4. c[k + 1][k + 1] = F[c[k + 1][k]]
    BY <2>1, <2>3
  <2> QED
    BY <1>5, <2>2, <2>3, <2>4
<1>9. h \in [Nat -> D]
  BY <1>5, <1>6
<1> QED
  BY <1>7, <1>8, <1>9

(* The sets of facts within 0, 1, 2 ... steps of the seeds.                *)
IsStages(h) ==
    /\ h \in [Nat -> SUBSET Triples]
    /\ h[0] = seeds
    /\ \A k \in Nat : h[k + 1] = OneStep(h[k])

LEMMA Growing ==
    ASSUME NEW h, \A k \in Nat : h[k] \subseteq h[k + 1], NEW m \in Nat, NEW n \in Nat, m <= n
    PROVE  h[m] \subseteq h[n]
<1> DEFINE N == {k \in Nat : m <= k => h[m] \subseteq h[k]}
<1>1. 0 \in N
  OBVIOUS
<1>2. ASSUME NEW k \in N PROVE k + 1 \in N
  <2>1. k \in Nat /\ h[k] \subseteq h[k + 1]
    OBVIOUS
  <2>2. CASE m = k + 1
    BY <2>1, <2>2
  <2>3. CASE m # k + 1
    <3>1. m <= k + 1 => m <= k
      BY <2>1, <2>3
    <3> QED
      BY <2>1, <3>1
  <2> QED
    BY <2>2, <2>3
<1>3. N \in SUBSET Nat
  OBVIOUS
<1> HIDE DEF N
<1>4. N = Nat
  BY <1>1, <1>2, <1>3, AllNumbers
<1> QED
  BY <1>4 DEF N

LEMMA OneStepType ==
    ASSUME TypeOK, NEW S \in SUBSET Triples
    PROVE  OneStep(S) \in SUBSET Triples
<1>1. ASSUME NEW t \in S PROVE Propagated(t[1], t[2], t[3]) \subseteq Triples
  <2>1. t[1] \in Nodes /\ t[2] \in Contexts /\ t[3] \in Facts
    BY DEF Triples
  <2> QED
    BY <2>1, PropagatedType DEF TypeOK
<1> QED
  BY <1>1 DEF OneStep

LEMMA StagesExist ==
    ASSUME TypeOK
    PROVE  \E h : IsStages(h)
<1>1. PICK F : F = [S \in SUBSET Triples |-> OneStep(S)]
  OBVIOUS
<1>2. F \in [SUBSET Triples -> SUBSET Triples]
  <2>1. \A S \in SUBSET Triples : OneStep(S) \in SUBSET Triples
    BY OneStepType
  <2> QED
    BY <1>1, <2>1
<1>3. seeds \in SUBSET Triples
  BY DEF TypeOK
<1>4. PICK h \in [Nat -> SUBSET Triples] : h[0] = seeds /\ \A k \in Nat : h[k + 1] = F[h[k]]
  <2>1. PICK D : D = SUBSET Triples
    OBVIOUS
  <2>2. F \in [D -> D] /\ seeds \in D
    BY <1>2, <1>3, <2>1
  <2>3. \E h \in [Nat -> D] : h[0] = seeds /\ \A k \in Nat : h[k + 1] = F[h[k]]
    BY <2>2, Iterated
  <2> QED
    BY <2>1, <2>3
<1>5. \A k \in Nat : h[k + 1] = OneStep(h[k])
  BY <1>1, <1>4
<1>6. IsStages(h)
  BY <1>4, <1>5 DEF IsStages
<1> QED
  BY <1>6

(* The recursive definition of Within has a solution, so it is one.        *)
LEMMA WithinStages ==
    ASSUME TypeOK
    PROVE  \E h : IsStages(h) /\ \A k \in Nat : Within[k] = h[k]
<1>1. PICK h : IsStages(h)
  BY StagesExist
<1>2. h = [k \in Nat |-> IF k = 0 THEN seeds ELSE OneStep(h[k - 1])]
  <2>1. ASSUME NEW k \in Nat, k # 0 PROVE h[k] = OneStep(h[k - 1])
    <3>1. k - 1 \in Nat /\ (k - 1) + 1 = k
      BY <2>1
    <3> QED
      BY <1>1, <3>1 DEF IsStages
  <2>2. h \in [Nat -> SUBSET Triples] /\ h[0] = seeds
    BY <1>1 DEF IsStages
  <2>3. \A k \in Nat : h[k] = IF k = 0 THEN seeds ELSE OneStep(h[k - 1])
    BY <2>1, <2>2
  <2> QED
    BY <2>2, <2>3
<1>3. Within = [k \in Nat |-> IF k = 0 THEN seeds ELSE OneStep(Within[k - 1])]
  BY <1>2 DEF Within
<1> DEFINE N == {k \in Nat : Within[k] = h[k]}
<1>4. 0 \in N
  BY <1>2, <1>3
<1>5. ASSUME NEW k \in N PROVE k + 1 \in N
  <2>1. k \in Nat /\ k + 1 \in Nat /\ k + 1 # 0 /\ (k + 1) - 1 = k /\ Within[k] = h[k]
    OBVIOUS
  <2>2. Within[k + 1] = OneStep(Within[(k + 1) - 1])
    BY <1>3, <2>1
  <2>3. h[k + 1] = OneStep(h[k])
    BY <1>1, <2>1 DEF IsStages
  <2>4. Within[k + 1] = h[k + 1]
    BY <2>1, <2>2, <2>3
  <2> QED
    BY <2>1, <2>4
<1>6. N \in SUBSET Nat
  OBVIOUS
<1> HIDE DEF N
<1>7. N = Nat
  BY <1>4, <1>5, <1>6, AllNumbers
<1> QED
  BY <1>1, <1>7 DEF N

(* What is known is as many steps from the seeds as there are facts, or    *)
(* fewer.                                                                  *)
PathInv ==
    /\ IsFiniteSet(result) /\ IsFiniteSet({e.to : e \in edges})
    /\ \A h : IsStages(h) => result \subseteq h[Cardinality(result)]

(* A turn of the loop finds finitely many facts.                           *)
LEMMA ReachedFinite ==
    ASSUME TypeOK, IsFiniteSet(Facts), IsFiniteSet({e.to : e \in edges}), NEW n \in Nodes, NEW ctx \in Contexts
    PROVE  IsFiniteSet(Reached(n, ctx))
<1>1. PICK N : N = {e.to : e \in edges} \cup {Entry[Callee[n]]}
  OBVIOUS
<1>2. PICK C : C = ({Push(ctx, n)} \cup {ctx}) \cup {Pop(ctx)}
  OBVIOUS
<1>3. IsFiniteSet(N)
  BY <1>1, FS_AddElement
<1>4. IsFiniteSet(C)
  <2>1. IsFiniteSet({Push(ctx, n)})
    BY FS_Singleton
  <2>2. IsFiniteSet({Push(ctx, n)} \cup {ctx})
    BY <2>1, FS_AddElement
  <2> QED
    BY <1>2, <2>2, FS_AddElement
<1>5. IsFiniteSet((N \X C) \X Facts)
  BY <1>3, <1>4, FS_Product
<1>6. PICK P : P = {<<x[1][1], x[1][2], x[2]>> : x \in (N \X C) \X Facts}
  OBVIOUS
<1>7. IsFiniteSet(P)
  <2>1. PICK F : F = [x \in (N \X C) \X Facts |-> <<x[1][1], x[1][2], x[2]>>]
    OBVIOUS
  <2>2. F \in Surjection((N \X C) \X Facts, P)
    BY <1>6, <2>1 DEF Surjection
  <2> QED
    BY <1>5, <2>2, FS_Surjection
<1>8. Reached(n, ctx) \subseteq P
  <2> SUFFICES ASSUME NEW f \in FactsAt(n, ctx), NEW t \in Propagated(n, ctx, f)
               PROVE  t \in P
    BY DEF Reached
  <2>1. f \in Facts
    BY DEF FactsAt
  <2>2. ASSUME NEW m \in N, NEW c \in C, NEW g \in Facts PROVE <<m, c, g>> \in P
    <3>1. <<<<m, c>>, g>> \in (N \X C) \X Facts
      OBVIOUS
    <3> QED
      BY <1>6, <3>1
  <2>3. CASE t \in AlongEdges(n, ctx, f)
    <3>1. PICK e \in edges : \E g \in e.fn[f] : t = <<e.to, ctx, g>>
      BY <2>3 DEF AlongEdges
    <3>2. e.fn[f] \subseteq Facts
      BY <2>1, FlowAssumption DEF TypeOK
    <3> QED
      BY <1>1, <1>2, <2>2, <3>1, <3>2
  <2>4. CASE t \in IntoCallee(n, ctx, f)
    BY <1>1, <1>2, <2>1, <2>2, <2>4 DEF IntoCallee
  <2>5. CASE t \in BackToCall(n, ctx, f)
    BY <1>1, <1>2, <2>1, <2>2, <2>5 DEF BackToCall
  <2> QED
    BY <2>3, <2>4, <2>5 DEF Propagated
<1> QED
  BY <1>7, <1>8, FS_Subset

(* More facts, and as many steps more.                                     *)
LEMMA MoreFacts ==
    ASSUME NEW A, NEW B, IsFiniteSet(A), IsFiniteSet(B), A \subseteq B
    PROVE  /\ Cardinality(A) \in Nat /\ Cardinality(B) \in Nat /\ Cardinality(A) <= Cardinality(B)
           /\ A # B => Cardinality(A) + 1 <= Cardinality(B)
<1>1. Cardinality(A) \in Nat /\ Cardinality(B) \in Nat
  BY FS_CardinalityType
<1>2. Cardinality(A) <= Cardinality(B) /\ (Cardinality(B) = Cardinality(A) => A = B)
  BY FS_Subset
<1> QED
  BY <1>1, <1>2

(* A new seed brings no set of facts further from the seeds.               *)
LEMMA SeedPath ==
    ASSUME TypeOK, PathInv, NEW t \in Sources, SetSeed(t)
    PROVE  PathInv'
<1>1. UNCHANGED edges /\ result' = result \cup {t} /\ seeds' = seeds \cup {t}
  BY DEF SetSeed
<1>2. IsFiniteSet(result')
  BY <1>1, FS_AddElement DEF PathInv
<1>3. IsFiniteSet({e.to : e \in edges}')
  <2>1. {e.to : e \in edges}' = {e.to : e \in edges}
    BY <1>1
  <2> QED
    BY <2>1 DEF PathInv
<1>4. PICK c : c = Cardinality(result)
  OBVIOUS
<1>5. PICK d : d = Cardinality(result')
  OBVIOUS
<1>6. c \in Nat /\ d \in Nat /\ c <= d
  BY <1>1, <1>2, <1>4, <1>5, MoreFacts DEF PathInv
<1>7. ASSUME NEW h, IsStages(h)' PROVE result' \subseteq h[d]
  <2>1. PICK g : IsStages(g)
    BY StagesExist
  <2>2. \A S : OneStep(S)' = OneStep(S)
    BY <1>1 DEF OneStep, Propagated, AlongEdges, IntoCallee, BackToCall
  <2>3. h[0] = seeds \cup {t} /\ \A k \in Nat : h[k + 1] = OneStep(h[k])
    BY <1>1, <1>7, <2>2 DEF IsStages
  <2> DEFINE N == {k \in Nat : g[k] \subseteq h[k]}
  <2>4. 0 \in N
    BY <2>1, <2>3 DEF IsStages
  <2>5. ASSUME NEW k \in N PROVE k + 1 \in N
    <3>1. k \in Nat /\ k + 1 \in Nat /\ g[k] \subseteq h[k]
      OBVIOUS
    <3>2. OneStep(g[k]) \subseteq OneStep(h[k])
      BY <3>1 DEF OneStep
    <3>3. g[k + 1] = OneStep(g[k]) /\ h[k + 1] = OneStep(h[k])
      BY <2>1, <2>3, <3>1 DEF IsStages
    <3> QED
      BY <3>1, <3>2, <3>3
  <2>6. N \in SUBSET Nat
    OBVIOUS
  <2> HIDE DEF N
  <2>7. N = Nat
    BY <2>4, <2>5, <2>6, AllNumbers
  <2>8. result \subseteq h[c]
    <3>1. result \subseteq g[c]
      BY <1>4, <2>1 DEF PathInv
    <3> QED
      BY <1>6, <2>7, <3>1 DEF N
  <2>9. \A k \in Nat : h[k] \subseteq h[k + 1]
    BY <2>3 DEF OneStep
  <2>10. h[c] \subseteq h[d] /\ h[0] \subseteq h[d]
    BY <1>6, <2>9, Growing
  <2> QED
    BY <1>1, <2>3, <2>8, <2>10
<1> QED
  BY <1>2, <1>3, <1>5, <1>7 DEF PathInv

LEMMA PathStep == ASSUME IsFiniteSet(Facts), IInv, PathInv, [Next]_vars PROVE PathInv'
<1>0. TypeOK /\ TypeOK' /\ result \in SUBSET Triples
  BY StepInv DEF IInv, TypeOK
<1>1. ASSUME UNCHANGED <<edges, seeds>> PROVE \A h : IsStages(h)' <=> IsStages(h)
  <2>1. \A S : OneStep(S)' = OneStep(S)
    BY <1>1 DEF OneStep, Propagated, AlongEdges, IntoCallee, BackToCall
  <2> QED
    BY <1>1, <2>1 DEF IsStages
<1>2. ASSUME UNCHANGED <<edges, seeds, result>> PROVE PathInv'
  <2>1. {e.to : e \in edges}' = {e.to : e \in edges}
    BY <1>2
  <2> QED
    BY <1>1, <1>2, <2>1 DEF PathInv
<1>3. ASSUME NEW e \in Flows, AddEdge(e) PROVE PathInv'
  <2>1. result' = result /\ seeds' = seeds /\ result = seeds /\ edges' \subseteq edges \cup {e}
    BY <1>3 DEF AddEdge, IInv, SetupOnly
  <2>2. IsFiniteSet({x.to : x \in edges}')
    <3>1. IsFiniteSet({x.to : x \in edges} \cup {e.to})
      BY FS_AddElement DEF PathInv
    <3>2. {x.to : x \in edges}' \subseteq {x.to : x \in edges} \cup {e.to}
      BY <2>1
    <3> QED
      BY <3>1, <3>2, FS_Subset
  <2>3. Cardinality(result) \in Nat
    BY FS_CardinalityType DEF PathInv
  <2>4. ASSUME NEW h, IsStages(h)' PROVE result' \subseteq h[Cardinality(result')]
    <3>1. /\ h \in [Nat -> SUBSET Triples] /\ h[0] = result
          /\ \A k \in Nat : h[k] \subseteq h[k + 1]
      BY <2>1, <2>4 DEF IsStages, OneStep, Triples
    <3>2. PICK c : c = Cardinality(result)
      OBVIOUS
    <3>3. c \in Nat /\ 0 \in Nat /\ 0 <= c
      BY <2>3, <3>2
    <3>4. h[0] \subseteq h[c]
      BY <3>1, <3>3, Growing
    <3> QED
      BY <2>1, <3>1, <3>2, <3>4
  <2> QED
    BY <2>1, <2>2, <2>4 DEF PathInv
<1>4. ASSUME NEW n \in Nodes, NEW ctx \in Contexts, Process(n, ctx) PROVE PathInv'
  <2>1. UNCHANGED <<edges, seeds>> /\ result' = result \cup Reached(n, ctx)
    BY <1>4 DEF Process
  <2>2. IsFiniteSet(result')
    BY <1>0, <2>1, ReachedFinite, FS_Union DEF PathInv
  <2>3. IsFiniteSet({e.to : e \in edges}')
    <3>1. {e.to : e \in edges}' = {e.to : e \in edges}
      BY <2>1
    <3> QED
      BY <3>1 DEF PathInv
  <2>4. PICK c : c = Cardinality(result)
    OBVIOUS
  <2>5. PICK d : d = Cardinality(result')
    OBVIOUS
  <2>6. c \in Nat /\ d \in Nat /\ (result' # result => c + 1 <= d)
    BY <2>1, <2>2, <2>4, <2>5, MoreFacts DEF PathInv
  <2>7. ASSUME NEW h, IsStages(h)' PROVE result' \subseteq h[d]
    <3>1. IsStages(h)
      BY <1>1, <2>1, <2>7
    <3>2. result \subseteq h[c]
      BY <2>4, <3>1 DEF PathInv
    <3>3. CASE result' = result
      BY <2>4, <2>5, <3>2, <3>3
    <3>4. CASE result' # result
      <4>1. h[c + 1] = OneStep(h[c])
        BY <2>6, <3>1 DEF IsStages
      <4>2. Reached(n, ctx) \subseteq OneStep(h[c])
        <5>1. ASSUME NEW f \in FactsAt(n, ctx) PROVE Propagated(n, ctx, f) \subseteq OneStep(h[c])
          <6>1. <<n, ctx, f>> \in h[c]
            BY <3>2 DEF FactsAt
          <6> QED
            BY <6>1 DEF OneStep
        <5> QED
          BY <5>1 DEF Reached
      <4>3. result \subseteq OneStep(h[c])
        BY <3>2 DEF OneStep
      <4>4. result' \subseteq h[c + 1]
        BY <2>1, <4>1, <4>2, <4>3
      <4>5. h[c + 1] \subseteq h[d]
        <5>1. \A k \in Nat : h[k] \subseteq h[k + 1]
          BY <3>1 DEF IsStages, OneStep
        <5> QED
          BY <2>6, <3>4, <5>1, Growing
      <4> QED
        BY <4>4, <4>5
    <3> QED
      BY <3>3, <3>4
  <2> QED
    BY <2>2, <2>3, <2>5, <2>7 DEF PathInv
<1>5. ASSUME NEW t \in Sources, SetSeed(t) PROVE PathInv'
  BY <1>0, <1>5, SeedPath
<1> QED
  BY <1>2, <1>3, <1>4, <1>5 DEF Next, Client, Loop, Solve, Return, vars

(* Each fact known is within as many steps of the seeds as there are facts *)
(* known, for any program of finitely many facts: no context and no callee *)
(* got a fact that no path of its own leads to.                            *)
THEOREM NothingSpuriousHolds ==
    ASSUME IsFiniteSet(Facts)
    PROVE  Spec => []NothingSpurious
<1>1. Init => PathInv
  <2>1. {} = {e.to : e \in {}}
    OBVIOUS
  <2> QED
    BY <2>1, FS_EmptySet DEF Init, PathInv
<1>2. IInv /\ PathInv /\ [Next]_vars => (IInv /\ PathInv)'
  BY StepInv, PathStep
<1>3. IInv /\ PathInv => NothingSpurious
  <2>1. ASSUME IInv, PathInv PROVE result \subseteq Within[Cardinality(result)]
    <3>1. PICK h : IsStages(h) /\ \A k \in Nat : Within[k] = h[k]
      BY <2>1, WithinStages DEF IInv
    <3>2. Cardinality(result) \in Nat
      BY <2>1, FS_CardinalityType DEF PathInv
    <3> QED
      BY <2>1, <3>1, <3>2 DEF PathInv
  <2> QED
    BY <2>1 DEF NothingSpurious
<1> QED
  BY InitInv, <1>1, <1>2, <1>3, PTL DEF Spec

-----------------------------------------------------------------------------
(* affected_files.  That it misses nothing rests on Settled: while a pass  *)
(* has added nothing, the candidates it visited do not import from the     *)
(* set; that it has nothing extra is inductive as it stands.               *)

(* The candidates visited by a pass that added nothing need no addition.   *)
Settled ==
    (pc \in {"for", "while", "done"} /\ ~changed) =>
        \A c \in candidates \ todo : Meets(c) => c \in affected

LoopInv ==
    /\ LoopTypeOK
    /\ direct \subseteq affected
    /\ Settled
    /\ pc \in {"while", "done"} => todo = {}
    /\ pc = "for" => todo \subseteq candidates
    /\ pc = "done" => ~changed
    /\ NothingExtra

(* The call starts in the inductive invariant.                             *)
LEMMA LoopInitInv == LoopInit => LoopInv
BY DEF LoopInit, LoopInv, LoopTypeOK, Settled, NothingExtra, Closed

(* Every step of the loop keeps it.                                        *)
LEMMA LoopStepInv == LoopInv /\ [LoopNext]_loopVars => LoopInv'
<1> SUFFICES ASSUME LoopInv, [LoopNext]_loopVars PROVE LoopInv'
  OBVIOUS
<1> USE DEF LoopInv
<1>1. CASE While
  <2>1. LoopTypeOK'
    BY <1>1 DEF While, LoopTypeOK
  <2>2. Settled'
    BY <1>1 DEF While, Settled, Meets
  <2>3. NothingExtra'
    BY <1>1 DEF While, NothingExtra, Closed
  <2> QED
    BY <1>1, <2>1, <2>2, <2>3 DEF While
<1>2. ASSUME NEW c \in Files, Visit(c)
      PROVE  LoopInv'
  <2>1. LoopTypeOK'
    BY <1>2 DEF Visit, LoopTypeOK
  <2>2. Settled'
    BY <1>2 DEF Visit, Settled, Meets, LoopTypeOK
  <2>3. NothingExtra'
    <3>1. SUFFICES ASSUME NEW S \in SUBSET Files, direct \subseteq S, Closed(S)
                   PROVE  affected' \subseteq S
      BY <1>2 DEF Visit, NothingExtra, Closed
    <3>2. affected \subseteq S
      BY <3>1 DEF NothingExtra
    <3>3. CASE c \notin affected /\ Meets(c)
      <4>1. imports[c] \cap S # {}
        BY <3>2, <3>3 DEF Meets
      <4>2. c \in S
        BY <1>2, <3>1, <4>1 DEF Closed, Visit
      <4> QED
        BY <1>2, <3>2, <3>3, <4>2 DEF Visit
    <3> QED
      BY <1>2, <3>2, <3>3 DEF Visit
  <2> QED
    BY <1>2, <2>1, <2>2, <2>3 DEF Visit
<1>3. CASE EndPass
  BY <1>3 DEF EndPass, LoopTypeOK, Settled, Meets, NothingExtra, Closed
<1>4. CASE UNCHANGED loopVars
  BY <1>4 DEF loopVars, LoopTypeOK, Settled, Meets, NothingExtra, Closed
<1> QED
  BY <1>1, <1>2, <1>3, <1>4 DEF LoopNext

(* What the call returns misses no importer of a changed file.             *)
THEOREM NothingMissedHolds == LoopSpec => []NothingMissed
<1>1. LoopInv => NothingMissed
  BY DEF LoopInv, NothingMissed, Settled, Closed, Meets
<1> QED
  BY <1>1, LoopInitInv, LoopStepInv, PTL DEF LoopSpec

(* What the call returns holds nothing but the changed files and their     *)
(* importers.                                                              *)
THEOREM NothingExtraHolds == LoopSpec => []NothingExtra
<1>1. LoopInv => NothingExtra
  BY DEF LoopInv
<1> QED
  BY <1>1, LoopInitInv, LoopStepInv, PTL DEF LoopSpec
=============================================================================
