----------------------------- MODULE IFDSSolver -----------------------------
(***************************************************************************)
(* The tabulation of v2/ifds.py.  A client registers call sites and flow   *)
(* functions, seeds facts and calls solve(), which takes one (node,        *)
(* context) after another from the worklist and sends the facts known      *)
(* there along the edges of its context, into callees and, it is meant,    *)
(* back to call sites.  Seeds may be added after a solve and solved again. *)
(***************************************************************************)
EXTENDS Naturals, Sequences, FiniteSets

CONSTANTS
    Nodes,       \* the CFG nodes
    Facts,       \* the dataflow facts
    Functions,   \* the function ids
    FunctionOf,  \* the function_id of a node
    CallNodes,   \* nodes labelled "call:" and registered by set_call_site
    Callee,      \* the function each of them calls
    Entry,       \* _entry_nodes: the entry of the functions that have one
    ExitNodes,   \* nodes labelled "exit:"
    ReturnNode,  \* _return_nodes: where each call returns to
    Flows,       \* the edges a client may register, each with its flow function
    Sources,     \* the triples <<node, context, fact>> a client may seed
    MaxDepth     \* the depth of a context, 3 by default

(* A context is the string of the last MaxDepth call sites.                *)
Contexts == UNION {[1..d -> CallNodes] : d \in 0..MaxDepth}

ASSUME DepthAssumption == MaxDepth \in Nat \ {0}
ASSUME GraphAssumption ==
    /\ FunctionOf \in [Nodes -> Functions]
    /\ CallNodes \subseteq Nodes /\ ExitNodes \subseteq Nodes
    /\ Callee \in [CallNodes -> Functions]
    /\ DOMAIN Entry \subseteq Functions /\ \A g \in DOMAIN Entry : Entry[g] \in Nodes
    /\ \A g, h \in DOMAIN Entry : Entry[g] = Entry[h] => g = h
    /\ ReturnNode \in [CallNodes -> Nodes]
ASSUME FlowAssumption ==
    Flows \subseteq [from : Nodes, to : Nodes, ctx : Contexts, fn : [Facts -> SUBSET Facts]]
ASSUME SourceAssumption == Sources \subseteq Nodes \X Contexts \X Facts
(* A function id is a string, which no (caller, callee) pair equals.       *)
ASSUME FunctionAssumption == \A g, h, i \in Functions : g # <<h, i>>

VARIABLES
    edges,       \* _edge_flows
    seeds,       \* every fact seeded so far
    result,      \* _result_facts, as the triples <<node, context, fact>>
    worklist,    \* _worklist, its order and its repetitions left out
    phase        \* "setup" before the first solve(), then "solving" or "solved"

vars == <<edges, seeds, result, worklist, phase>>

Keys == Nodes \X Contexts
Triples == Nodes \X Contexts \X Facts

(* The type invariant.                                                     *)
TypeOK ==
    /\ edges \subseteq Flows
    /\ seeds \subseteq Triples
    /\ result \subseteq Triples
    /\ worklist \subseteq Keys
    /\ phase \in {"setup", "solving", "solved"}

Init ==
    /\ edges = {} /\ seeds = {} /\ result = {} /\ worklist = {}
    /\ phase = "setup"

-----------------------------------------------------------------------------
(* Where a fact goes.                                                      *)

(* Context.push: beyond MaxDepth the oldest call site is forgotten.        *)
Push(ctx, c) == IF Len(ctx) < MaxDepth THEN Append(ctx, c) ELSE Append(Tail(ctx), c)

(* Context.pop: the empty context stays.                                   *)
Pop(ctx) == IF ctx = <<>> THEN ctx ELSE SubSeq(ctx, 1, Len(ctx) - 1)

(* Edges within a function, of the same context.                           *)
AlongEdges(n, ctx, f) ==
    UNION {{<<e.to, ctx, g>> : g \in e.fn[f]} : e \in {x \in edges : x.from = n /\ x.ctx = ctx}}

(* Mutant of IntoCallee: the callee runs in the caller's context.          *)
IntoCalleeHere(n, ctx, f) ==
    IF n \in CallNodes /\ Callee[n] \in DOMAIN Entry THEN {<<Entry[Callee[n]], ctx, f>>} ELSE {}

(* From a call site to the entry of its callee, the fact unchanged.        *)
IntoCallee(n, ctx, f) ==
    IF n \in CallNodes /\ Callee[n] \in DOMAIN Entry
      THEN {<<Entry[Callee[n]], Push(ctx, n), f>>}
      ELSE {}

CallPairs == {<<FunctionOf[c], Callee[c]>> : c \in CallNodes}

(* From an exit node back, as the code tests it: a function id is looked   *)
(* up among the (caller, callee) pairs of the call sites.                  *)
BackToCall(n, ctx, f) ==
    IF n \in ExitNodes
      THEN {<<e.to, Pop(ctx), f>> :
                e \in {x \in edges : FunctionOf[x.from] \in CallPairs /\ x.ctx = ctx}}
      ELSE {}

Propagated(n, ctx, f) == AlongEdges(n, ctx, f) \cup IntoCallee(n, ctx, f) \cup BackToCall(n, ctx, f)

-----------------------------------------------------------------------------
(* The client.                                                             *)

(* add_edge_flow: a second flow function for an edge replaces the first.   *)
AddEdge(e) ==
    /\ phase = "setup"
    /\ edges' = {e} \cup {x \in edges : <<x.from, x.to, x.ctx>> # <<e.from, e.to, e.ctx>>}
    /\ UNCHANGED <<seeds, result, worklist, phase>>

(* set_seed_fact: the key is queued, whether the fact is new or not.       *)
SetSeed(t) ==
    /\ phase # "solving"
    /\ seeds' = seeds \cup {t}
    /\ result' = result \cup {t}
    /\ worklist' = worklist \cup {<<t[1], t[2]>>}
    /\ UNCHANGED <<edges, phase>>

-----------------------------------------------------------------------------
(* solve().                                                                *)

Solve ==
    /\ phase # "solving"
    /\ phase' = "solving"
    /\ UNCHANGED <<edges, seeds, result, worklist>>

(* The facts of a key when it is taken from the worklist.                  *)
FactsAt(n, ctx) == {f \in Facts : <<n, ctx, f>> \in result}

(* Mutant of Reached: results are looked up by node, not by context.       *)
ReachedByNode(n, ctx) ==
    UNION {Propagated(n, ctx, f) : f \in {g \in Facts : \E c \in Contexts : <<n, c, g>> \in result}}

Reached(n, ctx) == UNION {Propagated(n, ctx, f) : f \in FactsAt(n, ctx)}

(* Mutant of Process: a key is queued when it gets its first fact only.    *)
ProcessFirst(n, ctx) ==
    /\ phase = "solving" /\ <<n, ctx>> \in worklist
    /\ result' = result \cup Reached(n, ctx)
    /\ worklist' = (worklist \ {<<n, ctx>>})
                     \cup {<<t[1], t[2]>> : t \in {r \in Reached(n, ctx) : FactsAt(r[1], r[2]) = {}}}
    /\ UNCHANGED <<edges, seeds, phase>>

(* Mutant of Process: a key is queued for every fact that reaches it.      *)
ProcessAgain(n, ctx) ==
    /\ phase = "solving" /\ <<n, ctx>> \in worklist
    /\ result' = result \cup Reached(n, ctx)
    /\ worklist' = (worklist \ {<<n, ctx>>}) \cup {<<t[1], t[2]>> : t \in Reached(n, ctx)}
    /\ UNCHANGED <<edges, seeds, phase>>

(* One turn of the loop.  The keys that get a new fact are queued, this    *)
(* one too if it is among them.  Any key may be next: no property depends  *)
(* on the list's order.                                                    *)
Process(n, ctx) ==
    /\ phase = "solving" /\ <<n, ctx>> \in worklist
    /\ result' = result \cup Reached(n, ctx)
    /\ worklist' = (worklist \ {<<n, ctx>>}) \cup {<<t[1], t[2]>> : t \in Reached(n, ctx) \ result}
    /\ UNCHANGED <<edges, seeds, phase>>

Return ==
    /\ phase = "solving" /\ worklist = {}
    /\ phase' = "solved"
    /\ UNCHANGED <<edges, seeds, result, worklist>>

-----------------------------------------------------------------------------
Client ==
    \/ \E e \in Flows : AddEdge(e)
    \/ \E t \in Sources : SetSeed(t)
    \/ Solve

Loop == Return \/ \E n \in Nodes, ctx \in Contexts : Process(n, ctx)

Next == Client \/ Loop

Spec == Init /\ [][Next]_vars

(* solve() keeps running until it returns.                                 *)
FairSpec == Spec /\ WF_vars(Loop)

-----------------------------------------------------------------------------
(* Properties.                                                             *)

(* "If new facts are discovered, add the target node to the worklist.      *)
(* Repeat until the worklist is empty (fixed point reached)": what solve() *)
(* returns with holds every seed and is closed under propagation, also     *)
(* when seeds were added to an earlier solution.                           *)
FixedPoint ==
    phase = "solved" /\ worklist = {} =>
        /\ seeds \subseteq result
        /\ \A t \in result : Propagated(t[1], t[2], t[3]) \subseteq result

(* What is within one more step of a set of facts, each step along an edge *)
(* of the fact's own context, into a callee or back.                       *)
OneStep(S) == S \cup UNION {Propagated(t[1], t[2], t[3]) : t \in S}

(* The facts at most k steps from a seed.                                  *)
Within[k \in Nat] == IF k = 0 THEN seeds ELSE OneStep(Within[k - 1])

(* No fact is reported that does not come from a seed along a path whose   *)
(* calls and contexts agree; none needs more steps than there are facts.   *)
NothingSpurious == result \subseteq Within[Cardinality(result)]

(* "Context: call site used to distinguish different invocations of the    *)
(* same function": a fact at the entry of a function in a context that     *)
(* ends with a call is one the caller had at that very call, in a context  *)
(* the call leads from, unless the client put it there.                    *)
OwnCallOnly ==
    \A t \in result \ seeds : \A g \in DOMAIN Entry :
        (t[1] = Entry[g] /\ \A e \in edges : e.to # t[1]) =>
            /\ t[2] # <<>>
            /\ LET c == t[2][Len(t[2])]
               IN  /\ Callee[c] = g
                   /\ \E ctx \in Contexts : Push(ctx, c) = t[2] /\ <<c, ctx, t[3]>> \in result

(* solve() returns, however recursive the program is: contexts are cut.    *)
Terminates == phase = "solving" ~> phase = "solved"

(* "Handle function returns (return-to-call-site edges)" (v2/ifds.py:292): *)
(* a fact at the exit of a function is propagated back to the return node  *)
(* of the call it is in.                                                   *)
ReturnsToCallSite ==
    phase = "solved" /\ worklist = {} =>
        \A t \in result :
            (t[1] \in ExitNodes /\ t[2] # <<>>) =>
                <<ReturnNode[t[2][Len(t[2])]], Pop(t[2]), t[3]>> \in result
=============================================================================
