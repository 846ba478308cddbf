------------------------ MODULE PythonAnalyserProofs ------------------------
(***************************************************************************)
(* The Python analyser: what its analyses share (PyDetect) and its taint   *)
(* rule (PyTaint), for any files and any number of analyses and passes.    *)
(*                                                                         *)
(* Of the first: the walks never form a circle; and as long as no two      *)
(* analyses overlap, no key is lost, ast.walk is put right, and an         *)
(* analysis that began with an empty cache sees the sources that are the   *)
(* outermost nodes at their positions in its own file.                     *)
(*                                                                         *)
(* Of the second: a function is never said to return a source, and a sink  *)
(* never reported, without a chain of assignments that leads there.  Each  *)
(* set closed under the assignments has all that the walks hold for        *)
(* tainted, at any moment of the passes.  Of plain functions it is those   *)
(* alone: what a walk has passed it need not pass again, so the summaries  *)
(* settle and every sink with a chain is reported.                         *)
(***************************************************************************)
EXTENDS PyDetect, PyTaint, WellFoundedInduction, TLAPS

Begun(f) == pc[f] \notin {"idle", "reading"}

(* No set of analyses has saved only each other's walks, and what has not  *)
(* been installed yet is saved by none.                                    *)
NoCircle ==
    /\ \A S \in SUBSET Files : S # {} => \E f \in S : saved[f] \notin S
    /\ \A f \in Files : ~Begun(f) => walk # f /\ \A g \in Files : saved[g] # f

Looks ==
    \A f \in Files :
        /\ looking[f] # {} => pc[f] \in {"reading", "rules"} /\ \E x \in looking[f] : looking[f] = {x}
        /\ pc[f] = "idle" => todo[f] = {} /\ said[f] = {}
        /\ pc[f] # "idle" => indexing = {}
        /\ pc[f] = "restored" => todo[f] = {}

Solo == \A f, g \in Active : f = g

KeysHeld ==
    \A f \in Files : /\ pc[f] # "lost"
                     /\ \A n \in Placed : <<n, "hit">> \in looking[f] => n[1] \in cached

NoneFailed == \A f \in Files : pc[f] # "failed"

WalkHeld ==
    NoneFailed => /\ walk # Original => \E f \in Files : pc[f] = "rules"
                  /\ \A f \in Files : pc[f] = "rules" => saved[f] = Original

(* What a fresh analysis has looked up is in the cache, with the answer    *)
(* for its own outermost node, which is therefore what it was told.        *)
Held(f) == {n \in Placed : \E c \in {"hit", "miss"} : <<n, c>> \in looking[f]}

Batch(f) ==
    IF pc[f] = "reading" THEN IF f \in loaded THEN {} ELSE Returned[f] ELSE Nodes[f]

OwnAnswers(f) ==
    /\ todo[f] \subseteq Batch(f) /\ Held(f) \subseteq Batch(f) \ todo[f]
    /\ \A p \in cached : p \in sourced <=> SourceAt(f, p)
    /\ \A n \in Batch(f) \ (todo[f] \cup Held(f)) : n[1] \in cached
    /\ \A n \in Placed : <<n, "miss">> \in looking[f] => n[2] = "outer"
    /\ said[f] = {n \in Batch(f) \ (todo[f] \cup Held(f)) : SourceAt(f, n[1])}

OwnBasis(f) == f \notin loaded => basis[f] = Seen(f) \cap Returned[f]

FreshOwn ==
    \A f \in fresh :
        /\ pc[f] \in {"reading", "rules"} => OwnAnswers(f)
        /\ pc[f] \in {"rules", "restored", "done"} => OwnBasis(f)
        /\ pc[f] \in {"restored", "done"} => said[f] = Seen(f)
        /\ pc[f] # "idle"

SerialInv == ~overlapped => Solo /\ KeysHeld /\ WalkHeld /\ FreshOwn

IInv == TypeOK /\ Looks /\ NoCircle /\ SerialInv

LEMMA InitInv == Init => IInv
<1> SUFFICES ASSUME Init PROVE IInv
  OBVIOUS
<1>1. TypeOK
  BY DEF Init, TypeOK
<1>2. Looks /\ NoCircle
  BY OriginalAssumption DEF Init, Looks, NoCircle
<1>3. SerialInv
  BY DEF Init, SerialInv, Solo, Active, KeysHeld, WalkHeld, FreshOwn
<1> QED
  BY <1>1, <1>2, <1>3 DEF IInv

(* The types.                                                              *)
LEMMA TypeStep == ASSUME TypeOK, [Next]_vars PROVE TypeOK'
<1> USE DEF TypeOK, Ended
<1>1. ASSUME NEW f \in Files, Index(f) PROVE TypeOK'
  BY <1>1, NodesAssumption DEF Index, history
<1>2. ASSUME NEW f \in Files, Begin(f) PROVE TypeOK'
  <2>1. overlapped' \in BOOLEAN
    BY <1>2 DEF Begin
  <2>2. fresh' \subseteq Files /\ todo' \in [Files -> SUBSET Placed]
    BY <1>2, NodesAssumption DEF Begin
  <2> QED
    BY <1>2, <2>1, <2>2 DEF Begin, Goto, caches
<1>3. ASSUME NEW f \in Files, Patch(f) PROVE TypeOK'
  <2>1. basis' \in [Files -> SUBSET Placed] /\ said' \in [Files -> SUBSET Placed]
        /\ todo' \in [Files -> SUBSET Placed]
    BY <1>3, NodesAssumption DEF Patch, SummariesMade
  <2> QED
    BY <1>3, <2>1 DEF Patch, SummariesMade, Goto, caches, history
<1>4. ASSUME NEW f \in Files, RuleRaises(f) \/ Restore(f) PROVE TypeOK'
  BY <1>4 DEF RuleRaises, Restore, Goto, caches, history
<1>5. ASSUME NEW f \in Files, Finish(f) PROVE TypeOK'
  BY <1>5 DEF Finish, Goto, caches, history
<1>6. ASSUME NEW f \in Files, NEW n \in Placed, Look(f, n) PROVE TypeOK'
  <2>1. /\ todo' = [todo EXCEPT ![f] = @ \ {n}]
        /\ UNCHANGED <<indexing, pc, said, basis, loaded, walk, saved, overlapped, fresh, cached, sourced>>
    BY <1>6 DEF Look, caches, history
  <2>2. PICK c \in {"hit", "miss"} : looking' = [looking EXCEPT ![f] = {<<n, c>>}]
    BY <1>6 DEF Look
  <2>3. looking' \in [Files -> SUBSET (Placed \X {"hit", "miss"})]
    BY <2>2
  <2>4. todo' \in [Files -> SUBSET Placed]
    BY <2>1
  <2> QED
    BY <2>1, <2>3, <2>4
<1>7. ASSUME NEW f \in Files, NEW n \in Placed, Hit(f, n) \/ KeyLost(f, n) PROVE TypeOK'
  <2>1. /\ said' = [said EXCEPT ![f] = @ \cup {n}] \/ said' = said
        /\ looking' = [looking EXCEPT ![f] = {}]
        /\ UNCHANGED <<indexing, todo, basis, loaded, walk, saved, overlapped, fresh, cached, sourced>>
    BY <1>7 DEF Hit, KeyLost, Answer, caches, history
  <2>2. pc' = pc \/ pc' = [pc EXCEPT ![f] = "lost"]
    BY <1>7 DEF Hit, KeyLost, Goto
  <2> QED
    BY <2>1, <2>2
<1>8. ASSUME NEW f \in Files, NEW n \in Placed, Miss(f, n) PROVE TypeOK'
  <2>1. n[1] \in Positions
    BY DEF Placed
  <2>2. /\ said' = [said EXCEPT ![f] = @ \cup {n}] \/ said' = said
        /\ looking' = [looking EXCEPT ![f] = {}]
        /\ UNCHANGED <<indexing, pc, todo, basis, loaded, walk, saved, overlapped, fresh>>
        /\ cached' = cached \cup {n[1]}
        /\ sourced' \in {sourced \cup {n[1]}, sourced \ {n[1]}}
    BY <1>8 DEF Miss, Answer, history
  <2> QED
    BY <2>1, <2>2
<1>9. CASE UNCHANGED vars
  BY <1>9 DEF vars, caches, history
<1> QED
  BY <1>1, <1>2, <1>3, <1>4, <1>5, <1>6, <1>7, <1>8, <1>9 DEF Next, Step

(* Lookups happen one at a time, while an analysis reads, after pass 1.    *)
LEMMA LooksStep == ASSUME TypeOK, Looks, [Next]_vars PROVE Looks'
<1> USE DEF TypeOK, Looks, Ended
<1>1. ASSUME NEW f \in Files, Index(f) PROVE Looks'
  BY <1>1 DEF Index, history
<1>2. ASSUME NEW f \in Files, Begin(f) \/ Patch(f) \/ RuleRaises(f) \/ Restore(f) \/ Finish(f)
      PROVE Looks'
  BY <1>2 DEF Begin, Patch, SummariesMade, RuleRaises, Restore, Finish, Goto, caches, history
<1>3. ASSUME NEW f \in Files, NEW n \in Placed, Look(f, n) PROVE Looks'
  <2>1. \E x : looking'[f] = {x} /\ \A g \in Files \ {f} : looking'[g] = looking[g]
    BY <1>3 DEF Look
  <2>2. \A g \in Files \ {f} : todo'[g] = todo[g]
    BY <1>3 DEF Look
  <2> QED
    BY <1>3, <2>1, <2>2 DEF Look, caches, history
<1>4. ASSUME NEW f \in Files, NEW n \in Placed, Hit(f, n) \/ KeyLost(f, n) \/ Miss(f, n)
      PROVE Looks'
  <2>1. /\ looking'[f] = {} /\ \A g \in Files \ {f} : looking'[g] = looking[g]
        /\ \A g \in Files \ {f} : said'[g] = said[g] /\ pc'[g] = pc[g]
        /\ UNCHANGED <<indexing, todo>> /\ pc'[f] \in {pc[f], "lost"} /\ pc[f] # "idle"
    BY <1>4 DEF Hit, KeyLost, Miss, Answer, Goto, caches, history
  <2> QED
    BY <2>1, <1>4
<1>5. CASE UNCHANGED vars
  BY <1>5 DEF vars, caches, history
<1> QED
  BY <1>1, <1>2, <1>3, <1>4, <1>5 DEF Next, Step

(* Only an analysis whose walk nobody has yet adds a link to the chain.    *)
LEMMA CircleStep == ASSUME TypeOK, NoCircle, [Next]_vars PROVE NoCircle'
<1> USE DEF TypeOK, Begun, Ended
<1>1. ASSUME NEW f \in Files, Patch(f) PROVE NoCircle'
  <2>1. /\ pc[f] = "reading" /\ walk' = f /\ saved' = [saved EXCEPT ![f] = walk]
        /\ pc' = [pc EXCEPT ![f] = "rules"]
    BY <1>1 DEF Patch, SummariesMade, Goto
  <2>2. walk # f /\ \A g \in Files : saved[g] # f
    BY <2>1 DEF NoCircle
  <2>3. ASSUME NEW S \in SUBSET Files, S # {} PROVE \E g \in S : saved'[g] \notin S
    <3>1. CASE S = {f}
      BY <3>1, <2>1, <2>2
    <3>2. CASE S # {f}
      <4>1. S \ {f} \in SUBSET Files /\ S \ {f} # {}
        BY <3>2, <2>3
      <4>2. PICK g \in S \ {f} : saved[g] \notin S \ {f}
        BY <4>1 DEF NoCircle
      <4>3. saved'[g] = saved[g] /\ saved[g] # f
        BY <4>2, <2>1, <2>2
      <4> QED
        BY <4>2, <4>3
    <3> QED
      BY <3>1, <3>2
  <2>4. ASSUME NEW h \in Files, ~Begun(h)' PROVE walk' # h /\ \A g \in Files : saved'[g] # h
    <3>1. h # f /\ ~Begun(h)
      BY <2>1, <2>4
    <3> QED
      BY <2>1, <3>1 DEF NoCircle
  <2> QED
    BY <2>3, <2>4 DEF NoCircle
<1>2. ASSUME NEW f \in Files, Restore(f) PROVE NoCircle'
  <2>1. pc[f] = "rules" /\ walk' = saved[f] /\ saved' = saved /\ pc' = [pc EXCEPT ![f] = "restored"]
    BY <1>2 DEF Restore, Goto
  <2> QED
    BY <2>1 DEF NoCircle
<1>3. ASSUME NEW f \in Files, Begin(f) \/ RuleRaises(f) \/ Finish(f) PROVE NoCircle'
  <2>1. /\ UNCHANGED <<walk, saved>>
        /\ \A g \in Files : ~Begun(g)' => ~Begun(g)
    BY <1>3 DEF Begin, RuleRaises, Finish, Goto
  <2> QED
    BY <2>1 DEF NoCircle
<1>4. ASSUME NEW f \in Files, NEW n \in Placed,
             Look(f, n) \/ Hit(f, n) \/ KeyLost(f, n) \/ Miss(f, n)
      PROVE NoCircle'
  <2>1. /\ UNCHANGED <<walk, saved>>
        /\ \A g \in Files : ~Begun(g)' => ~Begun(g)
    BY <1>4 DEF Look, Hit, KeyLost, Miss, Answer, Goto
  <2> QED
    BY <2>1 DEF NoCircle
<1>5. ASSUME UNCHANGED <<pc, walk, saved>> PROVE NoCircle'
  BY <1>5 DEF NoCircle
<1> QED
  BY <1>1, <1>2, <1>3, <1>4, <1>5 DEF Next, Step, Index, vars

(* While analyses do not overlap, only one of them has steps to take.      *)
LEMMA SerialStep ==
    ASSUME TypeOK, Looks, NoCircle, SerialInv, [Next]_vars, TypeOK'
    PROVE  SerialInv'
<1> SUFFICES ASSUME ~overlapped' PROVE (Solo /\ KeysHeld /\ WalkHeld /\ FreshOwn)'
  BY DEF SerialInv
<1>1. ~overlapped
  <2>1. ASSUME NEW f \in Files, Begin(f) PROVE ~overlapped
    BY <2>1 DEF Begin, TypeOK
  <2>2. ASSUME NEW f \in Files,
               Patch(f) \/ RuleRaises(f) \/ Restore(f) \/ Finish(f) \/ Index(f)
        PROVE  ~overlapped
    BY <2>2 DEF Patch, SummariesMade, RuleRaises, Restore, Finish, Index, history
  <2>3. ASSUME NEW f \in Files, NEW n \in Placed,
               Look(f, n) \/ Hit(f, n) \/ KeyLost(f, n) \/ Miss(f, n)
        PROVE  ~overlapped
    BY <2>3 DEF Look, Hit, KeyLost, Miss, Answer, history
  <2> QED
    BY <2>1, <2>2, <2>3 DEF Next, Step, vars, history
<1>2. Solo /\ KeysHeld /\ WalkHeld /\ FreshOwn
  BY <1>1 DEF SerialInv
<1> USE DEF TypeOK, Ended
<1>3. ASSUME NEW f \in Files, Index(f) PROVE (Solo /\ KeysHeld /\ WalkHeld /\ FreshOwn)'
  <2>1. /\ \A g \in Files : pc[g] \in {"idle"} /\ looking[g] = {}
        /\ UNCHANGED <<pc, todo, looking, said, basis, loaded, walk, saved, fresh>>
    BY <1>3 DEF Index, history, Looks
  <2>2. fresh = {}
    BY <2>1, <1>2 DEF FreshOwn
  <2> QED
    BY <2>1, <2>2, <1>2 DEF Solo, Active, KeysHeld, WalkHeld, NoneFailed, FreshOwn
<1>4. ASSUME NEW f \in Files, Begin(f) PROVE (Solo /\ KeysHeld /\ WalkHeld /\ FreshOwn)'
  <2>1. /\ Active = {} /\ pc[f] = "idle" /\ pc' = [pc EXCEPT ![f] = "reading"]
        /\ UNCHANGED <<looking, said, basis, loaded, cached, sourced, walk, saved>>
        /\ todo' = [todo EXCEPT ![f] = IF f \in loaded THEN {} ELSE Returned[f]]
        /\ fresh' = IF cached = {} THEN fresh \cup {f} ELSE fresh
    BY <1>4 DEF Begin, Goto, caches
  <2>2. Solo'
    BY <2>1 DEF Solo, Active
  <2>3. KeysHeld' /\ WalkHeld'
    BY <2>1, <1>2 DEF KeysHeld, WalkHeld, NoneFailed
  <2>4. f \notin fresh /\ looking[f] = {} /\ said[f] = {}
    BY <2>1, <1>2 DEF FreshOwn, Looks
  <2>5. ASSUME f \in fresh' PROVE OwnAnswers(f)'
    <3>1. cached' = {} /\ sourced' = {} /\ looking'[f] = {} /\ said'[f] = {}
      BY <2>1, <2>4, <2>5
    <3>2. Batch(f)' = todo'[f] /\ Held(f)' = {}
      BY <2>1, <3>1 DEF Batch, Held
    <3> QED
      BY <3>1, <3>2 DEF OwnAnswers
  <2>6. ASSUME NEW g \in fresh', g # f
        PROVE  /\ pc'[g] \notin {"idle", "reading", "rules"}
               /\ pc'[g] \in {"restored", "done"} => OwnBasis(g)' /\ said'[g] = Seen(g)
    <3>1. g \in fresh /\ g \in Files /\ pc'[g] = pc[g] /\ g \notin Active
      BY <2>6, <2>1
    <3> QED
      BY <3>1, <2>1, <1>2 DEF FreshOwn, OwnBasis, Seen, Active
  <2>7. FreshOwn'
    BY <2>1, <2>5, <2>6 DEF FreshOwn, Seen
  <2> QED
    BY <2>2, <2>3, <2>7
<1>5. ASSUME NEW f \in Files, Patch(f) \/ RuleRaises(f) \/ Restore(f) \/ Finish(f)
      PROVE (Solo /\ KeysHeld /\ WalkHeld /\ FreshOwn)'
  <2>1. /\ pc[f] \in {"reading", "rules", "restored"} /\ looking[f] = {}
        /\ \A g \in Files \ {f} : /\ pc'[g] = pc[g] /\ saved'[g] = saved[g] /\ said'[g] = said[g]
                                  /\ basis'[g] = basis[g]
        /\ pc'[f] \in {"rules", "failed", "restored", "done"}
        /\ UNCHANGED <<looking, loaded, fresh>>
    BY <1>5 DEF Patch, SummariesMade, RuleRaises, Restore, Finish, Goto, history, Looks
  <2>2. \A g \in Active : g = f
    BY <2>1, <1>2 DEF Solo, Active
  <2>3. \A g \in Files \ {f} : looking[g] = {}
    BY <2>2 DEF Looks, Active
  <2>4. Solo'
    BY <2>1, <2>2 DEF Solo, Active
  <2>5. KeysHeld'
    BY <2>1, <2>3, <1>2 DEF KeysHeld
  <2>6. WalkHeld'
    <3>1. \A g \in Files \ {f} : pc'[g] # "rules"
      BY <2>1, <2>2 DEF Active
    <3>2. CASE Patch(f)
      BY <3>1, <3>2, <2>1, <2>2, <1>2 DEF Patch, SummariesMade, Goto, WalkHeld, NoneFailed, Active
    <3>3. CASE RuleRaises(f)
      BY <3>3 DEF RuleRaises, Goto, WalkHeld, NoneFailed
    <3>4. CASE Restore(f)
      BY <3>1, <3>4, <2>1, <1>2 DEF Restore, Goto, WalkHeld, NoneFailed
    <3>5. CASE Finish(f)
      BY <3>1, <3>5, <2>1, <2>2, <1>2 DEF Finish, Goto, WalkHeld, NoneFailed, Active
    <3> QED
      BY <1>5, <3>2, <3>3, <3>4, <3>5
  <2>7. FreshOwn'
    <3>1. Held(f) = {} /\ Held(f)' = {}
      BY <2>1 DEF Held
    <3>2. ASSUME f \in fresh
          PROVE  /\ pc'[f] = "rules" => OwnAnswers(f)' /\ OwnBasis(f)'
                 /\ pc'[f] \in {"restored", "done"} => OwnBasis(f)' /\ said'[f] = Seen(f)
      <4>1. CASE Patch(f)
        <5>1. /\ pc[f] = "reading" /\ pc'[f] = "rules" /\ todo[f] = {} /\ UNCHANGED <<cached, sourced>>
              /\ basis'[f] = IF f \in loaded THEN basis[f] ELSE said[f]
              /\ said'[f] = {} /\ todo'[f] = Nodes[f]
          BY <4>1 DEF Patch, SummariesMade, Goto, caches
        <5>2. OwnAnswers(f)
          BY <5>1, <3>2, <1>2 DEF FreshOwn
        <5>3. OwnAnswers(f)'
          BY <5>1, <5>2, <3>1, <2>1 DEF OwnAnswers, Batch
        <5>4. OwnBasis(f)'
          <6> SUFFICES ASSUME f \notin loaded PROVE basis'[f] = Seen(f) \cap Returned[f]
            BY <2>1 DEF OwnBasis, Seen
          <6>1. basis'[f] = {n \in Returned[f] : SourceAt(f, n[1])}
            BY <5>1, <5>2, <3>1 DEF OwnAnswers, Batch
          <6> QED
            BY <6>1, NodesAssumption DEF Seen
        <5> QED
          BY <5>1, <5>3, <5>4
      <4>2. CASE RuleRaises(f)
        BY <4>2 DEF RuleRaises, Goto
      <4>3. CASE Restore(f)
        <5>1. /\ pc[f] = "rules" /\ pc'[f] = "restored" /\ todo[f] = {} /\ UNCHANGED <<said, basis>>
          BY <4>3 DEF Restore, Goto
        <5>2. OwnAnswers(f) /\ OwnBasis(f)
          BY <5>1, <3>2, <1>2 DEF FreshOwn
        <5>3. said[f] = Seen(f)
          BY <5>1, <5>2, <3>1 DEF OwnAnswers, Batch, Seen
        <5> QED
          BY <5>1, <5>2, <5>3, <2>1 DEF OwnBasis, Seen
      <4>4. CASE Finish(f)
        <5>1. pc[f] = "restored" /\ pc'[f] = "done" /\ UNCHANGED <<said, basis>>
          BY <4>4 DEF Finish, Goto
        <5> QED
          BY <5>1, <3>2, <2>1, <1>2 DEF FreshOwn, OwnBasis, Seen
      <4> QED
        BY <1>5, <4>1, <4>2, <4>3, <4>4
    <3>3. ASSUME NEW g \in fresh, g # f
          PROVE  /\ pc'[g] \notin {"idle", "reading", "rules"}
                 /\ pc'[g] \in {"restored", "done"} => OwnBasis(g)' /\ said'[g] = Seen(g)
      <4>1. g \in Files /\ pc'[g] = pc[g] /\ g \notin Active
        BY <3>3, <2>1, <2>2
      <4> QED
        BY <4>1, <3>3, <2>1, <1>2 DEF FreshOwn, OwnBasis, Seen, Active
    <3> QED
      BY <3>2, <3>3, <2>1 DEF FreshOwn, Seen
  <2> QED
    BY <2>4, <2>5, <2>6, <2>7
<1>6. ASSUME NEW f \in Files, NEW n \in Placed,
             Look(f, n) \/ Hit(f, n) \/ KeyLost(f, n) \/ Miss(f, n)
      PROVE (Solo /\ KeysHeld /\ WalkHeld /\ FreshOwn)'
  <2>0. ~KeyLost(f, n)
    BY <1>2 DEF KeyLost, KeysHeld
  <2>1. /\ pc[f] \in {"reading", "rules"} /\ UNCHANGED <<pc, walk, saved, basis, loaded, fresh>>
        /\ \A g \in Files \ {f} : todo'[g] = todo[g] /\ looking'[g] = looking[g] /\ said'[g] = said[g]
        /\ cached \subseteq cached'
    BY <1>6, <2>0 DEF Look, Hit, Miss, Answer, caches, history, Looks
  <2>2. \A g \in Active : g = f
    BY <2>1, <1>2 DEF Solo, Active
  <2>3. Solo' /\ WalkHeld'
    BY <2>1, <1>2 DEF Solo, Active, WalkHeld, NoneFailed
  <2>4. KeysHeld'
    <3>1. \A m \in Placed : <<m, "hit">> \in looking'[f] => m[1] \in cached'
      BY <1>6, <2>0 DEF Look, Hit, Miss, Answer, caches
    <3> QED
      BY <3>1, <2>1, <1>2 DEF KeysHeld
  <2>5. FreshOwn'
    <3>0. n[1] \in Positions /\ n[2] \in {"outer", "inner"} /\ n = <<n[1], n[2]>>
      BY DEF Placed
    <3>1. ASSUME f \in fresh PROVE OwnAnswers(f)'
      <4>1. OwnAnswers(f) /\ Batch(f)' = Batch(f) /\ Outward(Batch(f)) /\ Batch(f) \subseteq Placed
        BY <3>1, <2>1, <1>2, NodesAssumption DEF FreshOwn, Batch, Outward
      <4>2. CASE Look(f, n)
        <5>1. /\ looking[f] = {} /\ n \in todo[f] /\ UNCHANGED <<said, cached, sourced>>
              /\ looking'[f] = {<<n, IF n[1] \in cached THEN "hit" ELSE "miss">>}
              /\ todo'[f] = todo[f] \ {n}
              /\ n[2] = "inner" => <<n[1], "outer">> \notin todo[f]
          BY <4>2 DEF Look, caches
        <5>2. Held(f) = {} /\ Held(f)' = {n}
          BY <5>1 DEF Held
        <5>3. n \in Batch(f) /\ todo[f] = todo'[f] \cup {n}
          BY <4>1, <5>1 DEF OwnAnswers
        <5>4. n[1] \notin cached => n[2] = "outer"
          <6> SUFFICES ASSUME n[2] = "inner" PROVE n[1] \in cached
            BY <3>0
          <6>1. <<n[1], "outer">> \in Batch(f) \ todo[f]
            BY <4>1, <5>1, <5>3 DEF Outward
          <6> QED
            BY <6>1, <4>1, <5>2 DEF OwnAnswers
        <5>5. \A m \in Placed : <<m, "miss">> \in looking'[f] => m[2] = "outer"
          BY <5>1, <5>4
        <5> QED
          BY <4>1, <5>1, <5>2, <5>3, <5>5 DEF OwnAnswers, SourceAt
      <4>3. CASE Hit(f, n)
        <5>1. /\ <<n, "hit">> \in looking[f] /\ n[1] \in cached /\ looking'[f] = {}
              /\ said'[f] = IF n[1] \in sourced THEN said[f] \cup {n} ELSE said[f]
              /\ UNCHANGED <<todo, cached, sourced>>
          BY <4>3 DEF Hit, Answer, caches
        <5>2. Held(f) = {n} /\ Held(f)' = {}
          <6>1. looking[f] = {<<n, "hit">>}
            BY <5>1 DEF Looks
          <6> QED
            BY <5>1, <6>1 DEF Held
        <5>3. n \in Batch(f) \ todo[f]
          BY <4>1, <5>2 DEF OwnAnswers
        <5>4. n[1] \in sourced <=> SourceAt(f, n[1])
          BY <4>1, <5>1 DEF OwnAnswers
        <5> QED
          BY <4>1, <5>1, <5>2, <5>3, <5>4 DEF OwnAnswers, SourceAt
      <4>4. CASE Miss(f, n)
        <5>1. /\ <<n, "miss">> \in looking[f] /\ looking'[f] = {} /\ UNCHANGED todo
              /\ said'[f] = IF n \in Sources[f] THEN said[f] \cup {n} ELSE said[f]
              /\ cached' = cached \cup {n[1]}
              /\ sourced' = IF n \in Sources[f] THEN sourced \cup {n[1]} ELSE sourced \ {n[1]}
          BY <4>4 DEF Miss, Answer
        <5>2. Held(f) = {n} /\ Held(f)' = {}
          <6>1. looking[f] = {<<n, "miss">>}
            BY <5>1 DEF Looks
          <6> QED
            BY <5>1, <6>1 DEF Held
        <5>3. n \in Batch(f) \ todo[f]
          BY <4>1, <5>2 DEF OwnAnswers
        <5>4. n \in Sources[f] <=> SourceAt(f, n[1])
          BY <3>0, <4>1, <5>1 DEF OwnAnswers, SourceAt
        <5>5. \A x \in cached' : x \in sourced' <=> SourceAt(f, x)
          BY <4>1, <5>1, <5>4 DEF OwnAnswers
        <5> QED
          BY <4>1, <5>1, <5>2, <5>3, <5>4, <5>5 DEF OwnAnswers, SourceAt
      <4> QED
        BY <1>6, <2>0, <4>2, <4>3, <4>4
    <3>2. ASSUME NEW g \in fresh, g # f
          PROVE  /\ pc'[g] \notin {"idle", "reading", "rules"}
                 /\ pc'[g] \in {"restored", "done"} => OwnBasis(g)' /\ said'[g] = Seen(g)
      <4>1. g \in Files /\ pc'[g] = pc[g] /\ said'[g] = said[g] /\ g \notin Active
        BY <3>2, <2>1, <2>2
      <4> QED
        BY <4>1, <3>2, <2>1, <1>2 DEF FreshOwn, OwnBasis, Seen, Active
    <3>3. f \in fresh /\ pc[f] = "rules" => OwnBasis(f)'
      BY <2>1, <1>2 DEF FreshOwn, OwnBasis, Seen
    <3> QED
      BY <3>1, <3>2, <3>3, <2>1 DEF FreshOwn, Seen
  <2> QED
    BY <2>3, <2>4, <2>5
<1>7. CASE UNCHANGED vars
  BY <1>7, <1>2 DEF vars, caches, history, Solo, Active, KeysHeld, WalkHeld, NoneFailed,
                    FreshOwn, OwnAnswers, OwnBasis, Batch, Held, Seen, SourceAt
<1> QED
  BY <1>3, <1>4, <1>5, <1>6, <1>7 DEF Next, Step

LEMMA StepInv == ASSUME IInv, [Next]_vars PROVE IInv'
BY TypeStep, LooksStep, CircleStep, SerialStep DEF IInv

(* The types hold, for any number of analyses at a time.                   *)
THEOREM TypeCorrect == Spec => []TypeOK
<1>1. IInv => TypeOK
  BY DEF IInv
<1>2. IInv /\ [Next]_vars => IInv'
  BY StepInv
<1> QED
  BY <1>1, <1>2, InitInv, PTL DEF Spec

(* However analyses overlap, fail and lose keys, a call of ast.walk ends   *)
(* in the walk of the library.                                             *)
THEOREM WalkEndsHolds == Spec => []WalkEnds
<1>1. IInv => WalkEnds
  BY DEF IInv, NoCircle, WalkEnds
<1>2. IInv /\ [Next]_vars => IInv'
  BY StepInv
<1> QED
  BY <1>1, <1>2, InitInv, PTL DEF Spec

(* Analyses that do not overlap lose no key of the cache.                  *)
THEOREM NoKeyLostAloneHolds == Spec => []NoKeyLostAlone
<1>1. IInv => NoKeyLostAlone
  BY DEF IInv, SerialInv, KeysHeld, NoKeyLostAlone
<1>2. IInv /\ [Next]_vars => IInv'
  BY StepInv
<1> QED
  BY <1>1, <1>2, InitInv, PTL DEF Spec

(* Analyses that do not overlap, and of which none raises, leave ast.walk  *)
(* as they found it.                                                       *)
THEOREM WalkRestoredAloneHolds == Spec => []WalkRestoredAlone
<1>1. IInv => WalkRestoredAlone
  BY DEF IInv, SerialInv, WalkHeld, NoneFailed, WalkRestoredAlone, Active
<1>2. IInv /\ [Next]_vars => IInv'
  BY StepInv
<1> QED
  BY <1>1, <1>2, InitInv, PTL DEF Spec

(* An analysis that began with an empty cache, and overlaps with none,     *)
(* takes for sources the nodes of its own file whose outermost one is, and *)
(* so do the function summaries it makes.                                  *)
THEOREM OwnSourcesWhenFreshHolds == Spec => []OwnSourcesWhenFresh
<1>1. IInv => OwnSourcesWhenFresh
  BY DEF IInv, SerialInv, FreshOwn, OwnBasis, OwnSourcesWhenFresh
<1>2. IInv /\ [Next]_vars => IInv'
  BY StepInv
<1> QED
  BY <1>1, <1>2, InitInv, PTL DEF Spec

-----------------------------------------------------------------------------
(* The taint rule.                                                         *)

(* What is said of helpers and, while they are summarised, of variables    *)
(* is in every closed set of cells.                                        *)
SummariesHeld ==
    \A S \in SUBSET Cells : Closed(S) =>
        /\ \A f \in sources : <<f, Ret>> \in S
        /\ phase = "summaries" =>
              /\ \A v \in Vars : env[v] # "clean" => <<fn, v>> \in S
              /\ returned => <<fn, Ret>> \in S

(* While the rule walks, the raw variables are in every closed set.        *)
RawHeld ==
    phase = "rule" =>
        \A R \in SUBSET Vars : ClosedRaw(fn, R) => \A v \in Vars : env[v] = "raw" => v \in R

TaintInv == TaintTypeOK /\ SummariesHeld /\ RawHeld /\ FindingsHaveFlow

-----------------------------------------------------------------------------
(* The shape of statements and atoms.                                      *)

LEMMA StmtForm ==
    ASSUME prog \in Seq(Function), NEW f \in Fns, NEW i \in DOMAIN Stmts(f)
    PROVE  /\ Stmts(f)[i] \in Stmt
           /\ Stmts(f)[i].kind \in {"assign", "aug", "return", "sink"}
           /\ Stmts(f)[i].kind # "sink" => Stmts(f)[i].expr \in Seq(Atom)
           /\ Stmts(f)[i].kind \in {"assign", "aug"} => Stmts(f)[i].to \in Vars
           /\ Stmts(f)[i].kind = "return" => Stmts(f)[i].to = Ret
           /\ Stmts(f)[i].kind = "sink" => Stmts(f)[i].args \in Seq(Seq(Atom))
<1>1. prog[f] \in Function
  BY DEF Fns
<1>2. Stmts(f) \in Seq(Stmt)
  BY <1>1 DEF Stmts, Function
<1>3. Stmts(f)[i] \in Stmt
  BY <1>2
<1> QED
  BY <1>3 DEF Stmt

LEMMA UntrustedForm ==
    ASSUME prog \in Seq(Function), NEW f \in Fns
    PROVE  prog[f].untrusted \subseteq Vars
<1>1. prog[f] \in Function
  BY DEF Fns
<1> QED
  BY <1>1 DEF Function

(* A tainted atom has its taint from a source, a variable or a helper, and *)
(* a raw one is not sanitized.                                             *)
LEMMA LevelForm ==
    ASSUME env \in [Vars -> Levels], NEW a \in Atom
    PROVE  /\ Level(a) \in Levels
           /\ Level(a) # "clean" =>
                 \/ a.kind = "source"
                 \/ a.kind = "var" /\ a.name \in Vars /\ env[a.name] # "clean"
                 \/ a.kind = "call" /\ a.name \in sources
           /\ Level(a) = "raw" =>
                 /\ ~a.san
                 /\ \/ a.kind = "source"
                    \/ a.kind = "var" /\ a.name \in Vars /\ env[a.name] = "raw"
                    \/ a.kind = "call" /\ a.name \in sources
<1>1. CASE a.kind = "source"
  BY <1>1 DEF Level, Levels
<1>2. CASE a.kind = "var"
  <2>1. a.name \in Vars
    BY <1>2 DEF Atom
  <2>2. env[a.name] \in Levels
    BY <2>1
  <2> QED
    BY <1>2, <2>1, <2>2 DEF Level, Levels
<1>3. CASE a.kind = "call"
  BY <1>3 DEF Level, Levels
<1>4. a.kind \in {"source", "var", "call"}
  BY DEF Atom
<1> QED
  BY <1>1, <1>2, <1>3, <1>4

(* The value of an expression is that of one of its atoms, unless clean.   *)
LEMMA ValueForm ==
    ASSUME env \in [Vars -> Levels], NEW e \in Seq(Atom)
    PROVE  /\ Value(e) \in Levels
           /\ Value(e) # "clean" => \E i \in DOMAIN e : e[i] \in Atom /\ Level(e[i]) = Value(e)
<1>1. CASE \E i \in DOMAIN e : IsOrigin(e, i)
  <2> DEFINE k == CHOOSE i \in DOMAIN e : IsOrigin(e, i)
  <2>1. k \in DOMAIN e
    BY <1>1
  <2>2. e[k] \in Atom
    BY <2>1
  <2>3. Value(e) = Level(e[k])
    BY <1>1 DEF Value
  <2>4. Level(e[k]) \in Levels
    BY <2>2, LevelForm
  <2> QED
    BY <2>1, <2>2, <2>3, <2>4
<1>2. CASE ~\E i \in DOMAIN e : IsOrigin(e, i)
  BY <1>2 DEF Value, Levels
<1> QED
  BY <1>1, <1>2

-----------------------------------------------------------------------------
(* Where the taint of a statement comes from.                              *)

LEMMA SourceFlows ==
    ASSUME TaintTypeOK, SummariesHeld, phase = "summaries",
           NEW i \in DOMAIN Stmts(fn), Stmts(fn)[i].kind # "sink", HasSource(Stmts(fn)[i].expr),
           NEW S \in SUBSET Cells, Closed(S)
    PROVE  <<fn, Stmts(fn)[i].to>> \in S
<1> DEFINE s == Stmts(fn)[i]
<1>1. fn \in Fns
  BY DEF TaintTypeOK
<1>2. s.expr \in Seq(Atom)
  BY <1>1, StmtForm DEF TaintTypeOK
<1>3. PICK k \in DOMAIN s.expr : Level(s.expr[k]) # "clean"
  BY DEF HasSource
<1>4. s.expr[k] \in Atom
  BY <1>2
<1>5. Touched(fn, s.expr[k], S)
  <2> DEFINE a == s.expr[k]
  <2>1. CASE a.kind = "source"
    BY <2>1 DEF Touched
  <2>2. CASE a.kind = "var" /\ a.name \in Vars /\ env[a.name] # "clean"
    BY <2>2 DEF Touched, SummariesHeld
  <2>3. CASE a.kind = "call" /\ a.name \in sources
    BY <2>3 DEF Touched, SummariesHeld
  <2>4. env \in [Vars -> Levels]
    BY DEF TaintTypeOK
  <2> QED
    BY <1>3, <1>4, <2>1, <2>2, <2>3, <2>4, LevelForm
<1>6. s.expr[k] \in Atoms(s.expr)
  BY DEF Atoms
<1> QED
  BY <1>1, <1>5, <1>6 DEF Closed

(* A raw value is that of an atom that is touched in each closed set.      *)
LEMMA RawFlows ==
    ASSUME TaintTypeOK, SummariesHeld, RawHeld, phase = "rule",
           NEW e \in Seq(Atom), Value(e) = "raw",
           NEW R \in SUBSET Vars, ClosedRaw(fn, R)
    PROVE  \E a \in Atoms(e) : TouchedRaw(a, R)
<1>1. env \in [Vars -> Levels]
  BY DEF TaintTypeOK
<1>2. PICK k \in DOMAIN e : e[k] \in Atom /\ Level(e[k]) = "raw"
  <2>1. Value(e) # "clean"
    OBVIOUS
  <2> QED
    BY <1>1, <2>1, ValueForm
<1>3. \A f \in sources : f \in MayReturn
  BY DEF MayReturn, SummariesHeld, TaintTypeOK
<1>4. TouchedRaw(e[k], R)
  <2> DEFINE a == e[k]
  <2>1. /\ ~a.san
        /\ \/ a.kind = "source"
           \/ a.kind = "var" /\ a.name \in Vars /\ env[a.name] = "raw"
           \/ a.kind = "call" /\ a.name \in sources
    BY <1>1, <1>2, LevelForm
  <2>2. a.kind = "var" /\ a.name \in Vars /\ env[a.name] = "raw" => a.name \in R
    BY DEF RawHeld
  <2> QED
    BY <1>3, <2>1, <2>2 DEF TouchedRaw
<1>5. e[k] \in Atoms(e)
  BY DEF Atoms
<1> QED
  BY <1>4, <1>5

-----------------------------------------------------------------------------
(* The file's own flows do not change while it is walked.                  *)
LEMMA FlowsFixed ==
    ASSUME prog' = prog
    PROVE  /\ Fns' = Fns /\ Cells' = Cells
           /\ \A f : Stmts(f)' = Stmts(f)
           /\ \A S : Closed(S)' <=> Closed(S)
           /\ \A f, R : ClosedRaw(f, R)' <=> ClosedRaw(f, R)
           /\ \A f : FlowsTo(f)' = FlowsTo(f)
<1>1. Fns' = Fns /\ Cells' = Cells /\ \A f : Stmts(f)' = Stmts(f)
  BY DEF Fns, Cells, Stmts
<1>2. \A S : Closed(S)' <=> Closed(S)
  BY DEF Fns, Stmts, Closed, Touched, Atoms
<1>3. MayReturn' = MayReturn
  BY <1>1, <1>2 DEF MayReturn
<1>4. \A a, R : TouchedRaw(a, R)' <=> TouchedRaw(a, R)
  BY <1>3 DEF TouchedRaw
<1>5. \A f, R : ClosedRaw(f, R)' <=> ClosedRaw(f, R)
  BY <1>4 DEF ClosedRaw, Stmts, Atoms
<1>6. \A f : MayBeRaw(f)' = MayBeRaw(f)
  BY <1>5 DEF MayBeRaw
<1>7. \A f : FlowsTo(f)' = FlowsTo(f)
  BY <1>1, <1>4, <1>6 DEF FlowsTo, Atoms, Stmts
<1> QED
  BY <1>1, <1>2, <1>5, <1>7

(* The variables that are in every closed set are themselves one.          *)
LEMMA MayBeRawClosed ==
    ASSUME prog \in Seq(Function), NEW f \in Fns
    PROVE  ClosedRaw(f, MayBeRaw(f))
<1>1. prog[f].untrusted \subseteq MayBeRaw(f)
  BY UntrustedForm DEF MayBeRaw, ClosedRaw
<1>2. ASSUME NEW i \in DOMAIN Stmts(f), Stmts(f)[i].kind \in {"assign", "aug"},
             NEW a \in Atoms(Stmts(f)[i].expr), TouchedRaw(a, MayBeRaw(f))
      PROVE  Stmts(f)[i].to \in MayBeRaw(f)
  <2>1. Stmts(f)[i].to \in Vars
    BY <1>2, StmtForm
  <2>2. ASSUME NEW R \in SUBSET Vars, ClosedRaw(f, R) PROVE Stmts(f)[i].to \in R
    <3>1. MayBeRaw(f) \subseteq R
      BY <2>2 DEF MayBeRaw
    <3>2. TouchedRaw(a, R)
      BY <1>2, <3>1 DEF TouchedRaw
    <3> QED
      BY <1>2, <2>2, <3>2 DEF ClosedRaw
  <2> QED
    BY <2>1, <2>2 DEF MayBeRaw
<1> QED
  BY <1>1, <1>2 DEF ClosedRaw

LEMMA TaintInitInv == TaintInit => TaintInv
<1> SUFFICES ASSUME TaintInit PROVE TaintInv
  OBVIOUS
<1>1. prog \in Seq(Function) /\ 1 \in Fns
  BY ProgramsAssumption DEF TaintInit, Fns
<1>2. TaintTypeOK
  <2>1. pass \in 1..Passes
    BY PassesAssumption DEF TaintInit
  <2>2. env \in [Vars -> Levels]
    BY DEF TaintInit, Clean, Levels
  <2> QED
    BY <1>1, <2>1, <2>2 DEF TaintInit, TaintTypeOK
<1>3. SummariesHeld
  BY DEF TaintInit, SummariesHeld, Clean
<1>4. RawHeld /\ FindingsHaveFlow
  BY DEF TaintInit, RawHeld, FindingsHaveFlow
<1> QED
  BY <1>2, <1>3, <1>4 DEF TaintInv

(* A table in which just the untrusted parameters are raw is right.        *)
LEMMA UntrustedRight ==
    ASSUME prog \in Seq(Function), NEW f \in Fns
    PROVE  /\ Untrusted(f) \in [Vars -> Levels]
           /\ \A R \in SUBSET Vars : ClosedRaw(f, R) =>
                 \A v \in Vars : Untrusted(f)[v] = "raw" => v \in R
BY DEF Untrusted, Levels, ClosedRaw

LEMMA SummarisedStep ==
    ASSUME TaintInv, Summarised
    PROVE  TaintInv'
<1> USE DEF TaintInv
<1>1. /\ prog' = prog /\ findings' = findings /\ phase = "summaries"
      /\ prog \in Seq(Function) /\ fn \in Fns
  BY DEF Summarised, TaintTypeOK
<1>2. prog[1] \in Function /\ 1 \in Fns /\ Fns = 1..Len(prog) /\ Len(prog) \in Nat
  BY <1>1 DEF Fns
<1>3. sources' \subseteq sources \cup {fn} /\ (fn \in sources' => returned)
  BY DEF Summarised
<1>4. \A S \in SUBSET Cells : Closed(S) => \A f \in sources' : <<f, Ret>> \in S
  BY <1>1, <1>3 DEF SummariesHeld
<1>5. CASE Walk(fn + 1, "summaries", Clean) /\ fn # Len(prog) /\ changed' \in BOOLEAN /\ UNCHANGED pass
  <2>1. fn + 1 \in Fns
    BY <1>1, <1>2, <1>5
  <2>2. TaintTypeOK'
    BY <1>1, <1>3, <1>5, <2>1 DEF TaintTypeOK, Walk, Clean, Levels, Fns, Stmts
  <2>3. SummariesHeld'
    BY <1>1, <1>4, <1>5, FlowsFixed DEF SummariesHeld, Walk, Clean
  <2> QED
    BY <1>1, <1>5, <2>2, <2>3, FlowsFixed DEF RawHeld, Walk, FindingsHaveFlow
<1>6. CASE Walk(1, "summaries", Clean) /\ pass < Passes /\ pass' = pass + 1 /\ changed' = FALSE
  <2>1. pass' \in 1..Passes
    BY <1>6, PassesAssumption DEF TaintTypeOK
  <2>2. TaintTypeOK'
    BY <1>1, <1>2, <1>3, <1>6, <2>1 DEF TaintTypeOK, Walk, Clean, Levels, Fns, Stmts
  <2>3. SummariesHeld'
    BY <1>1, <1>4, <1>6, FlowsFixed DEF SummariesHeld, Walk, Clean
  <2> QED
    BY <1>1, <1>6, <2>2, <2>3, FlowsFixed DEF RawHeld, Walk, FindingsHaveFlow
<1>7. CASE Walk(1, "rule", Untrusted(1)) /\ changed' \in BOOLEAN /\ UNCHANGED pass
  <2>1. TaintTypeOK'
    BY <1>1, <1>2, <1>3, <1>7, UntrustedRight DEF TaintTypeOK, Walk, Fns, Stmts
  <2>2. SummariesHeld'
    BY <1>1, <1>4, <1>7, FlowsFixed DEF SummariesHeld, Walk
  <2>3. RawHeld'
    BY <1>1, <1>2, <1>7, UntrustedRight, FlowsFixed DEF RawHeld, Walk
  <2> QED
    BY <1>1, <2>1, <2>2, <2>3, FlowsFixed DEF FindingsHaveFlow
<1> QED
  <2>1. (changed \/ (IF returned THEN sources \cup {fn} ELSE sources \ {fn}) # sources) \in BOOLEAN
    BY DEF TaintTypeOK
  <2> QED
    BY <1>5, <1>6, <1>7, <2>1 DEF Summarised, More

LEMMA SummariseStep ==
    ASSUME TaintInv, NEW i \in left, Summarise(i)
    PROVE  TaintInv'
<1> USE DEF TaintInv
<1> DEFINE s == Stmts(fn)[i]
           has == s.kind # "sink" /\ HasSource(s.expr)
<1>1. /\ prog' = prog /\ findings' = findings /\ phase = "summaries" /\ phase' = phase
      /\ sources' = sources /\ fn' = fn /\ pass' = pass /\ changed' = changed
      /\ left' = left \ {i} /\ i \in DOMAIN Stmts(fn)
      /\ prog \in Seq(Function) /\ fn \in Fns
  BY DEF Summarise, Visited, TaintTypeOK
<1>2. /\ s.kind \in {"assign", "aug", "return", "sink"}
      /\ s.kind \in {"assign", "aug"} => s.to \in Vars
      /\ s.kind = "return" => s.to = Ret
  BY <1>1, StmtForm
<1>3. \/ env' = env
      \/ /\ s.kind \in {"assign", "aug"}
         /\ \/ has /\ env' = [env EXCEPT ![s.to] = "raw"]
            \/ env' = [env EXCEPT ![s.to] = "clean"]
            \/ env' = [env EXCEPT ![s.to] = @]
  BY <1>2 DEF Summarise
<1>4. returned' = (returned \/ (s.kind = "return" /\ has))
  BY DEF Summarise
<1>5. \A S \in SUBSET Cells : Closed(S) /\ has => <<fn, s.to>> \in S
  BY <1>1, SourceFlows
<1>6. env' \in [Vars -> Levels]
  BY <1>2, <1>3 DEF TaintTypeOK, Levels
<1>7. TaintTypeOK'
  <2>1. returned' \in BOOLEAN
    BY <1>4
  <2> QED
    BY <1>1, <1>6, <2>1 DEF TaintTypeOK, Fns, Stmts
<1>8. \A S \in SUBSET Cells : Closed(S) =>
          /\ \A v \in Vars : env'[v] # "clean" => <<fn, v>> \in S
          /\ returned' => <<fn, Ret>> \in S
  <2> SUFFICES ASSUME NEW S \in SUBSET Cells, Closed(S)
               PROVE  /\ \A v \in Vars : env'[v] # "clean" => <<fn, v>> \in S
                      /\ returned' => <<fn, Ret>> \in S
    OBVIOUS
  <2>1. ASSUME NEW v \in Vars, env'[v] # "clean" PROVE <<fn, v>> \in S
    <3>1. env[v] # "clean" => <<fn, v>> \in S
      BY <1>1 DEF SummariesHeld
    <3>2. env[v] # "clean" \/ (has /\ v = s.to)
      BY <1>2, <1>3, <2>1 DEF TaintTypeOK
    <3> QED
      BY <1>5, <3>1, <3>2
  <2>2. ASSUME returned' PROVE <<fn, Ret>> \in S
    <3>1. returned => <<fn, Ret>> \in S
      BY <1>1 DEF SummariesHeld
    <3> QED
      BY <1>2, <1>4, <1>5, <2>2, <3>1
  <2> QED
    BY <2>1, <2>2
<1>9. SummariesHeld'
  BY <1>1, <1>8, FlowsFixed DEF SummariesHeld
<1> QED
  BY <1>1, <1>7, <1>9, FlowsFixed DEF RawHeld, FindingsHaveFlow

(* An assignment of the rule's walk gives its variable the value's level.  *)
LEMMA AssignStep ==
    ASSUME TaintInv, phase = "rule", NEW i \in left, Visited(i),
           Stmts(fn)[i].kind \in {"assign", "aug"},
           \/ env' = env
           \/ env' = [env EXCEPT ![Stmts(fn)[i].to] = Value(Stmts(fn)[i].expr)],
           UNCHANGED <<prog, phase, pass, changed, sources, fn, returned, findings>>
    PROVE  TaintInv'
<1> USE DEF TaintInv
<1> DEFINE s == Stmts(fn)[i]
<1>1. /\ prog' = prog /\ findings' = findings /\ phase' = phase
      /\ sources' = sources /\ fn' = fn /\ pass' = pass /\ changed' = changed /\ returned' = returned
      /\ left' = left \ {i} /\ i \in DOMAIN Stmts(fn)
      /\ prog \in Seq(Function) /\ fn \in Fns /\ env \in [Vars -> Levels]
  BY DEF Visited, TaintTypeOK
<1>2. s.to \in Vars /\ s.expr \in Seq(Atom) /\ s.kind # "sink"
  BY <1>1, StmtForm
<1>3. Value(s.expr) \in Levels
  BY <1>1, <1>2, ValueForm
<1>4. env' \in [Vars -> Levels]
  BY <1>1, <1>2, <1>3
<1>5. TaintTypeOK'
  BY <1>1, <1>4 DEF TaintTypeOK, Fns, Stmts
<1>6. SummariesHeld'
  BY <1>1, FlowsFixed DEF SummariesHeld
<1>7. ASSUME NEW R \in SUBSET Vars, ClosedRaw(fn, R), NEW v \in Vars, env'[v] = "raw"
      PROVE  v \in R
  <2>1. CASE env[v] = "raw"
    BY <1>7, <2>1 DEF RawHeld
  <2>2. CASE env[v] # "raw"
    <3>1. v = s.to /\ Value(s.expr) = "raw"
      BY <1>1, <1>2, <1>7, <2>2
    <3>2. \E a \in Atoms(s.expr) : TouchedRaw(a, R)
      BY <1>2, <1>7, <3>1, RawFlows
    <3> QED
      BY <1>1, <1>7, <3>1, <3>2 DEF ClosedRaw
  <2> QED
    BY <2>1, <2>2
<1>8. RawHeld'
  BY <1>1, <1>7, FlowsFixed DEF RawHeld
<1> QED
  BY <1>1, <1>5, <1>6, <1>8, FlowsFixed DEF FindingsHaveFlow

LEMMA SinkStep ==
    ASSUME TaintInv, NEW i \in left, Sink(i)
    PROVE  TaintInv'
<1> USE DEF TaintInv
<1> DEFINE s == Stmts(fn)[i]
<1>1. /\ prog' = prog /\ phase = "rule" /\ phase' = phase /\ env' = env
      /\ sources' = sources /\ fn' = fn /\ pass' = pass /\ changed' = changed /\ returned' = returned
      /\ left' = left \ {i} /\ i \in DOMAIN Stmts(fn)
      /\ prog \in Seq(Function) /\ fn \in Fns /\ s.kind = "sink"
  BY DEF Sink, Visited, TaintTypeOK
<1>2. findings' = IF Reported(s.args) THEN findings \cup {<<fn, i>>} ELSE findings
  BY DEF Sink
<1>3. ASSUME Reported(s.args) PROVE i \in FlowsTo(fn)
  <2>1. PICK j \in DOMAIN s.args : Value(s.args[j]) = "raw"
    BY <1>3 DEF Reported
  <2>2. s.args[j] \in Seq(Atom)
    BY <1>1, StmtForm
  <2>3. MayBeRaw(fn) \in SUBSET Vars
    BY DEF MayBeRaw
  <2>4. ClosedRaw(fn, MayBeRaw(fn))
    BY <1>1, MayBeRawClosed
  <2>5. \E a \in Atoms(s.args[j]) : TouchedRaw(a, MayBeRaw(fn))
    BY <1>1, <2>1, <2>2, <2>3, <2>4, RawFlows
  <2> QED
    BY <1>1, <2>1, <2>5 DEF FlowsTo
<1>4. \A x \in findings' : x \in findings \/ (x = <<fn, i>> /\ i \in FlowsTo(fn))
  BY <1>2, <1>3
<1>5. TaintTypeOK'
  BY <1>1, <1>4 DEF TaintTypeOK, Fns, Stmts
<1>6. SummariesHeld' /\ RawHeld'
  BY <1>1, FlowsFixed DEF SummariesHeld, RawHeld
<1>7. FindingsHaveFlow'
  BY <1>1, <1>4, FlowsFixed DEF FindingsHaveFlow
<1> QED
  BY <1>5, <1>6, <1>7

LEMMA ReturnStep ==
    ASSUME TaintInv, NEW i \in left, Return(i)
    PROVE  TaintInv'
<1> USE DEF TaintInv
<1>1. /\ left' = left \ {i}
      /\ UNCHANGED <<prog, phase, pass, changed, sources, fn, env, returned, findings>>
  BY DEF Return, Visited
<1>2. TaintTypeOK'
  BY <1>1 DEF TaintTypeOK, Fns, Stmts
<1> QED
  BY <1>1, <1>2, FlowsFixed DEF SummariesHeld, RawHeld, FindingsHaveFlow

LEMMA WalkedStep ==
    ASSUME TaintInv, Walked
    PROVE  TaintInv'
<1> USE DEF TaintInv
<1>1. /\ prog' = prog /\ phase = "rule" /\ pass' = pass /\ changed' = changed
      /\ sources' = sources /\ findings' = findings
      /\ prog \in Seq(Function) /\ fn \in Fns /\ Fns = 1..Len(prog) /\ Len(prog) \in Nat
  BY DEF Walked, TaintTypeOK, Fns
<1>2. CASE fn < Len(prog) /\ Walk(fn + 1, "rule", Untrusted(fn + 1))
  <2>1. fn + 1 \in Fns
    BY <1>1, <1>2
  <2>2. TaintTypeOK'
    BY <1>1, <1>2, <2>1, UntrustedRight DEF TaintTypeOK, Walk, Fns, Stmts
  <2>3. RawHeld'
    BY <1>1, <1>2, <2>1, UntrustedRight, FlowsFixed DEF RawHeld, Walk
  <2> QED
    BY <1>1, <1>2, <2>2, <2>3, FlowsFixed DEF SummariesHeld, Walk, FindingsHaveFlow
<1>3. CASE phase' = "done" /\ UNCHANGED <<fn, left, env, returned>>
  <2>1. TaintTypeOK'
    BY <1>1, <1>3 DEF TaintTypeOK, Fns, Stmts
  <2> QED
    BY <1>1, <1>3, <2>1, FlowsFixed DEF SummariesHeld, RawHeld, FindingsHaveFlow
<1> QED
  BY <1>2, <1>3 DEF Walked

LEMMA TaintStepInv == TaintInv /\ [TaintNext]_taintVars => TaintInv'
<1> SUFFICES ASSUME TaintInv, [TaintNext]_taintVars PROVE TaintInv'
  OBVIOUS
<1>1. CASE Summarised
  BY <1>1, SummarisedStep
<1>2. CASE Walked
  BY <1>2, WalkedStep
<1>3. CASE \E i \in left : Summarise(i)
  BY <1>3, SummariseStep
<1>4. CASE \E i \in left : Assign(i)
  BY <1>4, AssignStep DEF Assign
<1>5. CASE \E i \in left : AugAssign(i)
  BY <1>5, AssignStep DEF AugAssign
<1>6. CASE \E i \in left : Sink(i)
  BY <1>6, SinkStep
<1>7. CASE \E i \in left : Return(i)
  BY <1>7, ReturnStep
<1>8. CASE UNCHANGED taintVars
  <2>1. TaintTypeOK'
    BY <1>8 DEF TaintInv, TaintTypeOK, taintVars, Fns, Stmts
  <2> QED
    BY <1>8, <2>1, FlowsFixed DEF TaintInv, SummariesHeld, RawHeld, FindingsHaveFlow, taintVars
<1> QED
  BY <1>1, <1>2, <1>3, <1>4, <1>5, <1>6, <1>7, <1>8 DEF TaintNext

LEMMA Invariance == TaintSpec => []TaintInv
BY TaintInitInv, TaintStepInv, PTL DEF TaintSpec

-----------------------------------------------------------------------------
(* The walk's bookkeeping keeps its types, whatever the file.              *)
THEOREM TaintTypeCorrect == TaintSpec => []TaintTypeOK
<1>1. TaintInv => TaintTypeOK
  BY DEF TaintInv
<1> QED
  BY <1>1, Invariance, PTL

(* No sink is reported that no chain of assignments from a source, an      *)
(* untrusted parameter or a helper that may return one leads to (_rule_03).*)
THEOREM FindingsHaveFlowHolds == TaintSpec => []FindingsHaveFlow
<1>1. TaintInv => FindingsHaveFlow
  BY DEF TaintInv
<1> QED
  BY <1>1, Invariance, PTL

-----------------------------------------------------------------------------
(* Plain functions: what the walk has passed it need not pass again.       *)

AllPlain == \A f \in Fns : Plain(f)

Ordered ==
    phase # "done" => \A i \in DOMAIN Stmts(fn) \ left, j \in left : Sooner(fn, i, j)

(* A statement behind the walk, by the table as it is now.                 *)
Behind(i) ==
    LET s == Stmts(fn)[i]
    IN  /\ s.kind = "assign" /\ HasSource(s.expr) => env[s.to] = "raw"
        /\ phase = "summaries" /\ s.kind = "return" /\ HasSource(s.expr) => returned
        /\ phase = "rule" /\ s.kind = "sink" /\ (\E k \in DOMAIN s.args : HasSource(s.args[k]))
              => <<fn, i>> \in findings

Followed ==
    (phase # "done" /\ AllPlain) =>
        /\ \A v \in Vars : env[v] # "san"
        /\ phase = "rule" => \A v \in prog[fn].untrusted : env[v] = "raw"
        /\ \A i \in DOMAIN Stmts(fn) \ left : Behind(i)

(* In V and T is all that g's statements taint from V and T.               *)
Local(g, V, T) ==
    \A i \in DOMAIN Stmts(g) :
        LET s == Stmts(g)[i]
        IN  (s.kind # "sink" /\ \E a \in Atoms(s.expr) : \/ a.kind = "source"
                                                         \/ a.kind = "var" /\ a.name \in V
                                                         \/ a.kind = "call" /\ a.name \in T)
               => IF s.kind = "return" THEN g \in T ELSE s.to \in V

HasLocal(g, T) == \E V \in SUBSET Vars : Local(g, V, T)

(* The functions whose summaries count on the others' as they are now.     *)
Settling ==
    (AllPlain /\ (CalleesFirst \/ ~changed)) =>
        \A g \in Fns : (phase # "summaries" \/ g < fn \/ (CalleesFirst /\ pass > 1)) => HasLocal(g, sources)

SettledEarly == (AllPlain /\ CalleesFirst /\ (phase # "summaries" \/ pass > 1)) => ~changed

(* The functions behind the rule's walk have all their findings.           *)
Found ==
    (AllPlain /\ ~changed) =>
        \A g \in Fns : (phase = "done" \/ (phase = "rule" /\ g < fn)) => {g} \X FlowsTo(g) \subseteq findings

PlainInv ==
    /\ TaintInv
    /\ \A x \in findings : x = <<x[1], x[2]>>
    /\ Ordered /\ Followed /\ Settling /\ SettledEarly /\ Found

LEMMA LeastNumber == \A S \in SUBSET Nat : S # {} => \E n \in S : \A m \in S : n <= m
<1> SUFFICES ASSUME NEW S \in SUBSET Nat, S # {}
             PROVE  \E n \in S : \A m \in S : n <= m
  OBVIOUS
<1> DEFINE R == {ss \in Nat \X Nat : ss[1] < ss[2]}
<1>1. IsWellFoundedOn(R, Nat)
  BY NatLessThanWellFounded DEF OpToRel
<1>2. \A n, m \in Nat : <<m, n>> \in R <=> m < n
  OBVIOUS
<1> HIDE DEF R
<1>3. PICK n \in S : \A m \in S : ~(<<m, n>> \in R)
  BY <1>1, WFMin
<1>4. ASSUME NEW m \in S PROVE n <= m
  <2>1. n \in Nat /\ m \in Nat /\ ~(m < n)
    BY <1>2, <1>3
  <2> QED
    BY <2>1
<1> QED
  BY <1>4

(* An expression with a source has one that is found first.                *)
LEMMA FirstOrigin ==
    ASSUME env \in [Vars -> Levels], NEW e \in Seq(Atom), HasSource(e)
    PROVE  Value(e) # "clean"
<1>0. PICK S : S = {i \in DOMAIN e : Level(e[i]) # "clean"}
  OBVIOUS
<1>1. S \in SUBSET Nat /\ S # {}
  BY <1>0 DEF HasSource
<1>2. PICK n \in S : \A m \in S : n <= m
  BY <1>1, LeastNumber
<1>3. IsOrigin(e, n)
  <2>1. n \in DOMAIN e /\ n \in Nat /\ Level(e[n]) # "clean" /\ DOMAIN e = 1..Len(e)
    BY <1>0, <1>2
  <2>2. ASSUME NEW j \in 1..(n - 1), Level(e[j]) # "clean" PROVE FALSE
    <3>1. j \in S
      BY <1>0, <2>1, <2>2
    <3>2. n <= j
      BY <1>2, <3>1
    <3> QED
      BY <2>1, <3>2
  <2> QED
    BY <2>1, <2>2 DEF IsOrigin
<1> DEFINE c == CHOOSE i \in DOMAIN e : IsOrigin(e, i)
<1>4. \E i \in DOMAIN e : IsOrigin(e, i)
  BY <1>0, <1>2, <1>3
<1>5. c \in DOMAIN e /\ IsOrigin(e, c)
  BY <1>4
<1>6. Value(e) = Level(e[c])
  BY <1>4 DEF Value
<1> HIDE DEF c
<1> QED
  BY <1>5, <1>6 DEF IsOrigin

(* What a statement uses.                                                  *)
LEMMA UsesForm ==
    ASSUME prog \in Seq(Function), NEW f \in Fns, NEW i \in DOMAIN Stmts(f)
    PROVE  LET s == Stmts(f)[i] IN
           /\ s.kind # "sink" => s.expr \in Seq(Atom) /\ \A k \in DOMAIN s.expr : s.expr[k] \in Uses(s)
           /\ s.kind = "sink" => \A j \in DOMAIN s.args :
                 s.args[j] \in Seq(Atom) /\ \A k \in DOMAIN s.args[j] : s.args[j][k] \in Uses(s)
<1> DEFINE s == Stmts(f)[i]
<1>1. s.kind # "sink" => s.expr \in Seq(Atom)
  BY StmtForm
<1>2. s.kind = "sink" => \A j \in DOMAIN s.args : s.args[j] \in Seq(Atom)
  <2>1. s.kind = "sink" => s.args \in Seq(Seq(Atom))
    BY StmtForm
  <2> QED
    BY <2>1
<1> HIDE DEF s
<1>3. s.kind # "sink" => \A k \in DOMAIN s.expr : s.expr[k] \in Uses(s)
  BY DEF Uses, Atoms
<1>4. s.kind = "sink" => \A j \in DOMAIN s.args : \A k \in DOMAIN s.args[j] : s.args[j][k] \in Uses(s)
  BY DEF Uses, Atoms
<1> QED
  BY <1>1, <1>2, <1>3, <1>4 DEF s

(* Nothing sanitized or hidden: an atom is clean or raw.                   *)
LEMMA PlainLevel ==
    ASSUME env \in [Vars -> Levels], \A v \in Vars : env[v] # "san",
           NEW a \in Atom, ~a.san, a.kind = "source" => ~a.hidden
    PROVE  /\ Level(a) \in {"clean", "raw"}
           /\ Level(a) # "clean" <=>
                 \/ a.kind = "source"
                 \/ a.kind = "var" /\ env[a.name] = "raw"
                 \/ a.kind = "call" /\ a.name \in sources
<1>1. a.kind \in {"source", "var", "call"} /\ (a.kind = "var" => a.name \in Vars)
  BY DEF Atom
<1>2. a.kind = "var" => env[a.name] \in {"clean", "raw"}
  BY <1>1 DEF Levels
<1> QED
  BY <1>1, <1>2 DEF Level

LEMMA PlainValue ==
    ASSUME env \in [Vars -> Levels], \A v \in Vars : env[v] # "san",
           NEW e \in Seq(Atom),
           \A k \in DOMAIN e : ~e[k].san /\ (e[k].kind = "source" => ~e[k].hidden)
    PROVE  Value(e) = IF HasSource(e) THEN "raw" ELSE "clean"
<1>1. \A k \in DOMAIN e : Level(e[k]) \in {"clean", "raw"}
  <2> SUFFICES ASSUME NEW k \in DOMAIN e PROVE Level(e[k]) \in {"clean", "raw"}
    OBVIOUS
  <2>1. e[k] \in Atom
    OBVIOUS
  <2> QED
    BY <2>1, PlainLevel
<1>2. Value(e) # "clean" => HasSource(e) /\ Value(e) = "raw"
  BY <1>1, ValueForm DEF HasSource
<1> QED
  BY <1>2, FirstOrigin

(* An assignment comes before each statement that uses its variable.       *)
LEMMA AssignedSooner ==
    ASSUME prog \in Seq(Function), NEW f \in Fns, Plain(f),
           NEW i \in DOMAIN Stmts(f), NEW j \in DOMAIN Stmts(f),
           Stmts(f)[i].kind = "assign",
           \E a \in Uses(Stmts(f)[j]) : a.kind = "var" /\ a.name = Stmts(f)[i].to
    PROVE  i # j /\ ~Sooner(f, j, i)
<1> DEFINE s == Stmts(f)[i]
           t == Stmts(f)[j]
<1>1. s.nest \in Nat /\ t.nest \in Nat
  BY StmtForm DEF Stmt
<1>2. i < j /\ s.nest <= t.nest
  BY DEF Plain, Simple
<1>3. i \in Nat /\ j \in Nat
  <2>1. prog[f] \in Function
    BY DEF Fns
  <2>2. Stmts(f) \in Seq(Stmt)
    BY <2>1 DEF Stmts, Function
  <2> QED
    BY <2>2
<1>4. Depth(s) = s.nest + 1 /\ Depth(t) \in {t.nest + 1, t.nest + 2}
  BY DEF Depth
<1> HIDE DEF s, t
<1>5. ~(Depth(t) < Depth(s)) /\ ~(Depth(t) = Depth(s) /\ j < i)
  BY <1>1, <1>2, <1>3, <1>4
<1> QED
  BY <1>2, <1>3, <1>5 DEF Sooner, s, t

LEMMA PlainFixed ==
    ASSUME prog' = prog
    PROVE  /\ AllPlain' <=> AllPlain
           /\ CalleesFirst' <=> CalleesFirst
           /\ \A g, T : HasLocal(g, T)' <=> HasLocal(g, T)
<1>1. \A s : Uses(s)' = Uses(s) /\ \A e : Atoms(e)' = Atoms(e)
  BY DEF Uses, Atoms
<1>2. \A f : Plain(f)' <=> Plain(f)
  BY <1>1 DEF Plain, Simple, Stmts
<1>3. AllPlain' <=> AllPlain
  BY <1>2 DEF AllPlain, Fns
<1>4. CalleesFirst' <=> CalleesFirst
  BY <1>1 DEF CalleesFirst, Fns, Stmts
<1>5. \A g, T : HasLocal(g, T)' <=> HasLocal(g, T)
  BY DEF HasLocal, Local, Stmts, Atoms
<1> QED
  BY <1>3, <1>4, <1>5

LEMMA VisitOrdered ==
    ASSUME TaintTypeOK, Ordered, phase # "done", NEW i \in left, Visited(i), UNCHANGED <<prog, phase, fn>>
    PROVE  Ordered'
<1>1. left \subseteq DOMAIN Stmts(fn) /\ left' = left \ {i} /\ \A j \in left \ {i} : Sooner(fn, i, j)
  BY DEF TaintTypeOK, Visited
<1>2. \A k \in DOMAIN Stmts(fn) \ left', j \in left' : Sooner(fn, k, j)
  BY <1>1 DEF Ordered
<1>3. Stmts(fn)' = Stmts(fn) /\ \A k, j : Sooner(fn, k, j)' <=> Sooner(fn, k, j)
  BY DEF Stmts, Sooner, Depth
<1> QED
  BY <1>2, <1>3 DEF Ordered

(* What a plain function assigns changes nothing for what is behind.       *)
LEMMA SameBehind ==
    ASSUME TaintTypeOK, Ordered, AllPlain, phase # "done",
           NEW i \in left, Visited(i), UNCHANGED <<prog, sources, fn>>,
           NEW v, Stmts(fn)[i].kind = "assign", env' = [env EXCEPT ![Stmts(fn)[i].to] = v],
           NEW k \in DOMAIN Stmts(fn) \ (left \ {i})
    PROVE  LET t == Stmts(fn)[k] IN
           /\ t.kind # "sink" => (HasSource(t.expr)' <=> HasSource(t.expr))
           /\ t.kind = "sink" => \A j \in DOMAIN t.args : HasSource(t.args[j])' <=> HasSource(t.args[j])
<1> DEFINE s == Stmts(fn)[i]
           t == Stmts(fn)[k]
<1>1. prog \in Seq(Function) /\ fn \in Fns /\ i \in DOMAIN Stmts(fn) /\ env \in [Vars -> Levels]
      /\ k \in DOMAIN Stmts(fn)
  BY DEF TaintTypeOK
<1>2. \A a \in Uses(t) : a.kind = "var" => a.name # s.to
  <2>1. i = k \/ Sooner(fn, k, i)
    BY <1>1 DEF Ordered
  <2> QED
    BY <1>1, <2>1, AssignedSooner DEF AllPlain
<1>3. s.to \in Vars /\ Stmts(fn)' = Stmts(fn)
  BY <1>1, StmtForm DEF Stmts
<1>4. ASSUME NEW a \in Uses(t), a \in Atom PROVE Level(a)' = Level(a)
  <2>1. a.kind = "var" => a.name \in Vars
    BY <1>4 DEF Atom
  <2>2. a.kind = "var" => env'[a.name] = env[a.name]
    BY <1>1, <1>2, <1>3, <2>1
  <2> QED
    BY <2>2 DEF Level
<1>5. ASSUME NEW e \in Seq(Atom), \A j \in DOMAIN e : e[j] \in Uses(t)
      PROVE  HasSource(e)' <=> HasSource(e)
  <2>1. \A j \in DOMAIN e : e[j] \in Atom
    OBVIOUS
  <2>2. \A j \in DOMAIN e : Level(e[j])' = Level(e[j])
    BY <1>4, <1>5, <2>1
  <2> QED
    BY <2>2 DEF HasSource
<1>6. PICK u : u = t
  OBVIOUS
<1>7. u.kind # "sink" => (HasSource(u.expr)' <=> HasSource(u.expr))
  BY <1>1, <1>5, <1>6, UsesForm
<1>8. u.kind = "sink" => \A j \in DOMAIN u.args : HasSource(u.args[j])' <=> HasSource(u.args[j])
  BY <1>1, <1>5, <1>6, UsesForm
<1>9. u = Stmts(fn)'[k]
  BY <1>3, <1>6
<1> QED
  BY <1>6, <1>7, <1>8, <1>9

(* A statement of a plain function is visited.                             *)
LEMMA VisitFollowed ==
    ASSUME TaintTypeOK, Ordered, Followed, phase # "done",
           NEW i \in left, Visited(i), UNCHANGED <<prog, phase, sources, fn>>,
           LET s == Stmts(fn)[i] IN
           AllPlain =>
              /\ env' = IF s.kind = "assign" THEN [env EXCEPT ![s.to] = IF HasSource(s.expr) THEN "raw" ELSE "clean"]
                        ELSE env
              /\ returned => returned'
              /\ findings \subseteq findings'
              /\ phase = "summaries" /\ s.kind = "return" /\ HasSource(s.expr) => returned'
              /\ phase = "rule" /\ s.kind = "sink" /\ (\E k \in DOMAIN s.args : HasSource(s.args[k]))
                    => <<fn, i>> \in findings'
    PROVE  Followed'
<1> SUFFICES ASSUME AllPlain
             PROVE  /\ \A v \in Vars : env'[v] # "san"
                    /\ phase = "rule" => \A v \in prog[fn].untrusted : env'[v] = "raw"
                    /\ \A k \in DOMAIN Stmts(fn) \ (left \ {i}) : Behind(k)'
  BY PlainFixed DEF Followed, Visited, Stmts
<1>1. /\ prog \in Seq(Function) /\ fn \in Fns /\ i \in DOMAIN Stmts(fn) /\ env \in [Vars -> Levels]
      /\ Stmts(fn)' = Stmts(fn)
  BY DEF TaintTypeOK, Stmts
<1>2. PICK s : s = Stmts(fn)[i]
  OBVIOUS
<1>3. s.kind = "assign" => s.to \in Vars /\ s.to \notin prog[fn].untrusted
  BY <1>1, <1>2, StmtForm DEF AllPlain, Plain, Simple
<1>4. prog[fn].untrusted \subseteq Vars
  BY <1>1, UntrustedForm
<1>5. env' = IF s.kind = "assign" THEN [env EXCEPT ![s.to] = IF HasSource(s.expr) THEN "raw" ELSE "clean"] ELSE env
  BY <1>2
<1>6. (\A v \in Vars : env'[v] # "san") /\ (phase = "rule" => \A v \in prog[fn].untrusted : env'[v] = "raw")
  BY <1>1, <1>3, <1>4, <1>5 DEF Followed
<1>7. ASSUME NEW k \in DOMAIN Stmts(fn) \ (left \ {i}) PROVE Behind(k)'
  <2>1. PICK t : t = Stmts(fn)[k]
    OBVIOUS
  <2>2. t = Stmts(fn)'[k]
    BY <1>1, <2>1
  <2>3. /\ t.kind # "sink" => (HasSource(t.expr)' <=> HasSource(t.expr))
        /\ t.kind = "sink" => \A j \in DOMAIN t.args : HasSource(t.args[j])' <=> HasSource(t.args[j])
    <3>1. CASE s.kind = "assign"
      <4>1. PICK v : v = IF HasSource(s.expr) THEN "raw" ELSE "clean"
        OBVIOUS
      <4>2. env' = [env EXCEPT ![Stmts(fn)[i].to] = v] /\ Stmts(fn)[i].kind = "assign"
        BY <1>2, <1>5, <3>1, <4>1
      <4>3. LET u == Stmts(fn)[k] IN
            /\ u.kind # "sink" => (HasSource(u.expr)' <=> HasSource(u.expr))
            /\ u.kind = "sink" => \A j \in DOMAIN u.args : HasSource(u.args[j])' <=> HasSource(u.args[j])
        BY <4>2, SameBehind
      <4> QED
        BY <2>1, <2>2, <4>3
    <3>2. CASE s.kind # "assign"
      <4>1. env' = env /\ sources' = sources
        BY <1>5, <3>2
      <4>2. \A a : Level(a)' = Level(a)
        BY <4>1 DEF Level
      <4> QED
        BY <4>2 DEF HasSource
    <3> QED
      BY <3>1, <3>2
  <2>4. CASE k = i
    <3>1. t = s
      BY <1>2, <2>1, <2>4
    <3>2. s.kind = "assign" => env'[s.to] = IF HasSource(s.expr) THEN "raw" ELSE "clean"
      BY <1>1, <1>3, <1>5
    <3> QED
      BY <1>2, <2>2, <2>3, <2>4, <3>1, <3>2 DEF Behind
  <2>5. CASE k # i
    <3>1. Behind(k)
      BY <2>5 DEF Followed
    <3>2. t.kind = "assign" => env'[t.to] = env[t.to]
      <4>1. t.kind = "assign" /\ s.kind = "assign" => t.to # s.to
        BY <1>1, <1>2, <2>1, <2>5 DEF AllPlain, Plain, Simple
      <4>2. t.kind = "assign" => t.to \in Vars
        BY <1>1, <2>1, StmtForm
      <4> QED
        BY <1>1, <1>3, <1>5, <4>1, <4>2
    <3> QED
      BY <2>1, <2>2, <2>3, <3>1, <3>2 DEF Behind
  <2> QED
    BY <2>4, <2>5
<1> QED
  BY <1>6, <1>7

(* What the rule makes of a statement of a plain function.                 *)
LEMMA PlainVisit ==
    ASSUME TaintTypeOK, Followed, AllPlain, phase # "done", NEW i \in left
    PROVE  LET s == Stmts(fn)[i] IN
           /\ s.kind # "aug"
           /\ s.kind # "sink" => Value(s.expr) = IF HasSource(s.expr) THEN "raw" ELSE "clean"
           /\ s.kind = "sink" /\ (\E k \in DOMAIN s.args : HasSource(s.args[k])) => Reported(s.args)
<1>1. /\ prog \in Seq(Function) /\ fn \in Fns /\ i \in DOMAIN Stmts(fn) /\ env \in [Vars -> Levels]
      /\ \A v \in Vars : env[v] # "san"
  BY DEF TaintTypeOK, Followed
<1>2. PICK s : s = Stmts(fn)[i]
  OBVIOUS
<1>3. /\ s.kind # "aug" /\ prog[fn].guarded = {}
      /\ \A a \in Uses(s) : ~a.san /\ (a.kind = "source" => ~a.hidden)
  BY <1>1, <1>2 DEF AllPlain, Plain, Simple
<1>4. /\ s.kind # "sink" => s.expr \in Seq(Atom) /\ \A k \in DOMAIN s.expr : s.expr[k] \in Uses(s)
      /\ s.kind = "sink" => \A j \in DOMAIN s.args :
            s.args[j] \in Seq(Atom) /\ \A k \in DOMAIN s.args[j] : s.args[j][k] \in Uses(s)
  BY <1>1, <1>2, UsesForm
<1>5. s.kind # "sink" => Value(s.expr) = IF HasSource(s.expr) THEN "raw" ELSE "clean"
  BY <1>1, <1>3, <1>4, PlainValue
<1>6. ASSUME s.kind = "sink", NEW k \in DOMAIN s.args, HasSource(s.args[k]) PROVE Reported(s.args)
  <2>1. Value(s.args[k]) = "raw"
    BY <1>1, <1>3, <1>4, <1>6, PlainValue
  <2>2. ~InlineSanitized(s.args)
    <3>1. ASSUME NEW j \in DOMAIN s.args, Len(s.args[j]) = 1, s.args[j][1].san PROVE FALSE
      <4>1. s.args[j] \in Seq(Atom) /\ 1 \in DOMAIN s.args[j]
        BY <1>4, <1>6, <3>1
      <4> QED
        BY <1>3, <1>4, <1>6, <3>1, <4>1
    <3> QED
      BY <3>1 DEF InlineSanitized
  <2>3. ~Excused(s.args[k])
    BY <1>3 DEF Excused
  <2> QED
    BY <2>1, <2>2, <2>3 DEF Reported
<1> QED
  BY <1>2, <1>3, <1>5, <1>6

(* All the visits keep the order and what is behind.                       *)
LEMMA VisitStep ==
    ASSUME PlainInv, NEW i \in left, Summarise(i) \/ Assign(i) \/ AugAssign(i) \/ Sink(i) \/ Return(i)
    PROVE  Ordered' /\ Followed'
<1>1. TaintTypeOK /\ Ordered /\ Followed
  BY DEF PlainInv, TaintInv
<1>2. Visited(i) /\ phase # "done" /\ UNCHANGED <<prog, phase, sources, fn>>
  BY DEF Summarise, Assign, AugAssign, Sink, Return
<1>3. Stmts(fn)[i].kind \in {"assign", "aug", "return", "sink"}
  BY <1>1, StmtForm, <1>2 DEF TaintTypeOK
<1>4. Ordered'
  BY <1>1, <1>2, VisitOrdered
<1>5. PICK s : s = Stmts(fn)[i]
  OBVIOUS
<1>6. ASSUME AllPlain
      PROVE  /\ env' = IF s.kind = "assign" THEN [env EXCEPT ![s.to] = IF HasSource(s.expr) THEN "raw" ELSE "clean"]
                        ELSE env
             /\ returned => returned'
             /\ findings \subseteq findings'
             /\ phase = "summaries" /\ s.kind = "return" /\ HasSource(s.expr) => returned'
             /\ phase = "rule" /\ s.kind = "sink" /\ (\E k \in DOMAIN s.args : HasSource(s.args[k]))
                   => <<fn, i>> \in findings'
  <2>1. /\ s.kind # "aug"
        /\ s.kind # "sink" => Value(s.expr) = IF HasSource(s.expr) THEN "raw" ELSE "clean"
        /\ s.kind = "sink" /\ (\E k \in DOMAIN s.args : HasSource(s.args[k])) => Reported(s.args)
    BY <1>1, <1>2, <1>5, <1>6, PlainVisit
  <2>2. CASE Summarise(i)
    BY <1>3, <1>5, <2>1, <2>2 DEF Summarise
  <2>3. CASE Assign(i)
    BY <1>5, <2>1, <2>3 DEF Assign
  <2>4. CASE AugAssign(i)
    BY <1>5, <2>1, <2>4 DEF AugAssign
  <2>5. CASE Sink(i)
    BY <1>5, <2>1, <2>5 DEF Sink
  <2>6. CASE Return(i)
    BY <1>5, <2>1, <2>6 DEF Return
  <2> QED
    BY <2>2, <2>3, <2>4, <2>5, <2>6
<1>7. Followed'
  BY <1>1, <1>2, <1>5, <1>6, VisitFollowed
<1> QED
  BY <1>4, <1>7

(* When the last statement is behind, the table is right for the function. *)
LEMMA WalkLocal ==
    ASSUME TaintTypeOK, Followed, AllPlain, phase = "summaries", left = {},
           NEW T, \A a \in Fns : a # fn => (a \in T <=> a \in sources), fn \in T <=> returned, T \subseteq Fns,
           T = sources \/ CalleesFirst
    PROVE  HasLocal(fn, T)
<1>1. prog \in Seq(Function) /\ fn \in Fns /\ env \in [Vars -> Levels] /\ sources \subseteq Fns
  BY DEF TaintTypeOK
<1>2. PICK V : V = {v \in Vars : env[v] = "raw"}
  OBVIOUS
<1>3. ASSUME NEW i \in DOMAIN Stmts(fn), Stmts(fn)[i].kind # "sink",
             NEW a \in Atoms(Stmts(fn)[i].expr),
             a.kind = "source" \/ (a.kind = "var" /\ a.name \in V) \/ (a.kind = "call" /\ a.name \in T)
      PROVE  IF Stmts(fn)[i].kind = "return" THEN fn \in T ELSE Stmts(fn)[i].to \in V
  <2>1. PICK s : s = Stmts(fn)[i]
    OBVIOUS
  <2>2. PICK k \in DOMAIN s.expr : a = s.expr[k]
    BY <1>3, <2>1 DEF Atoms
  <2>3. a \in Uses(s) /\ a \in Atom
    BY <1>1, <1>3, <2>1, <2>2, UsesForm
  <2>4. ~a.san /\ s.kind # "aug" /\ (a.kind = "source" => ~a.hidden)
    BY <1>1, <2>1, <2>3 DEF AllPlain, Plain, Simple
  <2>5. a.kind = "call" => a.name \in sources
    <3>1. CASE T = sources
      BY <1>3, <3>1
    <3>2. CASE CalleesFirst
      <4>1. a.kind = "call" => a.name < fn
        BY <1>1, <2>1, <2>3, <3>2 DEF CalleesFirst
      <4>2. fn \in Nat
        BY <1>1 DEF Fns
      <4>3. a.kind = "call" => a.name # fn
        BY <4>1, <4>2
      <4> QED
        BY <1>3, <4>3
    <3> QED
      BY <3>1, <3>2
  <2>6. Level(a) # "clean"
    BY <1>1, <1>2, <1>3, <2>3, <2>4, <2>5, PlainLevel DEF Followed
  <2>7. HasSource(s.expr)
    BY <2>2, <2>6 DEF HasSource
  <2>8. Behind(i)
    BY DEF Followed
  <2>9. s.kind = "return" => returned
    BY <2>1, <2>7, <2>8 DEF Behind
  <2>10. s.kind = "assign" => env[s.to] = "raw" /\ s.to \in Vars
    BY <1>1, <2>1, <2>7, <2>8, StmtForm DEF Behind
  <2>11. s.kind \in {"assign", "return"}
    BY <1>1, <1>3, <2>1, <2>4, StmtForm
  <2> QED
    BY <1>2, <2>1, <2>9, <2>10, <2>11
<1>4. Local(fn, V, T)
  BY <1>3 DEF Local
<1>5. V \in SUBSET Vars
  BY <1>2
<1> QED
  BY <1>4, <1>5 DEF HasLocal

(* Summaries that count on each other have every function that may return  *)
(* a source.                                                               *)
LEMMA LocalsClose ==
    ASSUME prog \in Seq(Function), NEW T, \A g \in Fns : HasLocal(g, T)
    PROVE  MayReturn \subseteq T
<1>1. PICK W : W = [g \in Fns |-> CHOOSE V \in SUBSET Vars : Local(g, V, T)]
  OBVIOUS
<1>2. \A g \in Fns : W[g] \in SUBSET Vars /\ Local(g, W[g], T)
  BY <1>1 DEF HasLocal
<1>3. PICK S : S = {c \in Cells : (c[2] = Ret /\ c[1] \in T) \/ (c[1] \in Fns /\ c[2] \in W[c[1]])}
  OBVIOUS
<1>4. ASSUME NEW f \in Fns, NEW i \in DOMAIN Stmts(f), Stmts(f)[i].kind # "sink",
             NEW a \in Atoms(Stmts(f)[i].expr), Touched(f, a, S)
      PROVE  <<f, Stmts(f)[i].to>> \in S
  <2>1. a.kind = "var" => a.name \in Vars
    <3>1. Stmts(f)[i].expr \in Seq(Atom)
      BY <1>4, StmtForm
    <3>2. a \in Atom
      BY <3>1 DEF Atoms
    <3> QED
      BY <3>2 DEF Atom
  <2>2. \/ a.kind = "source"
        \/ a.kind = "var" /\ a.name \in W[f]
        \/ a.kind = "call" /\ a.name \in T
    <3>1. a.kind = "var" /\ <<f, a.name>> \in S => a.name \in W[f]
      BY <1>3, <2>1, RetAssumption
    <3>2. <<a.name, Ret>> \in S => a.name \in T
      BY <1>2, <1>3, RetAssumption
    <3> QED
      BY <1>4, <3>1, <3>2 DEF Touched
  <2>3. IF Stmts(f)[i].kind = "return" THEN f \in T ELSE Stmts(f)[i].to \in W[f]
    BY <1>2, <1>4, <2>2 DEF Local
  <2>4. <<f, Stmts(f)[i].to>> \in Cells
    BY <1>4 DEF Cells
  <2>5. Stmts(f)[i].kind = "return" => Stmts(f)[i].to = Ret
    BY StmtForm
  <2> QED
    BY <1>3, <2>3, <2>4, <2>5
<1>5. Closed(S)
  BY <1>4 DEF Closed
<1>6. S \in SUBSET Cells
  BY <1>3
<1>7. ASSUME NEW g \in MayReturn PROVE g \in T
  <2>1. <<g, Ret>> \in S /\ g \in Fns
    BY <1>5, <1>6 DEF MayReturn
  <2> QED
    BY <1>2, <1>3, <2>1, RetAssumption
<1> QED
  BY <1>7

LEMMA SourcesMayReturn ==
    ASSUME TaintInv
    PROVE  /\ sources \subseteq MayReturn
           /\ phase = "summaries" /\ returned => fn \in MayReturn
BY DEF TaintInv, MayReturn, SummariesHeld, TaintTypeOK

LEMMA Settled ==
    ASSUME TaintInv, \A g \in Fns : HasLocal(g, sources)
    PROVE  sources = MayReturn
BY LocalsClose, SourcesMayReturn DEF TaintInv, TaintTypeOK

(* A change of one summary, as far as another function's depends on it.    *)
LEMMA LocalKept ==
    ASSUME prog \in Seq(Function), NEW g \in Fns, NEW T, NEW U, HasLocal(g, T), g \in T => g \in U,
           U \subseteq T \/ \A i \in DOMAIN Stmts(g) : \A a \in Uses(Stmts(g)[i]) :
                               a.kind = "call" /\ a.name \in U => a.name \in T
    PROVE  HasLocal(g, U)
<1>1. PICK V \in SUBSET Vars : Local(g, V, T)
  BY DEF HasLocal
<1>2. ASSUME NEW i \in DOMAIN Stmts(g), Stmts(g)[i].kind # "sink", NEW a \in Atoms(Stmts(g)[i].expr),
             a.kind = "call", a.name \in U
      PROVE  a.name \in T
  <2>1. a \in Uses(Stmts(g)[i])
    BY <1>2 DEF Uses
  <2> QED
    BY <1>2, <2>1
<1>3. Local(g, V, U)
  BY <1>1, <1>2 DEF Local
<1> QED
  BY <1>3 DEF HasLocal

(* The summaries when the function's own is complete.                      *)
Concluded(T) == T = IF returned THEN sources \cup {fn} ELSE sources \ {fn}

(* The last statement of a function is behind in the first phase.          *)
LEMMA SummaryLocal ==
    ASSUME PlainInv, AllPlain, phase = "summaries", left = {},
           NEW T, Concluded(T), CalleesFirst \/ (~changed /\ T = sources)
    PROVE  /\ \A g \in Fns : (g < fn \/ g = fn \/ (CalleesFirst /\ pass > 1)) => HasLocal(g, T)
           /\ CalleesFirst /\ pass > 1 => ~changed /\ T = sources
<1>1. TaintTypeOK /\ Followed /\ prog \in Seq(Function) /\ fn \in Fns /\ sources \subseteq Fns /\ Fns \subseteq Nat
  BY DEF PlainInv, TaintInv, TaintTypeOK, Fns
<1> USE DEF Concluded
<1>2. HasLocal(fn, T)
  BY <1>1, WalkLocal
<1>3. CASE T = sources /\ ~changed
  BY <1>2, <1>3 DEF PlainInv, Settling
<1>4. ASSUME CalleesFirst, NEW g \in Fns, g < fn PROVE HasLocal(g, T)
  <2>1. HasLocal(g, sources)
    BY <1>4 DEF PlainInv, Settling
  <2>2. g \in sources => g \in T
    BY <1>1, <1>4
  <2>3. ASSUME NEW i \in DOMAIN Stmts(g), NEW a \in Uses(Stmts(g)[i]), a.kind = "call", a.name \in T
        PROVE  a.name \in sources
    <3>1. a.name < g
      BY <1>4, <2>3 DEF CalleesFirst
    <3>2. a.name \in Nat /\ g \in Nat /\ fn \in Nat
      BY <1>1, <2>3
    <3>3. a.name # fn
      BY <1>4, <3>1, <3>2
    <3> QED
      BY <2>3, <3>3
  <2> QED
    BY <1>1, <2>1, <2>2, <2>3, LocalKept
<1>5. ASSUME CalleesFirst, pass > 1
      PROVE  (\A g \in Fns : HasLocal(g, T)) /\ ~changed /\ T = sources
  <2>1. \A g \in Fns : HasLocal(g, sources)
    BY <1>5 DEF PlainInv, Settling
  <2>2. sources = MayReturn
    BY <2>1, Settled DEF PlainInv
  <2>3. ASSUME NEW g \in Fns PROVE HasLocal(g, T)
    <3>1. CASE returned
      BY <2>1, <2>2, <3>1, SourcesMayReturn DEF PlainInv
    <3>2. CASE ~returned /\ g # fn
      <4>1. T \subseteq sources /\ (g \in sources => g \in T)
        BY <3>2
      <4> QED
        BY <1>1, <2>1, <4>1, LocalKept
    <3> QED
      BY <1>2, <3>1, <3>2
  <2>4. MayReturn \subseteq T
    BY <1>1, <2>3, LocalsClose
  <2>5. T = sources
    BY <2>2, <2>4, SourcesMayReturn DEF PlainInv
  <2> QED
    BY <1>5, <2>3, <2>5 DEF PlainInv, SettledEarly
<1> QED
  BY <1>2, <1>3, <1>4, <1>5

(* A walk begins.                                                          *)
LEMMA WalkBegins ==
    ASSUME TaintTypeOK, prog' = prog, NEW f \in Fns,
           Walk(f, "summaries", Clean) \/ Walk(f, "rule", Untrusted(f))
    PROVE  Ordered' /\ Followed'
<1>1. /\ fn' = f /\ left' = DOMAIN Stmts(f) /\ prog[f].untrusted \subseteq Vars /\ Stmts(fn)' = Stmts(f)
      /\ phase' = "rule" => env' = Untrusted(f)
      /\ env' \in {Clean, Untrusted(f)}
  BY UntrustedForm DEF Walk, Stmts, TaintTypeOK
<1>2. \A v \in Vars : env'[v] # "san"
  BY <1>1 DEF Clean, Untrusted
<1>3. phase' = "rule" => \A v \in prog[f].untrusted : env'[v] = "raw"
  BY <1>1 DEF Untrusted
<1>4. DOMAIN Stmts(fn)' \ left' = {}
  BY <1>1
<1> QED
  BY <1>1, <1>2, <1>3, <1>4 DEF Ordered, Followed

LEMMA SummarisedPlain ==
    ASSUME PlainInv, Summarised
    PROVE  Ordered' /\ Followed' /\ Settling' /\ SettledEarly' /\ Found'
<1>1. /\ TaintTypeOK /\ prog' = prog /\ phase = "summaries" /\ left = {} /\ findings' = findings
      /\ fn \in Fns /\ Fns = 1..Len(prog) /\ Len(prog) \in Nat /\ pass \in Nat /\ pass >= 1
      /\ changed \in BOOLEAN
  <2>1. TaintTypeOK
    BY DEF PlainInv, TaintInv
  <2> QED
    BY <2>1, PassesAssumption DEF Summarised, TaintTypeOK, Fns
<1>2. PICK T : T = IF returned THEN sources \cup {fn} ELSE sources \ {fn}
  OBVIOUS
<1>3. PICK ch \in BOOLEAN : ch = (changed \/ T # sources)
  BY <1>1
<1>4. /\ sources' = T
      /\ \/ fn # Len(prog) /\ Walk(fn + 1, "summaries", Clean) /\ changed' = ch /\ pass' = pass
         \/ fn = Len(prog) /\ More(ch) /\ Walk(1, "summaries", Clean) /\ pass' = pass + 1 /\ changed' = FALSE
         \/ fn = Len(prog) /\ ~More(ch) /\ Walk(1, "rule", Untrusted(1)) /\ changed' = ch /\ pass' = pass
  BY <1>2, <1>3 DEF Summarised
<1>5. fn' \in Fns /\ (Walk(fn', "summaries", Clean) \/ Walk(fn', "rule", Untrusted(fn')))
  BY <1>1, <1>4 DEF Walk
<1>6. Ordered' /\ Followed'
  BY <1>1, <1>4, WalkBegins
<1>7. ASSUME AllPlain, CalleesFirst \/ ~ch
      PROVE  /\ \A g \in Fns : (g < fn \/ g = fn \/ (CalleesFirst /\ pass > 1)) => HasLocal(g, T)
             /\ CalleesFirst /\ pass > 1 => ~ch
  <2>1. CalleesFirst \/ (~changed /\ T = sources)
    BY <1>3, <1>7
  <2>2. /\ \A g \in Fns : (g < fn \/ g = fn \/ (CalleesFirst /\ pass > 1)) => HasLocal(g, T)
        /\ CalleesFirst /\ pass > 1 => ~changed /\ T = sources
    <3>1. AllPlain /\ phase = "summaries" /\ left = {}
      BY <1>1, <1>7
    <3>2. Concluded(T)
      BY <1>2 DEF Concluded
    <3> QED
      BY <2>1, <3>1, <3>2, SummaryLocal
  <2>3. CalleesFirst /\ pass > 1 => ~ch
    BY <1>3, <2>2
  <2> QED
    BY <2>2, <2>3
<1>8. SettledEarly'
  <2>1. ASSUME AllPlain, CalleesFirst, phase' # "summaries" \/ pass' > 1 PROVE ~changed'
    <3>1. pass = 1 /\ phase' # "summaries" => ~ch
      BY <1>1, <1>4, PassesAssumption DEF More, Walk
    <3>2. pass > 1 => ~ch
      BY <1>7, <2>1
    <3> QED
      BY <1>1, <1>4, <2>1, <3>1, <3>2
  <2> QED
    BY <1>1, <2>1, PlainFixed DEF SettledEarly
<1>9. Settling'
  <2>1. ASSUME AllPlain, CalleesFirst \/ ~changed', NEW g \in Fns,
               phase' # "summaries" \/ g < fn' \/ (CalleesFirst /\ pass' > 1)
        PROVE  HasLocal(g, T)
    <3>1. CASE fn # Len(prog) /\ Walk(fn + 1, "summaries", Clean) /\ changed' = ch /\ pass' = pass
      <4>1. g < fn \/ g = fn \/ (CalleesFirst /\ pass > 1)
        BY <1>1, <2>1, <3>1 DEF Walk
      <4> QED
        BY <1>7, <2>1, <3>1, <4>1
    <3>2. CASE fn = Len(prog) /\ Walk(1, "summaries", Clean) /\ changed' = FALSE
      <4>1. CalleesFirst /\ (g < fn \/ g = fn)
        BY <1>1, <2>1, <3>2 DEF Walk
      <4> QED
        BY <1>7, <2>1, <4>1
    <3>3. CASE fn = Len(prog) /\ changed' = ch
      <4>1. g < fn \/ g = fn
        BY <1>1, <3>3
      <4> QED
        BY <1>7, <2>1, <3>3, <4>1
    <3> QED
      BY <1>4, <3>1, <3>2, <3>3
  <2>2. Fns' = Fns
    BY <1>1 DEF Fns
  <2> QED
    BY <1>1, <1>4, <2>1, <2>2, PlainFixed DEF Settling
<1>10. Found'
  BY <1>1, <1>4 DEF Found, Walk, Fns
<1> QED
  BY <1>6, <1>8, <1>9, <1>10

(* Nothing but what the rule's walk found leads to the function's sinks.   *)
LEMMA RuleExact ==
    ASSUME PlainInv, AllPlain, ~changed, phase = "rule", left = {}
    PROVE  {fn} \X FlowsTo(fn) \subseteq findings
<1>1. /\ Followed /\ prog \in Seq(Function) /\ fn \in Fns /\ env \in [Vars -> Levels]
      /\ \A v \in Vars : env[v] # "san"
      /\ \A i \in DOMAIN Stmts(fn) : Behind(i)
  BY DEF PlainInv, TaintInv, TaintTypeOK, Followed
<1>2. sources = MayReturn
  BY Settled DEF PlainInv, Settling
<1>3. PICK R : R = {v \in Vars : env[v] = "raw"}
  OBVIOUS
<1>4. ASSUME NEW a \in Atom, TouchedRaw(a, R), a.kind = "source" => ~a.hidden
      PROVE  Level(a) # "clean"
  <2>1. \/ a.kind = "source"
        \/ a.kind = "var" /\ env[a.name] = "raw"
        \/ a.kind = "call" /\ a.name \in sources
    BY <1>2, <1>3, <1>4 DEF TouchedRaw
  <2>2. ~a.san
    BY <1>4 DEF TouchedRaw
  <2> QED
    BY <1>1, <1>4, <2>1, <2>2, PlainLevel
<1>5. ClosedRaw(fn, R)
  <2>1. prog[fn].untrusted \subseteq R
    BY <1>1, <1>3, UntrustedForm DEF Followed
  <2>2. ASSUME NEW i \in DOMAIN Stmts(fn), Stmts(fn)[i].kind \in {"assign", "aug"},
               NEW a \in Atoms(Stmts(fn)[i].expr), TouchedRaw(a, R)
        PROVE  Stmts(fn)[i].to \in R
    <3>1. PICK s : s = Stmts(fn)[i]
      OBVIOUS
    <3>2. s.kind = "assign"
      BY <1>1, <2>2, <3>1 DEF AllPlain, Plain, Simple
    <3>3. PICK k \in DOMAIN s.expr : a = s.expr[k]
      BY <2>2, <3>1 DEF Atoms
    <3>4. s.expr \in Seq(Atom) /\ s.to \in Vars
      BY <1>1, <3>1, <3>2, StmtForm
    <3>5. HasSource(s.expr)
      <4>1. a \in Atom /\ a \in Uses(s)
        BY <1>1, <3>1, <3>2, <3>3, <3>4, UsesForm
      <4>2. a.kind = "source" => ~a.hidden
        BY <1>1, <3>1, <4>1 DEF AllPlain, Plain
      <4> QED
        BY <1>4, <2>2, <3>3, <4>1, <4>2 DEF HasSource
    <3>6. env[s.to] = "raw"
      BY <1>1, <3>1, <3>2, <3>5 DEF Behind
    <3> QED
      BY <1>3, <3>1, <3>4, <3>6
  <2> QED
    BY <2>1, <2>2 DEF ClosedRaw
<1>6. R \in SUBSET Vars
  BY <1>3
<1>7. MayBeRaw(fn) \subseteq R
  BY <1>5, <1>6 DEF MayBeRaw
<1>8. ASSUME NEW i \in FlowsTo(fn) PROVE <<fn, i>> \in findings
  <2>1. i \in DOMAIN Stmts(fn)
    BY <1>8 DEF FlowsTo
  <2>2. PICK s : s = Stmts(fn)[i]
    OBVIOUS
  <2>3. s.kind = "sink" /\ \E j \in DOMAIN s.args : \E a \in Atoms(s.args[j]) : TouchedRaw(a, MayBeRaw(fn))
    BY <1>8, <2>2 DEF FlowsTo
  <2>4. PICK j \in DOMAIN s.args : \E a \in Atoms(s.args[j]) : TouchedRaw(a, MayBeRaw(fn))
    BY <2>3
  <2>5. PICK k \in DOMAIN s.args[j] : TouchedRaw(s.args[j][k], MayBeRaw(fn))
    BY <2>4 DEF Atoms
  <2>6. s.args[j] \in Seq(Atom)
    <3>1. s.args \in Seq(Seq(Atom))
      BY <1>1, <2>1, <2>2, <2>3, StmtForm
    <3> QED
      BY <3>1
  <2>7. s.args[j][k] \in Atom
    BY <2>6
  <2>8. TouchedRaw(s.args[j][k], R)
    BY <1>7, <2>5 DEF TouchedRaw
  <2>9. HasSource(s.args[j])
    <3>1. s.args[j][k] \in Uses(s)
      BY <1>1, <2>1, <2>2, <2>3, UsesForm
    <3>2. s.args[j][k].kind = "source" => ~s.args[j][k].hidden
      BY <1>1, <2>1, <2>2, <3>1 DEF AllPlain, Plain
    <3> QED
      BY <1>4, <2>7, <2>8, <3>2 DEF HasSource
  <2> QED
    BY <1>1, <2>1, <2>2, <2>3, <2>9 DEF Behind
<1> QED
  BY <1>8

LEMMA WalkedPlain ==
    ASSUME PlainInv, Walked
    PROVE  Ordered' /\ Followed' /\ Settling' /\ SettledEarly' /\ Found'
<1>1. /\ TaintTypeOK /\ prog' = prog /\ phase = "rule" /\ left = {} /\ findings' = findings
      /\ fn \in Fns /\ Fns = 1..Len(prog) /\ Len(prog) \in Nat
      /\ pass' = pass /\ changed' = changed /\ sources' = sources /\ Fns' = Fns
  BY DEF PlainInv, TaintInv, Walked, TaintTypeOK, Fns
<1>2. \/ fn < Len(prog) /\ Walk(fn + 1, "rule", Untrusted(fn + 1))
      \/ fn = Len(prog) /\ phase' = "done"
  BY <1>1 DEF Walked
<1>3. Ordered' /\ Followed'
  <2>1. CASE fn < Len(prog) /\ Walk(fn + 1, "rule", Untrusted(fn + 1))
    <3>1. fn + 1 \in Fns
      BY <1>1, <2>1
    <3> QED
      BY <1>1, <2>1, <3>1, WalkBegins
  <2>2. CASE phase' = "done"
    BY <2>2 DEF Ordered, Followed
  <2> QED
    BY <1>2, <2>1, <2>2
<1>4. phase' # "summaries"
  BY <1>2 DEF Walk
<1>5. Settling'
  BY <1>1, <1>4, PlainFixed DEF PlainInv, Settling
<1>6. SettledEarly'
  BY <1>1, <1>4, PlainFixed DEF PlainInv, SettledEarly
<1>7. ASSUME AllPlain, ~changed, NEW g \in Fns, phase' = "done" \/ g < fn'
      PROVE  {g} \X FlowsTo(g) \subseteq findings
  <2>1. g < fn \/ g = fn
    BY <1>1, <1>2, <1>7 DEF Walk
  <2> QED
    BY <1>1, <1>7, <2>1, RuleExact DEF PlainInv, Found
<1>8. Found'
  BY <1>1, <1>7, PlainFixed, FlowsFixed DEF Found
<1> QED
  BY <1>3, <1>5, <1>6, <1>8

LEMMA PlainInit == TaintInit => PlainInv
<1> SUFFICES ASSUME TaintInit PROVE PlainInv
  OBVIOUS
<1>1. TaintInv
  BY TaintInitInv
<1>2. Fns \subseteq Nat /\ fn = 1 /\ phase = "summaries" /\ pass = 1 /\ findings = {} /\ \A g \in Fns : ~(g < fn)
  BY <1>1 DEF TaintInit, Fns, TaintInv, TaintTypeOK
<1>3. left = DOMAIN Stmts(fn) /\ env = Clean
  BY DEF TaintInit
<1>4. Ordered /\ Followed
  BY <1>2, <1>3 DEF Ordered, Followed, Clean
<1>5. Settling /\ SettledEarly /\ Found
  BY <1>2 DEF Settling, SettledEarly, Found
<1> QED
  BY <1>1, <1>2, <1>4, <1>5 DEF PlainInv

LEMMA PlainStep == PlainInv /\ [TaintNext]_taintVars => PlainInv'
<1> SUFFICES ASSUME PlainInv, [TaintNext]_taintVars PROVE PlainInv'
  OBVIOUS
<1>1. TaintInv'
  BY TaintStepInv DEF PlainInv
<1>2. CASE Summarised
  BY <1>1, <1>2, SummarisedPlain DEF PlainInv, Summarised
<1>3. CASE Walked
  BY <1>1, <1>3, WalkedPlain DEF PlainInv, Walked
<1>4. ASSUME NEW i \in left, Summarise(i) \/ Assign(i) \/ AugAssign(i) \/ Sink(i) \/ Return(i)
      PROVE  PlainInv'
  <2>1. Ordered' /\ Followed'
    BY <1>4, VisitStep
  <2>2. /\ prog' = prog /\ phase' = phase /\ pass' = pass /\ changed' = changed
        /\ sources' = sources /\ fn' = fn /\ findings' \in {findings, findings \cup {<<fn, i>>}}
    BY <1>4 DEF Summarise, Assign, AugAssign, Sink, Return
  <2>3. \A x \in findings' : x = <<x[1], x[2]>>
    BY <2>2 DEF PlainInv
  <2>4. Fns' = Fns
    BY <2>2 DEF Fns
  <2>5. Settling' /\ SettledEarly'
    BY <2>2, <2>4, PlainFixed DEF PlainInv, Settling, SettledEarly
  <2>6. Found'
    BY <2>2, <2>4, PlainFixed, FlowsFixed DEF PlainInv, Found
  <2> QED
    BY <1>1, <2>1, <2>3, <2>5, <2>6 DEF PlainInv
<1>5. CASE UNCHANGED taintVars
  <2>1. /\ prog' = prog /\ phase' = phase /\ pass' = pass /\ changed' = changed /\ env' = env
        /\ sources' = sources /\ fn' = fn /\ findings' = findings /\ left' = left /\ returned' = returned
    BY <1>5 DEF taintVars
  <2>2. Fns' = Fns
    BY <2>1 DEF Fns
  <2>3. Ordered'
    BY <2>1 DEF PlainInv, Ordered, Sooner, Stmts, Depth
  <2>4. \A k : Behind(k)' <=> Behind(k)
    BY <2>1 DEF Behind, HasSource, Level, Stmts
  <2>5. Followed'
    BY <2>1, <2>4, PlainFixed DEF PlainInv, Followed, Stmts
  <2>6. Settling' /\ SettledEarly' /\ Found'
    BY <2>1, <2>2, PlainFixed, FlowsFixed DEF PlainInv, Settling, SettledEarly, Found
  <2> QED
    BY <1>1, <2>1, <2>3, <2>5, <2>6 DEF PlainInv
<1> QED
  BY <1>2, <1>3, <1>4, <1>5 DEF TaintNext

LEMMA PlainInvariance == TaintSpec => []PlainInv
BY PlainInit, PlainStep, PTL DEF TaintSpec

(* In a file of plain functions that are defined before those that call    *)
(* them the second pass changes nothing and the summaries are right, for   *)
(* any chain of calls and any number of passes above one                   *)
(* (_build_function_taint_summaries).                                      *)
THEOREM SettledWhenCalleesFirstHolds == TaintSpec => []SettledWhenCalleesFirst
<1>1. PlainInv => SettledWhenCalleesFirst
  BY Settled DEF PlainInv, Settling, SettledEarly, SettledWhenCalleesFirst, AllPlain
<1> QED
  BY <1>1, PlainInvariance, PTL

(* In a file of plain functions the rule reports just the sinks that       *)
(* something untrusted may reach, when the summaries were settled.         *)
THEOREM ExactWhenPlainHolds == TaintSpec => []ExactWhenPlain
<1>1. ASSUME PlainInv, phase = "done", ~changed, AllPlain
      PROVE  findings = UNION {{f} \X FlowsTo(f) : f \in Fns}
  <2>1. ASSUME NEW x \in findings PROVE \E f \in Fns : x \in {f} \X FlowsTo(f)
    <3>1. x = <<x[1], x[2]>> /\ x[1] \in Fns /\ x[2] \in FlowsTo(x[1])
      BY <1>1 DEF PlainInv, TaintInv, TaintTypeOK, FindingsHaveFlow
    <3> QED
      BY <3>1
  <2>2. \A f \in Fns : {f} \X FlowsTo(f) \subseteq findings
    BY <1>1 DEF PlainInv, Found
  <2> QED
    BY <2>1, <2>2
<1>2. PlainInv => ExactWhenPlain
  BY <1>1 DEF ExactWhenPlain, AllPlain
<1> QED
  BY <1>2, PlainInvariance, PTL
=============================================================================
