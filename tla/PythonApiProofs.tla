-------------------------- MODULE PythonApiProofs ---------------------------
(***************************************************************************)
(* No call of the Python API loses a built-in entry (Builtins), and calls  *)
(* that do not overlap see and leave just the tables they should (Alone):  *)
(* at any time at most one of them has added something, and what it has    *)
(* kept undoes it.                                                         *)
(***************************************************************************)
EXTENDS PythonApi, SequenceTheorems, TLAPS

Rows == CweSets \cup {None}

(* Where a call is, and what it has read and kept so far.                  *)
TypedCall(s) ==
    /\ at[s] \in 1..(Len(config[s]) + 1)
    /\ got[s] # <<>> =>
          /\ pc[s] = "adding" /\ at[s] \in DOMAIN config[s] /\ got[s] = <<got[s][1]>>
          /\ got[s][1] \in IF Current(s).kind = "taint" THEN Specs \cup {None} ELSE Rows
    /\ pc[s] \in {"late", "classic"} => s \in JavaScript
    /\ pc[s] \in {"scanning", "late", "classic", "leaving"} /\ ~Bare(config[s]) => at[s] = Len(config[s]) + 1
    /\ pc[s] \in {"adding", "leaving"} => ~Bare(config[s])
    /\ pc[s] = "idle" => at[s] = 1
    /\ pc[s] # "leaving" => undo[s] = {}
    /\ undo[s] \subseteq Kept(s)

Tables ==
    /\ taint \in [Names -> Specs \cup {None}]
    /\ sanitizers \in [Functions -> Rows]
    /\ previous \in [Scans -> [Names -> Specs \cup {None}]]
    /\ injected \in [Scans -> [Functions -> Rows \cup {Whole}]]

Typed ==
    /\ Tables
    /\ config \in Given
    /\ pc \in [Scans -> {"idle"} \cup Adding \cup Ended]
    /\ at = [s \in Scans |-> at[s]]
    /\ got = [s \in Scans |-> got[s]]
    /\ undo = [s \in Scans |-> undo[s]]
    /\ overlapped \in BOOLEAN
    /\ \A s \in Scans : TypedCall(s)

(* The entries of s before the one it adds next.                           *)
TaintAdded(s, n) == {i \in DOMAIN config[s] : i < at[s] /\ config[s][i].kind = "taint" /\ config[s][i].name = n}
FnAdded(s, f) == {i \in DOMAIN config[s] : i < at[s] /\ config[s][i].kind # "taint" /\ config[s][i].name = f}

(* What a call has read and kept of a built-in entry is an entry.          *)
BuiltinsCall(s) ==
    /\ got[s] # <<>> =>
          /\ Current(s).kind = "taint" /\ Builtin[Current(s).name] # None => got[s][1] # None
          /\ Current(s).kind # "taint" /\ Sanitized[Current(s).name] # None => got[s][1] # None
    /\ \A n \in Names : Builtin[n] # None /\ TaintAdded(s, n) # {} => previous[s][n] # None
    /\ \A f \in Functions : Sanitized[f] # None => injected[s][f] # Whole

Builtins == BuiltinsKept /\ \A s \in Scans : BuiltinsCall(s)

(* The calls that have something in the tables.                            *)
Active(s) == pc[s] \in Adding /\ ~Bare(config[s])

AllPlain == \A s \in Scans : PlainSanitizers(config[s])

(* A name that a call already made names twice.                            *)
Spoilt(n) == \E t \in Scans : pc[t] # "idle" /\ Twice(config[t], n)

GotNow(s) ==
    got[s] # <<>> =>
        got[s][1] = IF Current(s).kind = "taint" THEN taint[Current(s).name] ELSE sanitizers[Current(s).name]

TaintOf(s) ==
    \A n \in Names : ~Spoilt(n) =>
        IF TaintAdded(s, n) = {} \/ (pc[s] = "leaving" /\ n \notin undo[s])
          THEN taint[n] = Builtin[n]
          ELSE /\ previous[s][n] = Builtin[n]
               /\ pc[s] # "leaving" => \A i \in TaintAdded(s, n) : taint[n] = config[s][i].value

Shrunk(f) ==
    /\ sanitizers[f] = None <=> Sanitized[f] = None
    /\ sanitizers[f] # None => sanitizers[f] \subseteq Sanitized[f]

Out(s, f) == injected[s][f] = None \/ (pc[s] = "leaving" /\ f \notin undo[s])

SanitizersAfter(s) ==
    \A f \in Functions :
        /\ Out(s, f) => Shrunk(f)
        /\ ~Out(s, f) /\ injected[s][f] = Whole => Sanitized[f] = None /\ sanitizers[f] # None
        /\ ~Out(s, f) /\ injected[s][f] # Whole =>
              /\ Sanitized[f] # None /\ sanitizers[f] # None
              /\ sanitizers[f] \subseteq Sanitized[f] \cup injected[s][f]

SanitizersExactly(s) ==
    \A f \in Functions :
        /\ injected[s][f] = None <=> FnAdded(s, f) = {}
        /\ Out(s, f) => sanitizers[f] = Sanitized[f]
        /\ ~Out(s, f) => \A i \in FnAdded(s, f) :
              IF Sanitized[f] = None
                THEN injected[s][f] = Whole /\ sanitizers[f] = config[s][i].value
                ELSE injected[s][f] = config[s][i].value /\ sanitizers[f] = Sanitized[f] \cup config[s][i].value

(* What holds of the tables while the one call that has something in them  *)
(* is s, and while there is none.                                          *)
Own(s) ==
    /\ GotNow(s) /\ TaintOf(s) /\ SanitizersAfter(s)
    /\ AllPlain => SanitizersExactly(s)

Clear ==
    /\ \A n \in Names : taint[n] = Builtin[n] \/ Spoilt(n)
    /\ \A f \in Functions : Shrunk(f)
    /\ AllPlain => sanitizers = Sanitized

Alone ==
    /\ \A s, t \in Scans : Active(s) /\ Active(t) => s = t
    /\ \A s \in Scans : pc[s] = "idle" => \A f \in Functions : injected[s][f] = None
    /\ \A s \in Scans : Active(s) => Own(s)
    /\ (\A s \in Scans : ~Active(s)) => Clear

IInv ==
    /\ Typed
    /\ Builtins
    /\ Quiet => Alone
    /\ AllPlain /\ ~overlapped => Quiet

-----------------------------------------------------------------------------
(* What a configuration is.                                                *)
LEMMA Configs ==
    ASSUME Typed, NEW s \in Scans
    PROVE  /\ config[s] \in Seq(Entry) /\ Len(config[s]) \in Nat
           /\ DOMAIN config[s] = 1..Len(config[s])
           /\ \A i \in DOMAIN config[s] :
                 /\ config[s][i].kind \in {"taint", "file", "own"}
                 /\ config[s][i].kind = "taint" => config[s][i].name \in Names /\ config[s][i].value \in Specs
                 /\ config[s][i].kind # "taint" => config[s][i].name \in Functions /\ config[s][i].value \in CweSets
           /\ \A i, j \in DOMAIN config[s] :
                 config[s][i].kind = "taint" /\ config[s][j].kind = "taint" /\ config[s][i].name = config[s][j].name
                    => i = j \/ Twice(config[s], config[s][i].name)
<1>1. config[s] \in Seq(Entry)
  BY GivenAssumption DEF Typed
<1>2. Len(config[s]) \in Nat /\ DOMAIN config[s] = 1..Len(config[s])
  BY <1>1
<1>3. ASSUME NEW i \in DOMAIN config[s] PROVE config[s][i] \in Entry
  BY <1>1, <1>2
<1>4. ASSUME NEW e \in Entry
      PROVE  /\ e.kind \in {"taint", "file", "own"}
             /\ e.kind = "taint" => e.name \in Names /\ e.value \in Specs
             /\ e.kind # "taint" => e.name \in Functions /\ e.value \in CweSets
  BY DEF Entry
<1>5. ASSUME NEW i \in DOMAIN config[s], NEW j \in DOMAIN config[s], i # j,
             config[s][i].kind = "taint" /\ config[s][j].kind = "taint" /\ config[s][i].name = config[s][j].name
      PROVE  Twice(config[s], config[s][i].name)
  BY <1>5 DEF Twice
<1> QED
  BY <1>1, <1>2, <1>3, <1>4, <1>5

(* A call that is in its preparations has something to add.                *)
LEMMA NotBare ==
    ASSUME Typed, NEW s \in Scans, pc[s] = "adding"
    PROVE  ~Bare(config[s]) /\ Active(s)
BY DEF Typed, TypedCall, Active, Adding

(* The entry that is being added.                                          *)
LEMMA CurrentEntry ==
    ASSUME Typed, NEW s \in Scans, got[s] # <<>>
    PROVE  /\ pc[s] = "adding" /\ at[s] \in DOMAIN config[s]
           /\ Current(s).kind \in {"taint", "file", "own"}
           /\ Current(s).kind = "taint" => /\ Current(s).name \in Names /\ Current(s).value \in Specs
                                           /\ got[s][1] \in Specs \cup {None}
           /\ Current(s).kind # "taint" => /\ Current(s).name \in Functions /\ Current(s).value \in CweSets
                                           /\ got[s][1] \in Rows
<1>1. at[s] \in DOMAIN config[s] /\ pc[s] = "adding"
  BY DEF Typed, TypedCall
<1> QED
  BY <1>1, Configs DEF Current, Typed, TypedCall

LEMMA TypesHold ==
    ASSUME Typed
    PROVE  TypeOK
<1>1. \A s \in Scans : Kept(s) \subseteq Names \cup Functions
  BY DEF Kept
<1> QED
  BY <1>1 DEF Typed, TypedCall, Tables, TypeOK, Rows

LEMMA InitInv == Init => IInv
<1> SUFFICES ASSUME Init PROVE IInv
  OBVIOUS
<1>1. Typed
  <2>1. config \in Given
    BY DEF Init
  <2>2. ASSUME NEW s \in Scans PROVE config[s] \in Seq(Entry) /\ Len(config[s]) \in Nat
    BY <2>1, GivenAssumption
  <2>3. Tables
    BY TablesAssumption DEF Init, Tables, Rows
  <2>4. pc \in [Scans -> {"idle"} \cup Adding \cup Ended] /\ overlapped \in BOOLEAN
    BY DEF Init
  <2>5. ASSUME NEW s \in Scans
        PROVE  at[s] = 1 /\ got[s] = <<>> /\ pc[s] = "idle" /\ undo[s] = {}
    BY DEF Init
  <2>6. at = [s \in Scans |-> at[s]] /\ got = [s \in Scans |-> got[s]] /\ undo = [s \in Scans |-> undo[s]]
    BY DEF Init
  <2> QED
    BY <2>1, <2>2, <2>3, <2>4, <2>5, <2>6 DEF Typed, TypedCall
<1>2. Builtins
  <2>1. \A s \in Scans : \A n : TaintAdded(s, n) = {}
    BY <1>1, Configs DEF TaintAdded, Init
  <2> QED
    BY <2>1, TablesAssumption DEF Builtins, BuiltinsCall, BuiltinsKept, Init
<1>3. Alone
  <2>1. \A s \in Scans : ~Active(s)
    BY DEF Init, Active, Adding
  <2>2. Clear
    BY <1>1, TablesAssumption DEF Init, Clear, Shrunk
  <2> QED
    BY <2>1, <2>2 DEF Init, Alone
<1>4. Quiet
  BY DEF Init, Quiet
<1> QED
  BY <1>1, <1>2, <1>3, <1>4 DEF IInv

-----------------------------------------------------------------------------
(* Types.  A step of a call changes no field of another.                   *)
Others(s) ==
    \A t \in Scans : t # s =>
        /\ pc'[t] = pc[t] /\ at'[t] = at[t] /\ got'[t] = got[t]
        /\ undo'[t] = undo[t] /\ injected'[t] = injected[t] /\ previous'[t] = previous[t]

LEMMA OthersTyped ==
    ASSUME Typed, NEW s \in Scans, Others(s), config' = config, Tables', TypedCall(s)',
           pc' \in [Scans -> {"idle"} \cup Adding \cup Ended],
           at' = [t \in Scans |-> at'[t]], got' = [t \in Scans |-> got'[t]],
           undo' = [t \in Scans |-> undo'[t]], overlapped' \in BOOLEAN
    PROVE  Typed'
<1>1. ASSUME NEW t \in Scans, t # s PROVE TypedCall(t)'
  <2>1. Kept(t)' = Kept(t) /\ Current(t)' = Current(t)
    BY <1>1 DEF Others, Kept, Current
  <2> QED
    BY <1>1, <2>1 DEF Others, Typed, TypedCall, Bare
<1> QED
  BY <1>1 DEF Typed

(* A step that moves the call alone.                                       *)
LEMMA MoveTyped ==
    ASSUME Typed, NEW s \in Scans, NEW p \in {"idle"} \cup Adding \cup Ended, p # "idle",
           pc' = [pc EXCEPT ![s] = p], got[s] = <<>>,
           p \in {"late", "classic"} => s \in JavaScript,
           p \in {"adding", "leaving"} => ~Bare(config[s]),
           p \in {"scanning", "late", "classic", "leaving"} /\ ~Bare(config[s]) => at[s] = Len(config[s]) + 1,
           undo'[s] = {} \/ (p = "leaving" /\ undo'[s] = Kept(s)),
           undo' = [t \in Scans |-> IF t = s THEN undo'[s] ELSE undo[t]],
           overlapped' \in BOOLEAN,
           UNCHANGED <<taint, sanitizers, config, at, got, previous, injected>>
    PROVE  Typed'
<1>1. /\ pc' \in [Scans -> {"idle"} \cup Adding \cup Ended] /\ pc'[s] = p
      /\ \A t \in Scans : t # s => pc'[t] = pc[t]
  BY DEF Typed
<1>2. Others(s)
  BY <1>1 DEF Others
<1>3. Kept(s)' = Kept(s) /\ Current(s)' = Current(s)
  BY DEF Kept, Current
<1>4. TypedCall(s)'
  BY <1>1, <1>3 DEF Typed, TypedCall, Bare
<1>5. Tables'
  BY DEF Typed, Tables
<1>6. /\ at' = [t \in Scans |-> at'[t]] /\ got' = [t \in Scans |-> got'[t]]
      /\ undo' = [t \in Scans |-> undo'[t]]
  BY DEF Typed
<1> QED
  BY <1>1, <1>2, <1>4, <1>5, <1>6, OthersTyped

LEMMA BeginTyped ==
    ASSUME Typed, NEW s \in Scans, Begin(s)
    PROVE  Typed'
<1>1. UNCHANGED <<taint, sanitizers, config, at, got, previous, injected>> /\ undo' = undo
  BY DEF Begin, tables
<1>2. overlapped' \in BOOLEAN
  BY DEF Begin, Typed
<1>3. got[s] = <<>> /\ undo[s] = {} /\ undo = [t \in Scans |-> undo[t]]
  BY DEF Begin, Typed, TypedCall
<1>4. CASE Bare(config[s])
  <2>1. pc' = [pc EXCEPT ![s] = "scanning"]
    BY <1>4 DEF Begin
  <2> QED
    BY <1>1, <1>2, <1>3, <1>4, <2>1, MoveTyped DEF Adding
<1>5. CASE ~Bare(config[s])
  <2>1. pc' = [pc EXCEPT ![s] = "adding"]
    BY <1>5 DEF Begin
  <2> QED
    BY <1>1, <1>2, <1>3, <1>5, <2>1, MoveTyped DEF Adding
<1> QED
  BY <1>4, <1>5

(* The steps between the preparations and the end.                         *)
Moves(s, from, to) ==
    /\ pc[s] = from /\ pc' = [pc EXCEPT ![s] = to]
    /\ UNCHANGED <<taint, sanitizers, config, at, got, previous, injected, overlapped>>
    /\ IF to = "leaving" THEN undo' = [undo EXCEPT ![s] = Kept(s)] ELSE undo' = [undo EXCEPT ![s] = {}]
    /\ to \in {"late", "classic"} => s \in JavaScript

Moved(s) ==
    \/ Moves(s, "adding", "scanning") /\ at[s] \notin DOMAIN config[s]
    \/ Moves(s, "scanning", "late")
    \/ Moves(s, "late", "classic")
    \/ \E from \in {"scanning", "classic"} :
          IF Bare(config[s]) THEN Moves(s, from, "done") ELSE Moves(s, from, "leaving")
    \/ Moves(s, "leaving", "done") /\ undo[s] = {}

LEMMA Movements ==
    ASSUME Typed, NEW s \in Scans,
           Added(s) \/ Analysed(s) \/ TimesOut(s) \/ ThreadEnds(s) \/ ClassicEnds(s) \/ Left(s)
    PROVE  Moved(s)
<1>1. pc[s] # "leaving" \/ undo[s] = {} => undo = [undo EXCEPT ![s] = {}]
  BY DEF Typed, TypedCall
<1>2. CASE Added(s)
  BY <1>1, <1>2 DEF Added, Moved, Moves, tables
<1>3. CASE Analysed(s)
  <2>1. CASE Bare(config[s])
    BY <1>3, <2>1 DEF Analysed, Leave, Moved, Moves, tables
  <2>2. CASE ~Bare(config[s])
    BY <1>3, <2>2 DEF Analysed, Leave, Moved, Moves, tables
  <2> QED
    BY <2>1, <2>2
<1>4. CASE TimesOut(s)
  BY <1>1, <1>4 DEF TimesOut, Moved, Moves, tables
<1>5. CASE ThreadEnds(s)
  BY <1>1, <1>5 DEF ThreadEnds, Moved, Moves, tables, Typed, TypedCall
<1>6. CASE ClassicEnds(s)
  <2>1. CASE Bare(config[s])
    BY <1>6, <2>1 DEF ClassicEnds, Leave, Moved, Moves, tables
  <2>2. CASE ~Bare(config[s])
    BY <1>6, <2>2 DEF ClassicEnds, Leave, Moved, Moves, tables
  <2> QED
    BY <2>1, <2>2
<1>7. CASE Left(s)
  BY <1>1, <1>7 DEF Left, Moved, Moves, tables
<1> QED
  BY <1>2, <1>3, <1>4, <1>5, <1>6, <1>7

LEMMA MoveOf ==
    ASSUME Typed, NEW s \in Scans, Moved(s)
    PROVE  \E from, to \in {"idle"} \cup Adding \cup Ended :
              /\ Moves(s, from, to)
              /\ from \in {"adding", "scanning", "late", "classic", "leaving"}
              /\ from = "adding" => to = "scanning" /\ at[s] \notin DOMAIN config[s]
              /\ from # "adding" => to \in {"late", "classic", "leaving", "done"} /\ got[s] = <<>>
              /\ to = "leaving" => ~Bare(config[s])
              /\ to = "done" /\ ~Bare(config[s]) => from = "leaving"
              /\ from = "leaving" => to = "done" /\ undo[s] = {}
<1>1. pc[s] # "adding" => got[s] = <<>>
  BY DEF Typed, TypedCall
<1> QED
  BY <1>1 DEF Moved, Moves, Adding, Ended

LEMMA MovedTyped ==
    ASSUME Typed, NEW s \in Scans, Moved(s)
    PROVE  Typed'
<1>1. PICK from, to \in {"idle"} \cup Adding \cup Ended :
        /\ Moves(s, from, to)
        /\ from \in {"adding", "scanning", "late", "classic", "leaving"}
        /\ from = "adding" => to = "scanning" /\ at[s] \notin DOMAIN config[s]
        /\ from # "adding" => to \in {"late", "classic", "leaving", "done"} /\ got[s] = <<>>
        /\ to = "leaving" => ~Bare(config[s])
        /\ from = "leaving" => to = "done"
  BY MoveOf
<1>2. got[s] = <<>>
  BY <1>1 DEF Typed, TypedCall, Moves
<1>3. to \in {"scanning", "late", "classic", "leaving"} /\ ~Bare(config[s]) => at[s] = Len(config[s]) + 1
  <2>1. at[s] \in 1..(Len(config[s]) + 1) /\ Len(config[s]) \in Nat /\ DOMAIN config[s] = 1..Len(config[s])
    BY Configs DEF Typed, TypedCall
  <2>2. from = "adding" => at[s] = Len(config[s]) + 1
    BY <1>1, <2>1
  <2> QED
    BY <1>1, <2>2 DEF Moves, Typed, TypedCall
<1>4. undo' = [t \in Scans |-> IF t = s THEN undo'[s] ELSE undo[t]]
      /\ (undo'[s] = {} \/ (to = "leaving" /\ undo'[s] = Kept(s)))
  BY <1>1 DEF Moves, Typed
<1>5. overlapped' \in BOOLEAN
  BY <1>1 DEF Moves, Typed
<1>6. to # "idle" /\ to # "adding" /\ (to \in {"late", "classic"} => s \in JavaScript)
      /\ pc' = [pc EXCEPT ![s] = to]
      /\ UNCHANGED <<taint, sanitizers, config, at, got, previous, injected>>
  BY <1>1 DEF Moves
<1> QED
  BY <1>1, <1>2, <1>3, <1>4, <1>5, <1>6, MoveTyped

LEMMA GetTyped ==
    ASSUME Typed, NEW s \in Scans, Get(s)
    PROVE  Typed'
<1> DEFINE v == IF Current(s).kind = "taint" THEN taint[Current(s).name] ELSE sanitizers[Current(s).name]
<1>1. /\ UNCHANGED <<taint, sanitizers, config, pc, at, previous, injected, undo, overlapped>>
      /\ got' = [got EXCEPT ![s] = <<v>>]
      /\ pc[s] = "adding" /\ at[s] \in DOMAIN config[s]
  BY DEF Get, tables
<1>2. v \in IF Current(s).kind = "taint" THEN Specs \cup {None} ELSE Rows
  BY <1>1, Configs DEF Current, Typed, Tables
<1>3. got' = [t \in Scans |-> IF t = s THEN <<v>> ELSE got[t]]
  BY <1>1 DEF Typed
<1>4. Others(s) /\ Kept(s)' = Kept(s) /\ Current(s)' = Current(s)
  BY <1>1, <1>3 DEF Others, Kept, Current
<1>5. TypedCall(s)'
  <2>1. got'[s] = <<v>> /\ <<v>>[1] = v
    BY <1>3
  <2> HIDE DEF v
  <2> QED
    BY <1>1, <1>2, <1>4, <2>1 DEF Typed, TypedCall, Bare
<1>6. Tables' /\ got' = [t \in Scans |-> got'[t]]
  BY <1>1, <1>3 DEF Typed, Tables
<1> QED
  BY <1>1, <1>4, <1>5, <1>6, OthersTyped DEF Typed

(* The steps that add what was read.                                       *)
Adds(s) ==
    /\ pc[s] = "adding" /\ got[s] # <<>>
    /\ got' = [got EXCEPT ![s] = <<>>]
    /\ UNCHANGED <<config, undo, overlapped>>
    /\ \E i \in (at[s] + 1)..(Len(config[s]) + 1) :
          \/ at' = [at EXCEPT ![s] = i] /\ pc' = pc
          \/ at' = at /\ pc' = [pc EXCEPT ![s] = "raised"]
    /\ previous' = previous \/ \E n \in Names, v \in Specs \cup {None} : previous' = [previous EXCEPT ![s][n] = v]
    /\ injected' = injected \/ \E f \in Functions, v \in CweSets \cup {Whole} : injected' = [injected EXCEPT ![s][f] = v]
    /\ taint' = taint \/ \E n \in Names, v \in Specs : taint' = [taint EXCEPT ![n] = v]
    /\ sanitizers' = sanitizers \/ \E f \in Functions, v \in CweSets : sanitizers' = [sanitizers EXCEPT ![f] = v]

LEMMA AddsTyped ==
    ASSUME Typed, NEW s \in Scans, Adds(s)
    PROVE  Typed' /\ Others(s)
<1>1. PICK i \in (at[s] + 1)..(Len(config[s]) + 1) :
          \/ at' = [at EXCEPT ![s] = i] /\ pc' = pc
          \/ at' = at /\ pc' = [pc EXCEPT ![s] = "raised"]
  BY DEF Adds
<1>2. i \in 1..(Len(config[s]) + 1)
  BY <1>1, Configs DEF Typed, TypedCall
<1>3. /\ at' = [t \in Scans |-> at'[t]] /\ at'[s] \in 1..(Len(config[s]) + 1)
      /\ got' = [t \in Scans |-> got'[t]] /\ got'[s] = <<>>
      /\ undo' = [t \in Scans |-> undo'[t]] /\ undo'[s] = {}
      /\ pc' \in [Scans -> {"idle"} \cup Adding \cup Ended] /\ pc'[s] \in {"adding", "raised"}
      /\ overlapped' \in BOOLEAN
  BY <1>1, <1>2 DEF Adds, Typed, TypedCall, Ended
<1>4. Tables'
  <2>1. taint' \in [Names -> Specs \cup {None}]
    BY DEF Adds, Typed, Tables
  <2>4. sanitizers' \in [Functions -> Rows]
    BY DEF Adds, Typed, Tables, Rows
  <2>2. previous' \in [Scans -> [Names -> Specs \cup {None}]]
    <3>1. CASE previous' = previous
      BY <3>1 DEF Typed, Tables
    <3>2. ASSUME NEW n \in Names, NEW v \in Specs \cup {None}, previous' = [previous EXCEPT ![s][n] = v]
          PROVE  previous' \in [Scans -> [Names -> Specs \cup {None}]]
      BY <3>2 DEF Typed, Tables
    <3> QED
      BY <3>1, <3>2 DEF Adds
  <2>3. injected' \in [Scans -> [Functions -> Rows \cup {Whole}]]
    <3>1. CASE injected' = injected
      BY <3>1 DEF Typed, Tables
    <3>2. ASSUME NEW f \in Functions, NEW v \in CweSets \cup {Whole}, injected' = [injected EXCEPT ![s][f] = v]
          PROVE  injected' \in [Scans -> [Functions -> Rows \cup {Whole}]]
      BY <3>2 DEF Typed, Tables, Rows
    <3> QED
      BY <3>1, <3>2 DEF Adds
  <2> QED
    BY <2>1, <2>2, <2>3, <2>4 DEF Tables
<1>5. Others(s)
  <2>1. \A t \in Scans : t # s => /\ pc'[t] = pc[t] /\ at'[t] = at[t] /\ got'[t] = got[t] /\ undo'[t] = undo[t]
    BY <1>1 DEF Adds, Typed
  <2>2. \A t \in Scans : t # s => injected'[t] = injected[t]
    BY DEF Adds, Typed, Tables
  <2>3. \A t \in Scans : t # s => previous'[t] = previous[t]
    BY DEF Adds, Typed, Tables
  <2> QED
    BY <2>1, <2>2, <2>3 DEF Others
<1>6. TypedCall(s)'
  <2>1. ~Bare(config[s])
    BY NotBare DEF Adds
  <2> QED
    BY <1>3, <2>1 DEF TypedCall, Adds, Bare
<1> QED
  BY <1>3, <1>4, <1>5, <1>6, OthersTyped DEF Adds

(* The table after an entry has grown.                                     *)
LEMMA GrownTable ==
    ASSUME Typed, NEW s \in Scans, got[s] # <<>>, Current(s).kind # "taint"
    PROVE  LET f == Current(s).name
               e == sanitizers[f] \cup Current(s).value
           IN  IF sanitizers[f] = None THEN Grown(s) = sanitizers
               ELSE e \in CweSets /\ Grown(s) = [sanitizers EXCEPT ![f] = e]
<1> DEFINE f == Current(s).name
<1>1. f \in Functions /\ Current(s).value \in CweSets
  BY CurrentEntry
<1>2. ASSUME sanitizers[f] # None PROVE sanitizers[f] \cup Current(s).value \in CweSets
  <2>1. sanitizers[f] \in CweSets
    BY <1>1, <1>2 DEF Typed, Tables, Rows
  <2>2. \A A, B \in CweSets : A \cup B \in CweSets
    BY DEF CweSets
  <2> QED
    BY <1>1, <2>1, <2>2
<1> QED
  BY <1>1, <1>2 DEF Grown

LEMMA Additions ==
    ASSUME Typed, NEW s \in Scans,
           PutTaint(s) \/ PutSanitizer(s) \/ GrowSanitizer(s) \/ AddTwice(s)
    PROVE  Adds(s)
<1>1. pc[s] = "adding" /\ got[s] # <<>> /\ got' = [got EXCEPT ![s] = <<>>] /\ UNCHANGED <<config, undo, overlapped>>
  BY DEF PutTaint, PutSanitizer, GrowSanitizer, AddTwice, Read
<1>2. at[s] + 1 \in (at[s] + 1)..(Len(config[s]) + 1)
  BY <1>1, CurrentEntry, Configs
<1>3. CASE PutTaint(s)
  BY <1>1, <1>2, <1>3, CurrentEntry DEF Adds, PutTaint, Read
<1>4. CASE PutSanitizer(s)
  BY <1>1, <1>2, <1>4, CurrentEntry DEF Adds, PutSanitizer, Read
<1>5. CASE GrowSanitizer(s) \/ AddTwice(s)
  <2>1. Current(s).kind # "taint"
    BY <1>5 DEF GrowSanitizer, AddTwice, Read
  <2>2. Current(s).name \in Functions /\ Current(s).value \in CweSets
    BY <1>1, <2>1, CurrentEntry
  <2>3. sanitizers' = sanitizers
        \/ \E f \in Functions, v \in CweSets : sanitizers' = [sanitizers EXCEPT ![f] = v]
    BY <1>1, <1>5, <2>1, <2>2, GrownTable DEF GrowSanitizer, AddTwice
  <2>4. CASE GrowSanitizer(s)
    <3> DEFINE f == Current(s).name
               v == IF injected[s][f] = None THEN Current(s).value ELSE injected[s][f] \cup Current(s).value
    <3>1. injected' = [injected EXCEPT ![s][f] = v]
      BY <2>4, <2>2 DEF GrowSanitizer, Typed, Tables
    <3>2. injected[s][f] # Whole /\ injected[s][f] \in Rows \cup {Whole}
      BY <2>4, <2>2 DEF GrowSanitizer, Typed, Tables
    <3>3. \A A, B \in CweSets : A \cup B \in CweSets
      BY DEF CweSets
    <3>4. v \in CweSets
      BY <2>2, <3>2, <3>3 DEF Rows
    <3>5. UNCHANGED <<taint, pc, previous>> /\ at' = [at EXCEPT ![s] = at[s] + 1]
      BY <2>4 DEF GrowSanitizer
    <3> HIDE DEF v
    <3> QED
      BY <1>1, <1>2, <2>2, <2>3, <3>1, <3>4, <3>5 DEF Adds
  <2>5. CASE AddTwice(s)
    BY <1>1, <1>2, <2>3, <2>5 DEF Adds, AddTwice
  <2> QED
    BY <1>5, <2>4, <2>5
<1> QED
  BY <1>3, <1>4, <1>5

(* What taking out does to one entry.                                      *)
TakesTaint(s, n) ==
    /\ \E i \in DOMAIN config[s] : config[s][i].kind = "taint" /\ config[s][i].name = n
    /\ taint' = [taint EXCEPT ![n] = previous[s][n]]
    /\ sanitizers' = sanitizers

TakesSanitizer(s, f) ==
    /\ f \in Functions /\ injected[s][f] # None /\ taint' = taint
    /\ IF injected[s][f] = Whole \/ sanitizers[f] = None
         THEN sanitizers' = [sanitizers EXCEPT ![f] = None]
         ELSE /\ sanitizers[f] \ injected[s][f] \in CweSets
              /\ sanitizers' = [sanitizers EXCEPT ![f] = sanitizers[f] \ injected[s][f]]

LEMMA TakenOut ==
    ASSUME Typed, NEW s \in Scans, NEW n \in Names \cup Functions, TakeOut(s, n)
    PROVE  /\ pc[s] = "leaving" /\ n \in undo[s] /\ ~Bare(config[s])
           /\ undo' = [undo EXCEPT ![s] = undo[s] \ {n}]
           /\ UNCHANGED <<config, pc, at, got, previous, injected, overlapped>>
           /\ n \in Names => TakesTaint(s, n)
           /\ n \notin Names => TakesSanitizer(s, n)
<1>1. pc[s] = "leaving" /\ n \in undo[s] /\ n \in Kept(s) /\ ~Bare(config[s])
  BY DEF TakeOut, Typed, TypedCall
<1>2. n \in Names => \E i \in DOMAIN config[s] : config[s][i].kind = "taint" /\ config[s][i].name = n
  BY <1>1, TablesAssumption DEF Kept
<1>3. n \notin Names => n \in Functions /\ injected[s][n] # None
  BY <1>1 DEF Kept
<1>4. ASSUME n \notin Names, sanitizers[n] # None PROVE sanitizers[n] \ injected[s][n] \in CweSets
  <2>1. sanitizers[n] \in CweSets
    BY <1>4 DEF Typed, Tables, Rows
  <2> QED
    BY <2>1 DEF CweSets
<1> QED
  BY <1>1, <1>2, <1>3, <1>4 DEF TakeOut, TakenTaint, TakenSanitizer, TakesTaint, TakesSanitizer

LEMMA TakeOutTyped ==
    ASSUME Typed, NEW s \in Scans, NEW n \in Names \cup Functions, TakeOut(s, n)
    PROVE  Typed' /\ Others(s)
<1>1. /\ pc[s] = "leaving" /\ n \in undo[s]
      /\ undo' = [undo EXCEPT ![s] = undo[s] \ {n}]
      /\ UNCHANGED <<config, pc, at, got, previous, injected, overlapped>>
  BY TakenOut
<1>2. undo' = [t \in Scans |-> IF t = s THEN undo[s] \ {n} ELSE undo[t]]
  BY <1>1 DEF Typed
<1>3. Others(s)
  BY <1>1, <1>2 DEF Others
<1>4. Kept(s)' = Kept(s) /\ Current(s)' = Current(s)
  BY <1>1 DEF Kept, Current
<1>5. TypedCall(s)'
  BY <1>1, <1>2, <1>4 DEF Typed, TypedCall, Bare
<1>6. taint' \in [Names -> Specs \cup {None}] /\ sanitizers' \in [Functions -> Rows]
  <2>1. CASE n \in Names
    <3>1. TakesTaint(s, n)
      BY <2>1, TakenOut
    <3>2. previous[s][n] \in Specs \cup {None}
      BY <2>1 DEF Typed, Tables
    <3> QED
      BY <3>1, <3>2 DEF Typed, Tables, TakesTaint
  <2>2. CASE n \notin Names
    <3>1. TakesSanitizer(s, n)
      BY <2>2, TakenOut
    <3>2. n \in Functions /\ \E w \in Rows : sanitizers' = [sanitizers EXCEPT ![n] = w]
      BY <3>1 DEF Rows, TakesSanitizer
    <3> QED
      BY <3>1, <3>2 DEF Typed, Tables, TakesSanitizer
  <2> QED
    BY <2>1, <2>2
<1>8. Tables'
  BY <1>1, <1>6 DEF Typed, Tables
<1>9. undo' = [t \in Scans |-> undo'[t]]
  BY <1>2
<1> QED
  BY <1>1, <1>3, <1>5, <1>8, <1>9, OthersTyped DEF Typed

(* The steps, by what they do.                                             *)
LEMMA Steps ==
    ASSUME Typed, [Next]_vars
    PROVE  \/ \E s \in Scans :
                 \/ Begin(s) \/ Get(s) \/ Moved(s)
                 \/ Adds(s) /\ (PutTaint(s) \/ PutSanitizer(s) \/ GrowSanitizer(s) \/ AddTwice(s))
                 \/ \E n \in Names \cup Functions : TakeOut(s, n)
           \/ UNCHANGED vars
BY Additions, Movements DEF Next, Step

LEMMA StepTyped == Typed /\ [Next]_vars => Typed'
<1> SUFFICES ASSUME Typed, [Next]_vars PROVE Typed'
  OBVIOUS
<1>1. CASE UNCHANGED vars
  BY <1>1 DEF vars, Typed, TypedCall, Tables, Bare, Current, Kept
<1> QED
  BY <1>1, Steps, BeginTyped, GetTyped, MovedTyped, AddsTyped, TakeOutTyped

(* Every value of every variable is of its type.                           *)
THEOREM TypeCorrect == Spec => []TypeOK
<1>1. Init => Typed
  BY InitInv DEF IInv
<1> QED
  BY <1>1, StepTyped, TypesHold, PTL DEF Spec

-----------------------------------------------------------------------------
(* The built-in entries.                                                   *)
LEMMA OthersBuiltins ==
    ASSUME Builtins, NEW s \in Scans, Others(s), config' = config, BuiltinsKept', BuiltinsCall(s)'
    PROVE  Builtins'
<1>1. ASSUME NEW t \in Scans, t # s PROVE BuiltinsCall(t)'
  <2>1. Current(t)' = Current(t) /\ \A n : TaintAdded(t, n)' = TaintAdded(t, n)
    BY <1>1 DEF Others, Current, TaintAdded
  <2> QED
    BY <1>1, <2>1 DEF Others, Builtins, BuiltinsCall
<1> QED
  BY <1>1 DEF Builtins

(* What the entries at hand are after the one at at[s] has been added.     *)
LEMMA NextEntry ==
    ASSUME Typed, NEW s \in Scans, at[s] \in DOMAIN config[s], config' = config, at' = [at EXCEPT ![s] = at[s] + 1]
    PROVE  /\ Current(s).kind # "taint" => \A n : TaintAdded(s, n)' = TaintAdded(s, n)
           /\ Current(s).kind = "taint" => \A n : FnAdded(s, n)' = FnAdded(s, n)
           /\ \A n : n # Current(s).name => TaintAdded(s, n)' = TaintAdded(s, n) /\ FnAdded(s, n)' = FnAdded(s, n)
           /\ \A n : n = Current(s).name =>
                 /\ Current(s).kind = "taint" => TaintAdded(s, n)' = TaintAdded(s, n) \cup {at[s]}
                 /\ Current(s).kind # "taint" => FnAdded(s, n)' = FnAdded(s, n) \cup {at[s]}
<1>1. at'[s] = at[s] + 1 /\ at[s] \in Nat
  BY Configs DEF Typed
<1>2. \A i \in DOMAIN config[s] : i < at[s] + 1 <=> (i < at[s] \/ i = at[s])
  BY <1>1, Configs
<1> QED
  BY <1>1, <1>2 DEF TaintAdded, FnAdded, Current

LEMMA BuiltinsStep ==
    ASSUME Typed, Builtins, [Next]_vars
    PROVE  Builtins'
<1> USE DEF Rows
<1>1. CASE UNCHANGED vars
  BY <1>1 DEF vars, Builtins, BuiltinsKept, BuiltinsCall, Current, TaintAdded
<1>2. ASSUME NEW s \in Scans, Begin(s) \/ Moved(s)
      PROVE  Builtins'
  BY <1>2 DEF Begin, Moved, Moves, tables, Builtins, BuiltinsKept, BuiltinsCall, Current, TaintAdded
<1>3. ASSUME NEW s \in Scans, Get(s)
      PROVE  Builtins'
  <2> DEFINE v == IF Current(s).kind = "taint" THEN taint[Current(s).name] ELSE sanitizers[Current(s).name]
  <2>1. /\ UNCHANGED <<taint, sanitizers, config, pc, at, previous, injected, undo, overlapped>>
        /\ got' = [got EXCEPT ![s] = <<v>>] /\ at[s] \in DOMAIN config[s]
    BY <1>3 DEF Get, tables
  <2>2. got' = [t \in Scans |-> IF t = s THEN <<v>> ELSE got[t]]
    BY <2>1 DEF Typed
  <2>3. Others(s) /\ BuiltinsKept'
    BY <2>1, <2>2 DEF Others, Builtins, BuiltinsKept
  <2>4. Current(s)' = Current(s) /\ \A n : TaintAdded(s, n)' = TaintAdded(s, n)
    BY <2>1 DEF Current, TaintAdded
  <2>5. /\ Current(s).kind = "taint" => Current(s).name \in Names
        /\ Current(s).kind # "taint" => Current(s).name \in Functions
    BY <2>1, Configs DEF Current
  <2>6. got'[s][1] = v
    BY <2>2
  <2>7. /\ Current(s).kind = "taint" /\ Builtin[Current(s).name] # None => v # None
        /\ Current(s).kind # "taint" /\ Sanitized[Current(s).name] # None => v # None
    BY <2>5 DEF Builtins, BuiltinsKept
  <2> HIDE DEF v
  <2>8. BuiltinsCall(s)'
    BY <2>1, <2>4, <2>6, <2>7 DEF Builtins, BuiltinsCall
  <2> QED
    BY <2>1, <2>3, <2>8, OthersBuiltins
<1>4. ASSUME NEW s \in Scans, Adds(s), PutTaint(s) \/ PutSanitizer(s) \/ GrowSanitizer(s) \/ AddTwice(s)
      PROVE  Builtins'
  <2>1. Others(s) /\ config' = config /\ got'[s] = <<>> /\ got[s] # <<>> /\ at[s] \in DOMAIN config[s]
    BY <1>4, AddsTyped, CurrentEntry DEF Adds, Typed
  <2>2. CASE PutTaint(s)
    <3> DEFINE m == Current(s).name
    <3>1. /\ Current(s).kind = "taint" /\ m \in Names /\ Current(s).value \in Specs
          /\ previous'[s] = [previous[s] EXCEPT ![m] = got[s][1]]
          /\ taint' = [taint EXCEPT ![m] = Current(s).value]
          /\ sanitizers' = sanitizers /\ injected' = injected
          /\ at' = [at EXCEPT ![s] = at[s] + 1]
      BY <2>1, <2>2, CurrentEntry DEF PutTaint, Read, Typed, Tables
    <3>2. BuiltinsKept'
      BY <3>1, TablesAssumption DEF Builtins, BuiltinsKept, Typed, Tables
    <3>3. Builtin[m] # None => got[s][1] # None
      BY <2>1, <3>1 DEF Builtins, BuiltinsCall
    <3>4. ASSUME NEW n \in Names, Builtin[n] # None, TaintAdded(s, n)' # {}
          PROVE  previous'[s][n] # None
      <4>1. CASE n = m
        BY <3>1, <3>3, <3>4, <4>1 DEF Typed, Tables
      <4>2. CASE n # m
        <5>1. TaintAdded(s, n) # {}
          BY <2>1, <3>1, <3>4, <4>2, NextEntry
        <5> QED
          BY <3>1, <3>4, <4>2, <5>1 DEF Builtins, BuiltinsCall, Typed, Tables
      <4> QED
        BY <4>1, <4>2
    <3>5. BuiltinsCall(s)'
      BY <2>1, <3>1, <3>4 DEF Builtins, BuiltinsCall
    <3> QED
      BY <2>1, <3>2, <3>5, OthersBuiltins
  <2>3. CASE PutSanitizer(s)
    <3> DEFINE f == Current(s).name
    <3>1. /\ Current(s).kind # "taint" /\ f \in Functions /\ Current(s).value \in CweSets
          /\ got[s][1] = None
          /\ injected'[s] = [injected[s] EXCEPT ![f] = Whole]
          /\ sanitizers' = [sanitizers EXCEPT ![f] = Current(s).value]
          /\ taint' = taint /\ previous' = previous
          /\ at' = [at EXCEPT ![s] = at[s] + 1]
      BY <2>1, <2>3, CurrentEntry DEF PutSanitizer, Read, Typed, Tables
    <3>2. BuiltinsKept'
      BY <3>1, TablesAssumption DEF Builtins, BuiltinsKept, Typed, Tables
    <3>3. Sanitized[f] = None
      BY <2>1, <3>1 DEF Builtins, BuiltinsCall
    <3>4. \A n : TaintAdded(s, n)' = TaintAdded(s, n)
      BY <2>1, <3>1, NextEntry
    <3>5. \A g \in Functions : Sanitized[g] # None => injected'[s][g] # Whole
      BY <3>1, <3>3 DEF Builtins, BuiltinsCall, Typed, Tables
    <3>6. BuiltinsCall(s)'
      BY <2>1, <3>1, <3>4, <3>5 DEF Builtins, BuiltinsCall
    <3> QED
      BY <2>1, <3>2, <3>6, OthersBuiltins
  <2>4. CASE GrowSanitizer(s) \/ AddTwice(s)
    <3> DEFINE f == Current(s).name
    <3>1. /\ Current(s).kind # "taint" /\ f \in Functions /\ Current(s).value \in CweSets
          /\ sanitizers' = Grown(s) /\ taint' = taint /\ previous' = previous
      BY <2>1, <2>4, CurrentEntry DEF GrowSanitizer, AddTwice, Read
    <3>2. BuiltinsKept'
      <4>1. Grown(s) = sanitizers \/ \E v \in CweSets : Grown(s) = [sanitizers EXCEPT ![f] = v]
        BY <2>1, <3>1, GrownTable
      <4> QED
        BY <3>1, <4>1, TablesAssumption DEF Builtins, BuiltinsKept, Typed, Tables
    <3>3. CASE GrowSanitizer(s)
      <4>1. at' = [at EXCEPT ![s] = at[s] + 1]
        BY <3>3 DEF GrowSanitizer
      <4>2. \A g \in Functions : injected'[s][g] = Whole => injected[s][g] = Whole
        <5>1. injected[s][f] # Whole /\ injected[s][f] \in Rows \cup {Whole}
          BY <3>1, <3>3 DEF GrowSanitizer, Typed, Tables
        <5>2. \A A, B \in CweSets : A \cup B \in CweSets
          BY DEF CweSets
        <5>3. \E v \in CweSets : injected'[s] = [injected[s] EXCEPT ![f] = v]
          BY <3>1, <3>3, <5>1, <5>2 DEF GrowSanitizer, Typed, Tables
        <5> QED
          BY <3>1, <5>3, TablesAssumption DEF Typed, Tables
      <4>3. BuiltinsCall(s)'
        BY <2>1, <3>1, <4>1, <4>2, NextEntry DEF Builtins, BuiltinsCall
      <4> QED
        BY <2>1, <3>2, <4>3, OthersBuiltins
    <3>4. CASE AddTwice(s)
      <4>1. injected' = injected
        BY <3>4 DEF AddTwice
      <4>2. \A n : TaintAdded(s, n)' \subseteq TaintAdded(s, n)
        <5>1. CASE at' = at
          BY <2>1, <5>1 DEF TaintAdded
        <5>2. ASSUME NEW i \in (at[s] + 1)..(Len(config[s]) + 1), at' = [at EXCEPT ![s] = i],
                     \A j \in (at[s] + 1)..(i - 1) : config[s][j].kind = "file"
              PROVE  \A n : TaintAdded(s, n)' \subseteq TaintAdded(s, n)
          <6>1. at'[s] = i /\ at[s] \in Nat /\ i \in Nat
            BY <2>1, <5>2, Configs DEF Typed
          <6>2. ASSUME NEW j \in DOMAIN config[s], j < i, config[s][j].kind = "taint"
                PROVE  j < at[s]
            BY <2>1, <3>1, <5>2, <6>1, <6>2, Configs DEF Current
          <6> QED
            BY <2>1, <6>1, <6>2 DEF TaintAdded
        <5> QED
          BY <3>4, <5>1, <5>2 DEF AddTwice
      <4>3. BuiltinsCall(s)'
        BY <2>1, <3>1, <4>1, <4>2 DEF Builtins, BuiltinsCall
      <4> QED
        BY <2>1, <3>2, <4>3, OthersBuiltins
    <3> QED
      BY <2>4, <3>3, <3>4
  <2> QED
    BY <1>4, <2>2, <2>3, <2>4
<1>5. ASSUME NEW s \in Scans, NEW n \in Names \cup Functions, TakeOut(s, n)
      PROVE  Builtins'
  <2>1. UNCHANGED <<config, at, got, previous, injected>> /\ Others(s) /\ pc[s] = "leaving" /\ ~Bare(config[s])
    BY <1>5, TakenOut, TakeOutTyped
  <2>2. CASE n \in Names
    <3>0. TakesTaint(s, n)
      BY <1>5, <2>2, TakenOut
    <3>1. PICK i \in DOMAIN config[s] : config[s][i].kind = "taint" /\ config[s][i].name = n
      BY <3>0 DEF TakesTaint
    <3>2. i < at[s]
      BY <2>1, Configs DEF Typed, TypedCall
    <3>3. Builtin[n] # None => previous[s][n] # None
      BY <2>2, <3>1, <3>2 DEF Builtins, BuiltinsCall, TaintAdded
    <3>4. BuiltinsKept'
      BY <2>2, <3>0, <3>3 DEF Builtins, BuiltinsKept, Typed, Tables, TakesTaint
    <3>5. Current(s)' = Current(s) /\ \A m : TaintAdded(s, m)' = TaintAdded(s, m)
      BY <2>1 DEF Current, TaintAdded
    <3>6. BuiltinsCall(s)'
      BY <2>1, <3>5 DEF Builtins, BuiltinsCall
    <3> QED
      BY <2>1, <3>4, <3>6, OthersBuiltins
  <2>3. CASE n \notin Names
    <3>0. TakesSanitizer(s, n)
      BY <1>5, <2>3, TakenOut
    <3>1. n \in Functions /\ taint' = taint
      BY <3>0 DEF TakesSanitizer
    <3>2. Sanitized[n] # None => injected[s][n] # Whole /\ sanitizers[n] # None
      BY <3>1 DEF Builtins, BuiltinsCall, BuiltinsKept
    <3>3. BuiltinsKept'
      <4>1. IF injected[s][n] = Whole \/ sanitizers[n] = None
              THEN sanitizers' = [sanitizers EXCEPT ![n] = None]
              ELSE \E v \in CweSets : sanitizers' = [sanitizers EXCEPT ![n] = v]
        BY <3>0 DEF TakesSanitizer
      <4>2. \A v \in CweSets : v # None
        BY TablesAssumption
      <4> QED
        BY <3>1, <3>2, <4>1, <4>2 DEF Builtins, BuiltinsKept, Typed, Tables
    <3>5. Current(s)' = Current(s) /\ \A m : TaintAdded(s, m)' = TaintAdded(s, m)
      BY <2>1 DEF Current, TaintAdded
    <3>6. BuiltinsCall(s)'
      BY <2>1, <3>5 DEF Builtins, BuiltinsCall
    <3> QED
      BY <2>1, <3>3, <3>6, OthersBuiltins
  <2> QED
    BY <2>2, <2>3
<1> QED
  BY <1>1, <1>2, <1>3, <1>4, <1>5, Steps

(* However calls overlap, raise or hang, no built-in name is lost.         *)
THEOREM BuiltinsKeptHolds == Spec => []BuiltinsKept
<1>1. Init => Typed /\ Builtins
  BY InitInv DEF IInv
<1>2. Typed /\ Builtins /\ [Next]_vars => Typed' /\ Builtins'
  BY StepTyped, BuiltinsStep
<1>3. Builtins => BuiltinsKept
  BY DEF Builtins
<1> QED
  BY <1>1, <1>2, <1>3, PTL DEF Spec

-----------------------------------------------------------------------------
(* Calls that do not overlap.                                              *)

(* Nothing makes an overlapping or a failure undone.                       *)
LEMMA QuietBefore ==
    ASSUME Typed, [Next]_vars, Quiet'
    PROVE  Quiet
<1>1. ~overlapped
  BY DEF Next, Step, Begin, Get, PutTaint, PutSanitizer, GrowSanitizer, AddTwice, Read, Added, Analysed,
         ClassicEnds, Leave, TimesOut, ThreadEnds, TakeOut, Left, vars, Quiet
<1>2. ASSUME NEW t \in Scans, pc[t] = "raised" PROVE FALSE
  <2>1. ASSUME NEW s \in Scans, pc[s] # "raised", Others(s) PROVE FALSE
    BY <1>2, <2>1 DEF Others, Quiet
  <2>2. ASSUME NEW s \in Scans, Begin(s) \/ Moved(s) PROVE FALSE
    <3>1. pc[s] # "raised" /\ \E p : pc' = [pc EXCEPT ![s] = p]
      BY <2>2 DEF Begin, Moved, Moves
    <3>2. pc'[t] = pc[t]
      BY <1>2, <3>1 DEF Typed
    <3> QED
      BY <1>2, <3>2 DEF Quiet
  <2>3. ASSUME NEW s \in Scans, Get(s) PROVE FALSE
    BY <1>2, <2>3 DEF Get, Quiet
  <2>4. ASSUME NEW s \in Scans, Adds(s) PROVE FALSE
    BY <2>1, <2>4, AddsTyped DEF Adds
  <2>5. ASSUME NEW s \in Scans, NEW n \in Names \cup Functions, TakeOut(s, n) PROVE FALSE
    BY <1>2, <2>5, TakenOut DEF Quiet
  <2>6. CASE UNCHANGED vars
    BY <1>2, <2>6 DEF vars, Quiet
  <2> QED
    BY <2>2, <2>3, <2>4, <2>5, <2>6, Steps
<1> QED
  BY <1>1, <1>2 DEF Quiet

(* Which names are spoilt depends on the calls that have begun with        *)
(* something to add.                                                       *)
LEMMA SameSpoilt ==
    ASSUME NEW s \in Scans, Others(s), config' = config,
           (pc[s] # "idle" /\ pc'[s] # "idle") \/ Bare(config[s])
    PROVE  \A n : Spoilt(n)' = Spoilt(n)
<1>1. ASSUME Bare(config[s]), NEW n PROVE ~Twice(config[s], n)
  BY <1>1 DEF Bare, Twice
<1> QED
  BY <1>1 DEF Spoilt, Others, Twice

(* A step of the call that has something in the tables, or of one that has *)
(* nothing to add.                                                         *)
LEMMA OwnStep ==
    ASSUME Alone, NEW s \in Scans, Active(s), Others(s), config' = config, pc'[s] # "idle",
           Active(s)' => Own(s)', ~Active(s)' => Clear'
    PROVE  Alone'
<1>1. \A t \in Scans : t # s => ~Active(t) /\ ~Active(t)'
  BY DEF Alone, Others, Active
<1>2. \A t \in Scans : pc'[t] = "idle" => \A f \in Functions : injected'[t][f] = None
  BY DEF Alone, Others
<1> QED
  BY <1>1, <1>2 DEF Alone

LEMMA BareStep ==
    ASSUME Alone, NEW s \in Scans, Bare(config[s]), Others(s), pc'[s] # "idle",
           UNCHANGED <<taint, sanitizers, config>>
    PROVE  Alone'
<1>0. \A n : Spoilt(n)' = Spoilt(n)
  BY SameSpoilt
<1>1. \A t \in Scans : Active(t)' = Active(t) /\ (Active(t) => t # s)
  BY DEF Others, Active
<1>2. ASSUME NEW t \in Scans, Active(t) PROVE Own(t)'
  <2>1. t # s /\ Own(t)
    BY <1>1, <1>2 DEF Alone
  <2>2. Current(t)' = Current(t) /\ \A n : TaintAdded(t, n)' = TaintAdded(t, n) /\ FnAdded(t, n)' = FnAdded(t, n)
    BY <2>1 DEF Others, Current, TaintAdded, FnAdded
  <2>3. GotNow(t)' /\ TaintOf(t)'
    BY <1>0, <2>1, <2>2 DEF Own, Others, GotNow, TaintOf
  <2>4. \A f : Shrunk(f)' = Shrunk(f) /\ Out(t, f)' = Out(t, f)
    BY <2>1 DEF Others, Shrunk, Out
  <2>5. SanitizersAfter(t)'
    BY <2>1, <2>2, <2>4 DEF Own, Others, SanitizersAfter
  <2>6. AllPlain' => SanitizersExactly(t)'
    BY <2>1, <2>2, <2>4 DEF Own, Others, SanitizersExactly, AllPlain
  <2> QED
    BY <2>3, <2>5, <2>6 DEF Own
<1>3. Clear' = Clear
  BY <1>0 DEF Clear, Shrunk, AllPlain
<1>4. \A t \in Scans : pc'[t] = "idle" => \A f \in Functions : injected'[t][f] = None
  BY DEF Alone, Others
<1> QED
  BY <1>1, <1>2, <1>3, <1>4 DEF Alone

LEMMA BeginAlone ==
    ASSUME Typed, Alone, NEW s \in Scans, Begin(s), ~overlapped'
    PROVE  Alone'
<1>1. /\ UNCHANGED <<taint, sanitizers, config, at, got, previous, injected, undo>>
      /\ pc[s] = "idle" /\ pc'[s] = IF Bare(config[s]) THEN "scanning" ELSE "adding"
      /\ \A t \in Scans : t # s => pc'[t] = pc[t]
  BY DEF Begin, tables, Typed
<1>2. Others(s)
  BY <1>1 DEF Others
<1>3. CASE Bare(config[s])
  BY <1>1, <1>2, <1>3, BareStep
<1>4. CASE ~Bare(config[s])
  <2>1. \A t \in Scans : ~Active(t)
    BY <1>4 DEF Begin, Active
  <2>2. Clear
    BY <2>1 DEF Alone
  <2>3. \A t \in Scans : Active(t)' <=> t = s
    BY <1>1, <1>4, <2>1 DEF Active, Adding
  <2>4. /\ at[s] = 1 /\ got[s] = <<>> /\ pc'[s] = "adding"
        /\ \A f \in Functions : injected[s][f] = None
    BY <1>1, <1>4 DEF Typed, TypedCall, Alone
  <2>5. \A n : TaintAdded(s, n)' = {} /\ FnAdded(s, n)' = {}
    BY <1>1, <2>4, Configs DEF TaintAdded, FnAdded
  <2>10. \A n : Spoilt(n) => Spoilt(n)'
    BY <1>1, <2>4 DEF Spoilt, Twice
  <2>6. GotNow(s)' /\ TaintOf(s)'
    BY <1>1, <2>2, <2>4, <2>5, <2>10 DEF GotNow, TaintOf, Clear
  <2>7. \A f \in Functions : Out(s, f)' /\ Shrunk(f)'
    BY <1>1, <2>2, <2>4 DEF Out, Shrunk, Clear
  <2>8. SanitizersAfter(s)'
    BY <2>7 DEF SanitizersAfter
  <2>9. AllPlain' => SanitizersExactly(s)'
    BY <1>1, <2>2, <2>4, <2>5, <2>7 DEF SanitizersExactly, Clear, AllPlain
  <2> QED
    BY <1>1, <2>3, <2>6, <2>8, <2>9 DEF Alone, Own
<1> QED
  BY <1>3, <1>4

LEMMA GetAlone ==
    ASSUME Typed, Alone, NEW s \in Scans, Get(s)
    PROVE  Alone'
<1> DEFINE v == IF Current(s).kind = "taint" THEN taint[Current(s).name] ELSE sanitizers[Current(s).name]
<1>1. /\ UNCHANGED <<taint, sanitizers, config, pc, at, previous, injected, undo, overlapped>>
      /\ got' = [got EXCEPT ![s] = <<v>>] /\ pc[s] = "adding"
  BY DEF Get, tables
<1>2. got' = [t \in Scans |-> IF t = s THEN <<v>> ELSE got[t]]
  BY <1>1 DEF Typed
<1>3. Others(s) /\ Active(s) /\ Own(s)
  BY <1>1, <1>2, NotBare DEF Others, Alone
<1>4. Current(s)' = Current(s) /\ \A n : TaintAdded(s, n)' = TaintAdded(s, n) /\ FnAdded(s, n)' = FnAdded(s, n)
  BY <1>1 DEF Current, TaintAdded, FnAdded
<1>5. GotNow(s)'
  <2>1. got'[s][1] = v
    BY <1>2
  <2> QED
    BY <1>1, <1>4, <2>1 DEF GotNow
<1>6. TaintOf(s)'
  BY <1>1, <1>3, <1>4, SameSpoilt DEF Own, TaintOf
<1>7. \A f : Shrunk(f)' = Shrunk(f) /\ Out(s, f)' = Out(s, f)
  BY <1>1 DEF Shrunk, Out
<1>8. SanitizersAfter(s)'
  BY <1>1, <1>3, <1>7 DEF Own, SanitizersAfter
<1>9. AllPlain' => SanitizersExactly(s)'
  BY <1>1, <1>3, <1>4, <1>7 DEF Own, SanitizersExactly, AllPlain
<1>10. Own(s)' /\ Active(s)'
  BY <1>1, <1>3, <1>5, <1>6, <1>8, <1>9 DEF Own, Active
<1> QED
  BY <1>1, <1>3, <1>10, OwnStep

LEMMA MovedAlone ==
    ASSUME Typed, Alone, NEW s \in Scans, Moved(s)
    PROVE  Alone'
<1>1. PICK from, to \in {"idle"} \cup Adding \cup Ended :
        /\ Moves(s, from, to)
        /\ from \in {"adding", "scanning", "late", "classic", "leaving"}
        /\ from = "adding" => to = "scanning" /\ at[s] \notin DOMAIN config[s]
        /\ from # "adding" => to \in {"late", "classic", "leaving", "done"} /\ got[s] = <<>>
        /\ to = "leaving" => ~Bare(config[s])
        /\ to = "done" /\ ~Bare(config[s]) => from = "leaving"
        /\ from = "leaving" => to = "done" /\ undo[s] = {}
  BY MoveOf
<1>2. /\ UNCHANGED <<taint, sanitizers, config, at, got, previous, injected>>
      /\ pc[s] = from /\ pc'[s] = to /\ \A t \in Scans : t # s => pc'[t] = pc[t] /\ undo'[t] = undo[t]
      /\ to = "leaving" => undo'[s] = Kept(s)
      /\ to # "idle"
  BY <1>1 DEF Moves, Typed
<1>3. Others(s)
  BY <1>2 DEF Others
<1>4. CASE Bare(config[s])
  BY <1>2, <1>3, <1>4, BareStep
<1>5. CASE ~Bare(config[s])
  <2>0. \A n : Spoilt(n)' = Spoilt(n)
    BY <1>1, <1>2, <1>3, SameSpoilt
  <2>1. Active(s) /\ Own(s)
    BY <1>1, <1>2, <1>5 DEF Active, Adding, Alone
  <2>2. /\ Current(s)' = Current(s) /\ (Active(s)' <=> to # "done")
        /\ \A n : TaintAdded(s, n)' = TaintAdded(s, n) /\ FnAdded(s, n)' = FnAdded(s, n)
        /\ \A f : Shrunk(f)' = Shrunk(f)
    BY <1>1, <1>2, <1>5 DEF Current, TaintAdded, FnAdded, Shrunk, Active, Adding, Bare
  <2>3. CASE from # "leaving"
    <3>1. to # "done"
      BY <1>1, <1>5, <2>3
    <3>2. \A f \in Functions : Out(s, f)' = Out(s, f)
      BY <1>2, <2>3 DEF Out, Kept
    <3>3. GotNow(s)'
      BY <1>2, <2>1, <2>2 DEF Own, GotNow
    <3>4. \A n \in Names : to = "leaving" /\ n \notin undo'[s] => TaintAdded(s, n) = {}
      BY <1>2 DEF Kept, TaintAdded
    <3>5. TaintOf(s)'
      BY <1>2, <2>0, <2>1, <2>2, <2>3, <3>4 DEF Own, TaintOf
    <3>6. SanitizersAfter(s)'
      BY <1>2, <2>1, <2>2, <3>2 DEF Own, SanitizersAfter
    <3>7. AllPlain' => SanitizersExactly(s)'
      BY <1>2, <2>1, <2>2, <3>2 DEF Own, SanitizersExactly, AllPlain
    <3> QED
      BY <1>2, <1>3, <2>1, <2>2, <3>1, <3>3, <3>5, <3>6, <3>7, OwnStep DEF Own
  <2>4. CASE from = "leaving"
    <3>1. to = "done" /\ undo[s] = {} /\ \A f : Out(s, f)
      BY <1>1, <1>2, <2>4 DEF Out
    <3>2. \A n \in Names : taint[n] = Builtin[n] \/ Spoilt(n)
      BY <1>2, <2>1, <2>4, <3>1 DEF Own, TaintOf
    <3>3. AllPlain => sanitizers = Sanitized
      <4>1. ASSUME AllPlain PROVE \A f \in Functions : sanitizers[f] = Sanitized[f]
        BY <2>1, <3>1, <4>1 DEF Own, SanitizersExactly
      <4> QED
        BY <4>1, TablesAssumption DEF Typed, Tables, Rows
    <3>4. \A f \in Functions : Shrunk(f)
      BY <2>1, <3>1 DEF Own, SanitizersAfter
    <3>5. Clear'
      BY <1>2, <2>0, <2>2, <3>2, <3>3, <3>4 DEF Clear, AllPlain
    <3> QED
      BY <1>2, <1>3, <2>1, <2>2, <3>1, <3>5, OwnStep
  <2> QED
    BY <2>3, <2>4
<1> QED
  BY <1>4, <1>5

LEMMA TakeOutAlone ==
    ASSUME Typed, Alone, NEW s \in Scans, NEW n \in Names \cup Functions, TakeOut(s, n)
    PROVE  Alone'
<1>1. /\ pc[s] = "leaving" /\ n \in undo[s] /\ ~Bare(config[s]) /\ Others(s) /\ got[s] = <<>>
      /\ UNCHANGED <<config, pc, at, got, previous, injected, overlapped>>
      /\ undo'[s] = undo[s] \ {n} /\ at[s] = Len(config[s]) + 1
  <2>1. /\ pc[s] = "leaving" /\ n \in undo[s] /\ ~Bare(config[s])
        /\ undo' = [undo EXCEPT ![s] = undo[s] \ {n}]
        /\ UNCHANGED <<config, pc, at, got, previous, injected, overlapped>>
    BY TakenOut
  <2>2. Others(s)
    BY TakeOutTyped
  <2> QED
    BY <2>1, <2>2 DEF Typed, TypedCall
<1>2. Active(s) /\ Active(s)' /\ Own(s)
  BY <1>1 DEF Active, Adding, Alone, Bare
<1>3. /\ \A m : TaintAdded(s, m)' = TaintAdded(s, m) /\ FnAdded(s, m)' = FnAdded(s, m)
      /\ \A f : Out(s, f)' <=> (Out(s, f) \/ f = n)
  BY <1>1 DEF TaintAdded, FnAdded, Out
<1>4. GotNow(s)' /\ \A m : Spoilt(m)' = Spoilt(m)
  BY <1>1, SameSpoilt DEF GotNow
<1>5. CASE n \in Names
  <2>1. TakesTaint(s, n)
    BY <1>5, TakenOut
  <2>2. TaintAdded(s, n) # {}
    BY <1>1, <2>1, Configs DEF TakesTaint, TaintAdded
  <2>3. ~Spoilt(n) => previous[s][n] = Builtin[n]
    BY <1>1, <1>2, <1>5, <2>2 DEF Own, TaintOf
  <2>4. /\ (~Spoilt(n) => taint'[n] = Builtin[n]) /\ sanitizers' = sanitizers
        /\ \A m \in Names : m # n => taint'[m] = taint[m]
    BY <1>5, <2>1, <2>3 DEF TakesTaint, Typed, Tables
  <2>5. TaintOf(s)'
    BY <1>1, <1>2, <1>3, <1>4, <2>4 DEF Own, TaintOf
  <2>6. \A f \in Functions : f # n
    BY <1>5, TablesAssumption
  <2>7. \A f \in Functions : (Out(s, f)' <=> Out(s, f)) /\ (Shrunk(f)' <=> Shrunk(f))
    BY <1>3, <2>4, <2>6 DEF Shrunk
  <2>8. SanitizersAfter(s)'
    BY <1>1, <1>2, <2>4, <2>7 DEF Own, SanitizersAfter
  <2>9. AllPlain' => SanitizersExactly(s)'
    BY <1>1, <1>2, <1>3, <2>4, <2>7 DEF Own, SanitizersExactly, AllPlain
  <2> QED
    BY <1>1, <1>2, <1>4, <2>5, <2>8, <2>9, OwnStep DEF Own
<1>6. CASE n \notin Names
  <2>1. TakesSanitizer(s, n)
    BY <1>6, TakenOut
  <2>2. n \in Functions /\ taint' = taint /\ injected[s][n] # None /\ ~Out(s, n)
    BY <1>1, <2>1 DEF TakesSanitizer, Out
  <2>3. TaintOf(s)'
    BY <1>1, <1>2, <1>3, <1>4, <1>6, <2>2 DEF Own, TaintOf
  <2>4. \A f \in Functions : f # n => sanitizers'[f] = sanitizers[f]
    BY <2>1, <2>2 DEF TakesSanitizer, Typed, Tables
  <2>5. CASE injected[s][n] = Whole
    <3>1. Sanitized[n] = None
      BY <1>2, <2>2, <2>5 DEF Own, SanitizersAfter
    <3>2. sanitizers'[n] = None
      BY <2>1, <2>2, <2>5 DEF TakesSanitizer, Typed, Tables
    <3>3. \A f \in Functions : Out(s, f) \/ f = n => Shrunk(f)'
      BY <1>2, <2>4, <3>1, <3>2 DEF Own, SanitizersAfter, Shrunk
    <3>4. SanitizersAfter(s)'
      BY <1>1, <1>2, <1>3, <2>4, <3>3 DEF Own, SanitizersAfter
    <3>5. AllPlain' => SanitizersExactly(s)'
      BY <1>1, <1>2, <1>3, <2>4, <3>1, <3>2 DEF Own, SanitizersExactly, AllPlain
    <3> QED
      BY <1>1, <1>2, <1>4, <2>3, <3>4, <3>5, OwnStep DEF Own
  <2>6. CASE injected[s][n] # Whole
    <3>1. /\ Sanitized[n] # None /\ sanitizers[n] # None
          /\ sanitizers[n] \subseteq Sanitized[n] \cup injected[s][n]
      BY <1>2, <2>2, <2>6 DEF Own, SanitizersAfter
    <3>2. sanitizers'[n] = sanitizers[n] \ injected[s][n] /\ sanitizers'[n] \in CweSets
      BY <2>1, <2>2, <2>6, <3>1 DEF TakesSanitizer, Typed, Tables
    <3>3. sanitizers'[n] # None
      BY <3>2, TablesAssumption
    <3>4. \A f \in Functions : Out(s, f) \/ f = n => Shrunk(f)'
      BY <1>2, <2>4, <3>1, <3>2, <3>3 DEF Own, SanitizersAfter, Shrunk
    <3>5. SanitizersAfter(s)'
      BY <1>1, <1>2, <1>3, <2>4, <3>4 DEF Own, SanitizersAfter
    <3>6. ASSUME AllPlain PROVE sanitizers'[n] = Sanitized[n]
      <4>1. FnAdded(s, n) # {}
        BY <1>2, <2>2, <3>6 DEF Own, SanitizersExactly
      <4>2. PICK i \in FnAdded(s, n) : TRUE
        BY <4>1
      <4>3. injected[s][n] = config[s][i].value /\ sanitizers[n] = Sanitized[n] \cup config[s][i].value
        BY <1>2, <2>2, <3>1, <3>6, <4>2 DEF Own, SanitizersExactly
      <4>4. config[s][i].value \cap Sanitized[n] = {}
        BY <2>2, <3>1, <3>6, <4>2 DEF AllPlain, PlainSanitizers, SanitizersOf, FnAdded
      <4> QED
        BY <3>2, <4>3, <4>4
    <3>7. AllPlain' => SanitizersExactly(s)'
      BY <1>1, <1>2, <1>3, <2>4, <3>6 DEF Own, SanitizersExactly, AllPlain
    <3> QED
      BY <1>1, <1>2, <1>4, <2>3, <3>5, <3>7, OwnStep DEF Own
  <2> QED
    BY <2>5, <2>6
<1> QED
  BY <1>5, <1>6

(* No entry before the one at hand has its kind and name: for a source or  *)
(* a sink that is not named twice, for a sanitizer in a plain              *)
(* configuration.                                                          *)
LEMMA NotAddedYet ==
    ASSUME Typed, NEW s \in Scans, got[s] # <<>>
    PROVE  /\ Current(s).kind = "taint" /\ ~Spoilt(Current(s).name) => TaintAdded(s, Current(s).name) = {}
           /\ AllPlain /\ Current(s).kind # "taint" => FnAdded(s, Current(s).name) = {}
<1>1. at[s] \in DOMAIN config[s] /\ at[s] \in Nat
  BY CurrentEntry, Configs
<1>2. Current(s).kind = "taint" /\ ~Spoilt(Current(s).name) => TaintAdded(s, Current(s).name) = {}
  <2>1. ~Spoilt(Current(s).name) => ~Twice(config[s], Current(s).name)
    BY CurrentEntry DEF Spoilt
  <2> QED
    BY <1>1, <2>1, Configs DEF TaintAdded, Current
<1>3. ASSUME AllPlain, Current(s).kind # "taint" PROVE FnAdded(s, Current(s).name) = {}
  BY <1>1, <1>3, Configs DEF FnAdded, Current, AllPlain, PlainSanitizers, SanitizersOf
<1> QED
  BY <1>2, <1>3

LEMMA PutTaintAlone ==
    ASSUME Typed, Alone, NEW s \in Scans, Adds(s), PutTaint(s)
    PROVE  Alone'
<1>0. PICK m, w : m = Current(s).name /\ w = Current(s).value
  OBVIOUS
<1>1. /\ Others(s) /\ config' = config /\ got'[s] = <<>> /\ got[s] # <<>> /\ at[s] \in DOMAIN config[s]
      /\ pc[s] = "adding" /\ pc' = pc
  BY AddsTyped, CurrentEntry DEF Adds, Typed, PutTaint
<1>2. Active(s) /\ Active(s)' /\ Own(s)
  BY <1>1, NotBare DEF Active, Alone, Bare
<1>3. /\ Current(s).kind = "taint" /\ m \in Names
      /\ previous'[s][m] = got[s][1] /\ \A n \in Names : n # m => previous'[s][n] = previous[s][n]
      /\ taint'[m] = w /\ \A n \in Names : n # m => taint'[n] = taint[n]
      /\ sanitizers' = sanitizers /\ injected' = injected
      /\ at' = [at EXCEPT ![s] = at[s] + 1]
  BY <1>0, <1>1, CurrentEntry DEF PutTaint, Read, Typed, Tables
<1>12. \A n : Spoilt(n)' = Spoilt(n)
  BY <1>1, SameSpoilt
<1>4. ~Spoilt(m) => TaintAdded(s, m)' = {at[s]} /\ config[s][at[s]].value = w
  <2>1. TaintAdded(s, m)' = TaintAdded(s, m) \cup {at[s]}
    BY <1>0, <1>1, <1>3, NextEntry
  <2>2. ~Spoilt(m) => TaintAdded(s, m) = {}
    BY <1>0, <1>1, <1>3, NotAddedYet
  <2>3. config[s][at[s]].value = w
    BY <1>0 DEF Current
  <2> QED
    BY <2>1, <2>2, <2>3
<1>5. /\ \A n : n # m => TaintAdded(s, n)' = TaintAdded(s, n)
      /\ \A f : FnAdded(s, f)' = FnAdded(s, f)
  BY <1>0, <1>1, <1>3, NextEntry
<1>6. ~Spoilt(m) => previous'[s][m] = Builtin[m]
  BY <1>0, <1>1, <1>2, <1>3, NotAddedYet DEF Own, GotNow, TaintOf
<1>7. TaintOf(s)'
  <2>1. ASSUME NEW n \in Names, n # m, ~Spoilt(n), TaintAdded(s, n) = {} PROVE taint'[n] = Builtin[n]
    BY <1>1, <1>2, <1>3, <2>1 DEF Own, TaintOf
  <2>2. ASSUME NEW n \in Names, n # m, ~Spoilt(n), TaintAdded(s, n) # {}
        PROVE  previous'[s][n] = Builtin[n] /\ \A i \in TaintAdded(s, n) : taint'[n] = config[s][i].value
    BY <1>1, <1>2, <1>3, <2>2 DEF Own, TaintOf
  <2>3. ~Spoilt(m) => taint'[m] = w /\ TaintAdded(s, m)' # {} /\ \A i \in TaintAdded(s, m)' : config[s][i].value = w
    BY <1>3, <1>4
  <2>4. pc'[s] # "leaving" /\ config' = config /\ \A n : n # m => TaintAdded(s, n)' = TaintAdded(s, n)
    BY <1>1, <1>5
  <2>5. SUFFICES ASSUME NEW n \in Names, ~Spoilt(n)
                 PROVE  IF TaintAdded(s, n)' = {} THEN taint'[n] = Builtin[n]
                        ELSE previous'[s][n] = Builtin[n] /\ \A i \in TaintAdded(s, n)' : taint'[n] = config[s][i].value
    BY <1>12, <2>4 DEF TaintOf
  <2>6. CASE n = m
    BY <1>6, <2>3, <2>5, <2>6
  <2>7. CASE n # m
    BY <2>1, <2>2, <2>4, <2>5, <2>7
  <2> QED
    BY <2>6, <2>7
<1>8. \A f \in Functions : (Out(s, f)' <=> Out(s, f)) /\ (Shrunk(f)' <=> Shrunk(f))
  BY <1>1, <1>3 DEF Out, Shrunk
<1>9. SanitizersAfter(s)'
  BY <1>1, <1>2, <1>3, <1>8 DEF Own, SanitizersAfter
<1>10. AllPlain' => SanitizersExactly(s)'
  BY <1>1, <1>2, <1>3, <1>5, <1>8 DEF Own, SanitizersExactly, AllPlain
<1>11. GotNow(s)'
  BY <1>1 DEF GotNow
<1> QED
  BY <1>1, <1>2, <1>7, <1>9, <1>10, <1>11, OwnStep DEF Own

(* The addition of a sanitizer f that leaves the other ones as they are.   *)
LEMMA SanitizerAlone ==
    ASSUME Typed, Alone, NEW s \in Scans, Adds(s), pc' = pc, NEW f \in Functions,
           taint' = taint, previous' = previous,
           \A n : TaintAdded(s, n)' = TaintAdded(s, n),
           \A g \in Functions : g # f => sanitizers'[g] = sanitizers[g] /\ injected'[s][g] = injected[s][g],
           injected'[s][f] # None,
           injected'[s][f] = Whole => Sanitized[f] = None /\ sanitizers'[f] # None,
           injected'[s][f] # Whole =>
              Sanitized[f] # None /\ sanitizers'[f] # None /\ sanitizers'[f] \subseteq Sanitized[f] \cup injected'[s][f],
           AllPlain =>
              /\ \A g \in Functions : g # f => FnAdded(s, g)' = FnAdded(s, g)
              /\ FnAdded(s, f)' # {}
              /\ \A i \in FnAdded(s, f)' :
                    IF Sanitized[f] = None THEN injected'[s][f] = Whole /\ sanitizers'[f] = config[s][i].value
                    ELSE injected'[s][f] = config[s][i].value /\ sanitizers'[f] = Sanitized[f] \cup config[s][i].value
    PROVE  Alone'
<1>1. Others(s) /\ config' = config /\ got'[s] = <<>> /\ pc[s] = "adding"
  BY AddsTyped DEF Adds, Typed
<1>2. Active(s) /\ Active(s)' /\ Own(s)
  BY <1>1, NotBare DEF Active, Alone, Bare
<1>3. GotNow(s)' /\ TaintOf(s)'
  BY <1>1, <1>2, SameSpoilt DEF Own, GotNow, TaintOf
<1>4. \A g \in Functions : g # f => (Out(s, g)' <=> Out(s, g)) /\ (Shrunk(g)' <=> Shrunk(g))
  BY <1>1 DEF Out, Shrunk
<1>5. ~Out(s, f)'
  BY <1>1 DEF Out
<1>6. SanitizersAfter(s)'
  BY <1>2, <1>4, <1>5 DEF Own, SanitizersAfter
<1>7. AllPlain' => SanitizersExactly(s)'
  BY <1>1, <1>2, <1>4, <1>5 DEF Own, SanitizersExactly, AllPlain
<1> QED
  BY <1>1, <1>2, <1>3, <1>6, <1>7, OwnStep DEF Own

LEMMA PutSanitizerAlone ==
    ASSUME Typed, Alone, NEW s \in Scans, Adds(s), PutSanitizer(s)
    PROVE  Alone'
<1>0. PICK f, w : f = Current(s).name /\ w = Current(s).value
  OBVIOUS
<1>1. /\ config' = config /\ got[s] # <<>> /\ at[s] \in DOMAIN config[s] /\ pc' = pc /\ pc[s] = "adding"
      /\ taint' = taint /\ previous' = previous /\ at' = [at EXCEPT ![s] = at[s] + 1]
      /\ got[s][1] = None /\ Current(s).kind # "taint" /\ f \in Functions /\ w \in CweSets
  BY <1>0, CurrentEntry DEF Adds, PutSanitizer, Read
<1>2. /\ sanitizers'[f] = w /\ injected'[s][f] = Whole
      /\ \A g \in Functions : g # f => sanitizers'[g] = sanitizers[g] /\ injected'[s][g] = injected[s][g]
  BY <1>0, <1>1 DEF PutSanitizer, Typed, Tables
<1>3. Own(s) /\ Active(s)
  BY <1>1, NotBare DEF Alone
<1>4. sanitizers[f] = None
  BY <1>0, <1>1, <1>3 DEF Own, GotNow
<1>5. Sanitized[f] = None
  BY <1>1, <1>3, <1>4 DEF Own, SanitizersAfter, Shrunk
<1>6. w # None /\ Whole # None
  BY <1>1, TablesAssumption
<1>7. \A n : TaintAdded(s, n)' = TaintAdded(s, n)
  BY <1>0, <1>1, NextEntry
<1>8. ASSUME AllPlain
      PROVE  /\ \A g \in Functions : g # f => FnAdded(s, g)' = FnAdded(s, g)
             /\ FnAdded(s, f)' = {at[s]} /\ config[s][at[s]].value = w
  <2>1. FnAdded(s, f)' = FnAdded(s, f) \cup {at[s]} /\ \A g : g # f => FnAdded(s, g)' = FnAdded(s, g)
    BY <1>0, <1>1, NextEntry
  <2>2. FnAdded(s, f) = {}
    BY <1>0, <1>1, <1>8, NotAddedYet
  <2>3. config[s][at[s]].value = w
    BY <1>0 DEF Current
  <2> QED
    BY <2>1, <2>2, <2>3
<1> QED
  BY <1>1, <1>2, <1>5, <1>6, <1>7, <1>8, SanitizerAlone

LEMMA GrowSanitizerAlone ==
    ASSUME Typed, Alone, NEW s \in Scans, Adds(s), GrowSanitizer(s)
    PROVE  Alone'
<1>0. PICK f, w : f = Current(s).name /\ w = Current(s).value
  OBVIOUS
<1>b. PICK k : k = IF injected[s][f] = None THEN w ELSE injected[s][f] \cup w
  OBVIOUS
<1>1. /\ config' = config /\ got[s] # <<>> /\ at[s] \in DOMAIN config[s] /\ pc' = pc /\ pc[s] = "adding"
      /\ taint' = taint /\ previous' = previous /\ at' = [at EXCEPT ![s] = at[s] + 1]
      /\ got[s][1] # None /\ Current(s).kind # "taint" /\ f \in Functions /\ w \in CweSets
      /\ injected[s][f] # Whole /\ sanitizers' = Grown(s)
  BY <1>0, CurrentEntry DEF Adds, GrowSanitizer, Read
<1>2. injected'[s][f] = k /\ \A g \in Functions : g # f => injected'[s][g] = injected[s][g]
  BY <1>0, <1>b, <1>1 DEF GrowSanitizer, Typed, Tables
<1>3. Own(s) /\ Active(s)
  BY <1>1, NotBare DEF Alone
<1>4. sanitizers[f] # None
  BY <1>0, <1>1, <1>3 DEF Own, GotNow
<1>5. /\ sanitizers'[f] = sanitizers[f] \cup w /\ sanitizers'[f] \in CweSets
      /\ \A g \in Functions : g # f => sanitizers'[g] = sanitizers[g]
  <2>1. sanitizers[f] \cup w \in CweSets /\ Grown(s) = [sanitizers EXCEPT ![f] = sanitizers[f] \cup w]
    BY <1>0, <1>1, <1>4, GrownTable
  <2> QED
    BY <1>1, <2>1 DEF Typed, Tables
<1>6. k \in CweSets /\ w \subseteq k /\ (injected[s][f] # None => injected[s][f] \subseteq k)
  <2>1. injected[s][f] \in Rows
    BY <1>1 DEF Typed, Tables
  <2>2. \A A, B \in CweSets : A \cup B \in CweSets
    BY DEF CweSets
  <2> QED
    BY <1>b, <1>1, <2>1, <2>2 DEF Rows
<1>7. k # None /\ k # Whole /\ sanitizers'[f] # None
  BY <1>5, <1>6, TablesAssumption
<1>8. Sanitized[f] # None /\ sanitizers'[f] \subseteq Sanitized[f] \cup k
  <2>1. CASE injected[s][f] = None
    <3>1. Shrunk(f)
      BY <1>1, <1>3, <2>1 DEF Own, SanitizersAfter, Out
    <3> QED
      BY <1>4, <1>5, <1>6, <3>1 DEF Shrunk
  <2>2. CASE injected[s][f] # None
    <3>1. Sanitized[f] # None /\ sanitizers[f] \subseteq Sanitized[f] \cup injected[s][f]
      BY <1>1, <1>3, <2>2 DEF Own, SanitizersAfter, Out
    <3> QED
      BY <1>5, <1>6, <2>2, <3>1
  <2> QED
    BY <2>1, <2>2
<1>9. \A n : TaintAdded(s, n)' = TaintAdded(s, n)
  BY <1>0, <1>1, NextEntry
<1>10. ASSUME AllPlain
       PROVE  /\ \A g \in Functions : g # f => FnAdded(s, g)' = FnAdded(s, g)
              /\ FnAdded(s, f)' = {at[s]} /\ config[s][at[s]].value = w
              /\ k = w /\ sanitizers'[f] = Sanitized[f] \cup w
  <2>1. FnAdded(s, f)' = FnAdded(s, f) \cup {at[s]} /\ \A g : g # f => FnAdded(s, g)' = FnAdded(s, g)
    BY <1>0, <1>1, NextEntry
  <2>2. FnAdded(s, f) = {}
    BY <1>0, <1>1, <1>10, NotAddedYet
  <2>3. config[s][at[s]].value = w
    BY <1>0 DEF Current
  <2>4. injected[s][f] = None
    BY <1>1, <1>3, <1>10, <2>2 DEF Own, SanitizersExactly
  <2>5. sanitizers[f] = Sanitized[f]
    BY <1>1, <1>3, <1>10, <2>4 DEF Own, SanitizersExactly, Out
  <2>6. k = w
    BY <1>b, <2>4
  <2> QED
    BY <1>5, <2>1, <2>2, <2>3, <2>5, <2>6
<1> QED
  BY <1>1, <1>2, <1>5, <1>7, <1>8, <1>9, <1>10, SanitizerAlone

(* Naming a sanitizer twice: within a file only, and not plain.            *)
LEMMA AddTwiceAlone ==
    ASSUME Typed, Alone, NEW s \in Scans, Adds(s), AddTwice(s)
    PROVE  ~AllPlain /\ (pc' = pc => Alone')
<1>0. PICK f, w : f = Current(s).name /\ w = Current(s).value
  OBVIOUS
<1>1. /\ config' = config /\ got[s] # <<>> /\ at[s] \in DOMAIN config[s] /\ pc[s] = "adding"
      /\ taint' = taint /\ previous' = previous /\ injected' = injected
      /\ Current(s).kind # "taint" /\ f \in Functions /\ w \in CweSets
      /\ injected[s][f] = Whole /\ sanitizers' = Grown(s) /\ Others(s) /\ got'[s] = <<>>
  BY <1>0, CurrentEntry, AddsTyped DEF Adds, AddTwice, Read, Typed
<1>2. Own(s) /\ Active(s) /\ ~Out(s, f)
  BY <1>1, NotBare, TablesAssumption DEF Alone, Out
<1>3. ~AllPlain
  BY <1>0, <1>1, <1>2, NotAddedYet, TablesAssumption DEF Own, SanitizersExactly
<1>4. ASSUME pc' = pc PROVE Alone'
  <2>1. sanitizers[f] # None /\ Sanitized[f] = None
    BY <1>1, <1>2 DEF Own, SanitizersAfter
  <2>2. sanitizers'[f] # None /\ \A g \in Functions : g # f => sanitizers'[g] = sanitizers[g]
    <3>1. sanitizers[f] \cup w \in CweSets /\ Grown(s) = [sanitizers EXCEPT ![f] = sanitizers[f] \cup w]
      BY <1>0, <1>1, <2>1, GrownTable
    <3>2. sanitizers[f] \cup w # None
      BY <3>1, TablesAssumption
    <3> QED
      BY <1>1, <3>1, <3>2 DEF Typed, Tables
  <2>3. \A n : TaintAdded(s, n)' = TaintAdded(s, n)
    <3>1. PICK i \in (at[s] + 1)..(Len(config[s]) + 1) :
                 at' = [at EXCEPT ![s] = i] /\ \A j \in (at[s] + 1)..(i - 1) : config[s][j].kind = "file"
      BY <1>0, <1>1, <1>4 DEF AddTwice, Typed
    <3>2. at'[s] = i /\ at[s] \in Nat /\ i \in Nat /\ at[s] < i
      BY <1>1, <3>1, Configs DEF Typed
    <3>3. ASSUME NEW j \in DOMAIN config[s], config[s][j].kind = "taint"
          PROVE  j < i <=> j < at[s]
      BY <1>0, <1>1, <3>1, <3>2, <3>3, Configs DEF Current
    <3> QED
      BY <1>1, <3>2, <3>3 DEF TaintAdded
  <2>4. Active(s)' /\ \A g \in Functions : Out(s, g)' <=> Out(s, g)
    BY <1>1, <1>2, <1>4 DEF Active, Out, Bare
  <2>5. \A g \in Functions : g # f => (Shrunk(g)' <=> Shrunk(g))
    BY <2>2 DEF Shrunk
  <2>6. SanitizersAfter(s)'
    BY <1>1, <1>2, <2>1, <2>2, <2>4, <2>5 DEF Own, SanitizersAfter
  <2>7. TaintOf(s)' /\ GotNow(s)'
    BY <1>0, <1>1, <1>2, <1>4, <2>3, SameSpoilt DEF Own, TaintOf, GotNow
  <2>8. AllPlain' => FALSE
    BY <1>1, <1>3 DEF AllPlain
  <2> QED
    BY <1>1, <1>2, <1>4, <2>4, <2>6, <2>7, <2>8, OwnStep DEF Own
<1> QED
  BY <1>3, <1>4

(* The calls' inductive invariant.                                         *)
LEMMA StepInv == IInv /\ [Next]_vars => IInv'
<1> SUFFICES ASSUME IInv, [Next]_vars PROVE IInv'
  OBVIOUS
<1>1. Typed /\ Typed' /\ Builtins'
  BY StepTyped, BuiltinsStep DEF IInv
<1>2. ASSUME Alone, ~overlapped' PROVE Quiet' => Alone'
  <2>1. CASE UNCHANGED vars
    <3>1. \A s \in Scans : (Active(s)' <=> Active(s)) /\ (Own(s)' <=> Own(s))
      BY <2>1 DEF vars, Active, Own, GotNow, TaintOf, SanitizersAfter, SanitizersExactly, AllPlain, Shrunk, Out,
                  TaintAdded, FnAdded, Current, Bare, Spoilt
    <3>2. Clear' <=> Clear
      BY <2>1 DEF vars, Clear, Shrunk, AllPlain, Spoilt
    <3> QED
      BY <1>2, <2>1, <3>1, <3>2 DEF vars, Alone
  <2>2. ASSUME NEW s \in Scans, Adds(s), AddTwice(s), Quiet' PROVE pc' = pc
    <3>1. pc[s] = "adding"
      BY <2>2 DEF Adds
    <3> QED
      BY <1>1, <2>2, <3>1 DEF AddTwice, Quiet, Typed
  <2> QED
    BY <1>1, <1>2, <2>1, <2>2, Steps, BeginAlone, GetAlone, MovedAlone, PutTaintAlone, PutSanitizerAlone,
       GrowSanitizerAlone, AddTwiceAlone, TakeOutAlone
<1>3. Quiet' => Alone'
  <2>1. Quiet' => Quiet /\ ~overlapped'
    BY <1>1, QuietBefore DEF Quiet
  <2> QED
    BY <1>2, <2>1 DEF IInv
<1>4. ASSUME AllPlain', ~overlapped' PROVE Quiet'
  <2>1. AllPlain /\ ~overlapped
    <3>1. config' = config
      BY DEF Next, Step, Begin, Get, PutTaint, PutSanitizer, GrowSanitizer, AddTwice, Read, Added, Analysed,
             ClassicEnds, Leave, TimesOut, ThreadEnds, TakeOut, Left, vars
    <3>2. ~overlapped
      BY <1>4 DEF Next, Step, Begin, Get, PutTaint, PutSanitizer, GrowSanitizer, AddTwice, Read, Added, Analysed,
             ClassicEnds, Leave, TimesOut, ThreadEnds, TakeOut, Left, vars
    <3> QED
      BY <1>4, <3>1, <3>2 DEF AllPlain
  <2>2. Alone /\ Quiet
    BY <2>1 DEF IInv
  <2>3. ASSUME NEW t \in Scans, pc'[t] = "raised" PROVE FALSE
    <3>1. pc[t] # "raised"
      BY <2>2 DEF Quiet
    <3>2. ASSUME NEW s \in Scans, Begin(s) \/ Moved(s) PROVE FALSE
      BY <1>1, <2>3, <3>1, <3>2 DEF Begin, Moved, Moves, Typed
    <3>3. ASSUME NEW s \in Scans, Get(s) PROVE FALSE
      BY <2>3, <3>1, <3>3 DEF Get
    <3>4. ASSUME NEW s \in Scans, Adds(s), PutTaint(s) \/ PutSanitizer(s) \/ GrowSanitizer(s) \/ AddTwice(s)
          PROVE  FALSE
      BY <1>1, <2>1, <2>2, <2>3, <3>1, <3>4, AddTwiceAlone DEF PutTaint, PutSanitizer, GrowSanitizer
    <3>5. ASSUME NEW s \in Scans, NEW n \in Names \cup Functions, TakeOut(s, n) PROVE FALSE
      BY <2>3, <3>1, <3>5 DEF TakeOut
    <3>6. CASE UNCHANGED vars
      BY <2>3, <3>1, <3>6 DEF vars
    <3> QED
      BY <1>1, <3>2, <3>3, <3>4, <3>5, <3>6, Steps
  <2> QED
    BY <1>4, <2>3 DEF Quiet
<1> QED
  BY <1>1, <1>3, <1>4 DEF IInv

LEMMA Invariance == Spec => []IInv
BY InitInv, StepInv, PTL DEF Spec

(* Calls that do not overlap and do not raise leave the tables as they     *)
(* found them, but for configurations that are not plain, and then nothing *)
(* of a configuration is left in them but a source that it names twice.    *)
THEOREM RestoredAloneHolds == Spec => []RestoredAlone
<1>1. IInv => RestoredAlone
  <2> SUFFICES ASSUME IInv, Quiet, \A s \in Scans : pc[s] \in {"idle", "done"}
               PROVE  Clear /\ \A n : Spoilt(n) => \E s \in Scans : pc[s] = "done" /\ Twice(config[s], n)
    BY DEF RestoredAlone, Clear, Shrunk, AllPlain
  <2>1. Clear
    BY DEF IInv, Alone, Active, Adding
  <2> QED
    BY <2>1 DEF Spoilt
<1> QED
  BY <1>1, Invariance, PTL

(* An analysis works with the built-in entries and its own, as long as     *)
(* plain calls do not overlap.                                             *)
THEOREM OwnTablesAloneHolds == Spec => []OwnTablesAlone
<1>1. IInv => OwnTablesAlone
  <2> SUFFICES ASSUME IInv, ~overlapped, AllPlain, \A n \in Names : ~Spoilt(n),
                      NEW s \in Scans, pc[s] \in {"scanning", "late", "classic"}, ~Bare(config[s])
               PROVE  /\ \A n \in Names :
                            taint[n] \in IF n \in Kept(s)
                                         THEN {config[s][i].value : i \in {j \in DOMAIN config[s] : config[s][j].name = n}}
                                         ELSE {Builtin[n]}
                      /\ \A f \in Functions :
                            sanitizers[f] =
                                IF Sanitized[f] = None /\ Telling(config[s], f) = {} THEN None
                                ELSE Told(config[s], f) \cup IF Sanitized[f] = None THEN {} ELSE Sanitized[f]
    BY DEF OwnTablesAlone, AllPlain, Plain, Spoilt
  <2>1. Own(s) /\ SanitizersExactly(s)
    BY DEF IInv, Alone, Active, Adding, Own
  <2>2. \A i \in DOMAIN config[s] : i < at[s]
    BY Configs DEF IInv, Typed, TypedCall
  <2>3. ASSUME NEW n \in Names
        PROVE  taint[n] \in IF n \in Kept(s)
                            THEN {config[s][i].value : i \in {j \in DOMAIN config[s] : config[s][j].name = n}}
                            ELSE {Builtin[n]}
    <3>1. n \in Kept(s) <=> TaintAdded(s, n) # {}
      BY <2>2, TablesAssumption DEF Kept, TaintAdded
    <3>2. TaintAdded(s, n) \subseteq {j \in DOMAIN config[s] : config[s][j].name = n}
      BY DEF TaintAdded
    <3>3. CASE TaintAdded(s, n) = {}
      BY <2>1, <3>1, <3>3 DEF Own, TaintOf
    <3>4. CASE TaintAdded(s, n) # {}
      <4>1. PICK i \in TaintAdded(s, n) : TRUE
        BY <3>4
      <4>2. taint[n] = config[s][i].value
        BY <2>1, <3>4, <4>1 DEF Own, TaintOf
      <4> QED
        BY <3>1, <3>2, <4>1, <4>2
    <3> QED
      BY <3>3, <3>4
  <2>4. ASSUME NEW f \in Functions
        PROVE  sanitizers[f] = IF Sanitized[f] = None /\ Telling(config[s], f) = {} THEN None
                               ELSE Told(config[s], f) \cup IF Sanitized[f] = None THEN {} ELSE Sanitized[f]
    <3>1. Telling(config[s], f) = FnAdded(s, f)
      BY <2>2 DEF Telling, SanitizersOf, FnAdded
    <3>2. CASE FnAdded(s, f) = {}
      <4>1. sanitizers[f] = Sanitized[f]
        BY <2>1, <3>2 DEF SanitizersExactly, Out
      <4>2. Told(config[s], f) = {}
        BY <3>1, <3>2 DEF Told
      <4> QED
        BY <3>1, <3>2, <4>1, <4>2
    <3>3. ASSUME NEW i \in FnAdded(s, f)
          PROVE  sanitizers[f] = Told(config[s], f) \cup IF Sanitized[f] = None THEN {} ELSE Sanitized[f]
      <4>1. ~Out(s, f)
        BY <2>1 DEF SanitizersExactly, Out
      <4>2. IF Sanitized[f] = None THEN sanitizers[f] = config[s][i].value
            ELSE sanitizers[f] = Sanitized[f] \cup config[s][i].value
        BY <2>1, <4>1 DEF SanitizersExactly
      <4>3. Telling(config[s], f) = {i}
        BY <3>1 DEF FnAdded, AllPlain, PlainSanitizers, SanitizersOf
      <4>4. Told(config[s], f) = config[s][i].value
        BY <4>3 DEF Told
      <4> QED
        BY <4>2, <4>4
    <3> QED
      BY <3>1, <3>2, <3>3
  <2> QED
    BY <2>3, <2>4
<1> QED
  BY <1>1, Invariance, PTL
=============================================================================
