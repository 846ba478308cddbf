---------------------------- MODULE MCGuardedFix ----------------------------
(* GuardedFix on two files with a fixable finding at line 1 of each.  The  *)
(* fix of <<1, 1>> brings a finding at line 2 of its own file that only    *)
(* the first scan drops, or one of the other file by way of the graph; in  *)
(* the latter tree the fix of <<2, 1>> breaks its file.  The finding       *)
(* <<2, 1>> may be in the baseline from the start.  The first scan of file *)
(* 2 may time out; its chunks show the fixable findings, and those of file *)
(* 1 also <<1, 2>>.  The processes are interchangeable.                    *)
EXTENDS GuardedFix, TLC

Fixed == {<<1, 1>>, <<2, 1>>}

tree0 == [found |-> Fixed, fixable |-> Fixed, brings |-> {}, crosses |-> {}, breaks |-> {}, dropped |-> {}]

MCTrees ==
    {[tree0 EXCEPT !.brings = {<<<<1, 1>>, <<1, 2>>>>}, !.dropped = {<<1, 2>>}],
     [tree0 EXCEPT !.crosses = {<<<<1, 1>>, <<2, 2>>>>}, !.breaks = {<<2, 1>>}]}

MCBaselines == {{}, {<<2, 1>>}}

MCSlow == {{}, {2}}

MCPartials == {Fixed \cup {<<1, 2>>}}

Symmetry == Permutations(Procs)
=============================================================================
