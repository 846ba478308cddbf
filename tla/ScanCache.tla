----------------------------- MODULE ScanCache -----------------------------
(***************************************************************************)
(* What cache/incremental.py promises the command line, with no run, no    *)
(* hash and no import relation in sight: a memo table of findings, one     *)
(* entry learnt at a time from the texts as they are, and never an answer  *)
(* from it that the texts no longer bear out.  IncrementalScan implements  *)
(* it.                                                                     *)
(***************************************************************************)
CONSTANTS
    Files,       \* the files of the scanned tree
    Contents,    \* the texts a file may have
    Defining,    \* the texts that define the function other files import
    None         \* no findings, no text

VARIABLES
    text,        \* the text of each file
    memo,        \* the findings remembered of each file
    served       \* the files whose findings a run takes from the memo

vars == <<text, memo, served>>

(* Findings of a file are good while its text, and the text of every       *)
(* import they were computed with, is the one they were computed from.     *)
(* What is known of an import's function need not be so when the import    *)
(* has the function no more.                                               *)
Good(f) ==
    /\ memo[f] # None
    /\ memo[f].text = text[f]
    /\ \A g \in Files : /\ memo[f].view[g] \in {None, text[g]}
                        /\ text[g] \in Defining => memo[f].helpers[g] \in {None, text[g]}

Init ==
    /\ text \in [Files -> Contents]
    /\ memo = [f \in Files |-> None]
    /\ served = {}

(* What is served next is good, though not all that is good is served.     *)
Serve == served' \subseteq {f \in Files : Good(f)'}

Edit(f) ==
    /\ \E c \in Contents : text' = [text EXCEPT ![f] = c]
    /\ UNCHANGED memo

(* A file is analysed, and what is remembered of it is good.               *)
Learn(f) ==
    /\ Good(f)'
    /\ \A g \in Files \ {f} : memo'[g] = memo[g]
    /\ UNCHANGED text

Next == Serve /\ (UNCHANGED <<text, memo>> \/ \E f \in Files : Edit(f) \/ Learn(f))

Spec == Init /\ [][Next]_vars
=============================================================================
