----------------------------- MODULE LspServer -----------------------------
(***************************************************************************)
(* The language server of guardmarly, lsp_server.py: the main thread reads *)
(* one message at a time and runs its handler; didOpen and didChange hand  *)
(* the analysis to the debouncer, whose timers run it in threads of their  *)
(* own; didSave runs it in the main thread.  An analysis writes the        *)
(* findings cache and then publishes, in two steps no lock joins.          *)
(*                                                                         *)
(* The client obeys the protocol: it changes and saves only documents it   *)
(* has opened, saves the text the server already has, and sends nothing    *)
(* but exit after shutdown.                                                *)
(***************************************************************************)
EXTENDS Naturals

CONSTANTS
    Uris,        \* the documents a client may open
    Contents,    \* the texts a document may hold
    Empty,       \* the empty text, which didSave does not analyse
    Analysable,  \* the pairs <<uri, text>> whose analysis ends without an exception
    Timers,      \* bound: timer threads alive at one time
    Main,        \* the main thread
    NoTimer,     \* the debouncer's _timer is None
    NoUri,       \* a thread with no analysis
    NoText       \* no text: a document never opened, no findings, no diagnostics

ASSUME EmptyAssumption == Empty \in Contents
ASSUME ThreadAssumption == Main \notin Timers /\ NoTimer \notin Timers
ASSUME NoneAssumption == NoUri \notin Uris /\ NoText \notin Contents

Threads == Timers \cup {Main}

VARIABLES
    docs,        \* _docs
    cache,       \* _findings_cache: the text whose findings are cached
    published,   \* the text whose diagnostics the client was last sent
    timer,       \* _debouncer._timer
    job,         \* per thread, the call of _analyze_and_publish it is to run or is running
    shutdown,    \* _shutdown
    server,      \* "up" while serve() loops, else how it ended
    overlapped   \* history: the documents of which two texts were analysed at one time

vars == <<docs, cache, published, timer, job, shutdown, server, overlapped>>

Idle == [pc |-> "idle", uri |-> NoUri, text |-> NoText, diags |-> NoText]

(* A call of _analyze_and_publish(uri, text) about to start in state pc;   *)
(* diags is what it will publish, the empty list until the analysis ends.  *)
Call(pc, u, c) == [pc |-> pc, uri |-> u, text |-> c, diags |-> NoText]

JobType ==
    [pc    : {"idle", "armed", "analysing", "publishing"},
     uri   : Uris \cup {NoUri},
     text  : Contents \cup {NoText},
     diags : Contents \cup {NoText}]

(* The type invariant.                                                     *)
TypeOK ==
    /\ docs \in [Uris -> Contents \cup {NoText}]
    /\ cache \in [Uris -> Contents \cup {NoText}]
    /\ published \in [Uris -> Contents \cup {NoText}]
    /\ timer \in Timers \cup {NoTimer}
    /\ job \in [Threads -> JobType]
    /\ shutdown \in BOOLEAN
    /\ server \in {"up", "exit0", "exit1", "eof", "badframe"}
    /\ overlapped \subseteq Uris

Init ==
    /\ docs = [u \in Uris |-> NoText]
    /\ cache = [u \in Uris |-> NoText]
    /\ published = [u \in Uris |-> NoText]
    /\ timer = NoTimer
    /\ job = [t \in Threads |-> Idle]
    /\ shutdown = FALSE
    /\ server = "up"
    /\ overlapped = {}

-----------------------------------------------------------------------------
(* The debouncer.                                                          *)

Armed(t) == job[t].pc = "armed"

(* Timer.cancel(): a timer whose thread has begun its call is not stopped. *)
Cancelled(j) == [t \in Threads |->
    IF t = timer /\ j[t].pc = "armed" THEN Idle ELSE j[t]]

(* Mutant of Schedule: the previous timer is forgotten, not cancelled.     *)
ScheduleOnly(u, c) ==
    \E t \in Timers :
        /\ job[t].pc = "idle"
        /\ timer' = t
        /\ job' = [job EXCEPT ![t] = Call("armed", u, c)]

(* schedule(): cancel the timer there is, whatever it was for, and start a *)
(* new one.                                                                *)
Schedule(u, c) ==
    \E t \in Timers :
        /\ \/ job[t].pc = "idle"
           \/ t = timer /\ Armed(t)
        /\ timer' = t
        /\ job' = [Cancelled(job) EXCEPT ![t] = Call("armed", u, c)]

(* Mutant of CancelPending: _timer is cleared before it is cancelled.      *)
ForgetPending ==
    /\ timer' = NoTimer
    /\ UNCHANGED job

CancelPending ==
    /\ timer' = NoTimer
    /\ job' = Cancelled(job)

-----------------------------------------------------------------------------
(* The main thread: it takes a message when it has no analysis of its own. *)

Receive == server = "up" /\ job[Main].pc = "idle"

InFlight(t) == job[t].pc \in {"analysing", "publishing"}

(* An analysis starts, maybe while one of another text of u is in flight.  *)
Starts(u, c) ==
    overlapped' = IF \E t \in Threads : InFlight(t) /\ job[t].uri = u /\ job[t].text # c
                  THEN overlapped \cup {u} ELSE overlapped

DidOpen(u, c) ==
    /\ Receive /\ ~shutdown
    /\ docs' = [docs EXCEPT ![u] = c]
    /\ Schedule(u, c)
    /\ UNCHANGED <<cache, published, shutdown, server, overlapped>>

(* Mutant of DidChange: an edit joins the pending analysis, as a throttle  *)
(* would have it.                                                          *)
DidChangeThrottled(u, c) ==
    /\ Receive /\ ~shutdown
    /\ docs[u] # NoText
    /\ docs' = [docs EXCEPT ![u] = c]
    /\ IF \E t \in Timers : Armed(t) THEN UNCHANGED <<timer, job>> ELSE Schedule(u, c)
    /\ UNCHANGED <<cache, published, shutdown, server, overlapped>>

DidChange(u, c) ==
    /\ Receive /\ ~shutdown
    /\ docs[u] # NoText
    /\ docs' = [docs EXCEPT ![u] = c]
    /\ Schedule(u, c)
    /\ UNCHANGED <<cache, published, shutdown, server, overlapped>>

(* The save carries the text the document has, or none: either way the     *)
(* content analysed is that text, at once, and the pending timer stays.    *)
DidSave(u) ==
    /\ Receive /\ ~shutdown
    /\ docs[u] \notin {NoText, Empty}
    /\ job' = [job EXCEPT ![Main] = Call("analysing", u, docs[u])]
    /\ Starts(u, docs[u])
    /\ UNCHANGED <<docs, cache, published, timer, shutdown, server>>

Shutdown ==
    /\ Receive /\ ~shutdown
    /\ shutdown' = TRUE
    /\ CancelPending
    /\ UNCHANGED <<docs, cache, published, server, overlapped>>

(* The process ends and its daemon threads end with it.                    *)
Stop(how) ==
    /\ Receive
    /\ server' = how
    /\ job' = [t \in Threads |-> Idle]
    /\ UNCHANGED <<docs, cache, published, timer, shutdown, overlapped>>

Exit == Stop(IF shutdown THEN "exit0" ELSE "exit1")

Eof == Stop("eof")

(* A body that is not JSON, or is empty: read_message returns None as it   *)
(* does for the end of the input.                                          *)
BadFrame == Stop("badframe")

-----------------------------------------------------------------------------
(* The analysis.                                                           *)

(* A timer runs out and its thread starts the call.                        *)
Fire(t) ==
    /\ server = "up" /\ Armed(t)
    /\ job' = [job EXCEPT ![t].pc = "analysing"]
    /\ Starts(job[t].uri, job[t].text)
    /\ UNCHANGED <<docs, cache, published, timer, shutdown, server>>

(* Mutant of Analyse: the findings are cached only of a text that has any. *)
AnalyseNonempty(t) ==
    LET u == job[t].uri
        c == job[t].text
        ok == <<u, c>> \in Analysable
    IN  /\ server = "up" /\ job[t].pc = "analysing"
        /\ cache' = IF ok /\ c # Empty THEN [cache EXCEPT ![u] = c] ELSE cache
        /\ job' = [job EXCEPT ![t].pc = "publishing",
                              ![t].diags = IF ok THEN c ELSE NoText]
        /\ UNCHANGED <<docs, published, timer, shutdown, server, overlapped>>

(* The analyser ends.  An exception leaves the cache as it was and the     *)
(* diagnostics empty.                                                      *)
Analyse(t) ==
    LET u == job[t].uri
        c == job[t].text
        ok == <<u, c>> \in Analysable
    IN  /\ server = "up" /\ job[t].pc = "analysing"
        /\ cache' = IF ok THEN [cache EXCEPT ![u] = c] ELSE cache
        /\ job' = [job EXCEPT ![t].pc = "publishing",
                              ![t].diags = IF ok THEN c ELSE NoText]
        /\ UNCHANGED <<docs, published, timer, shutdown, server, overlapped>>

(* Mutant of Publish: sent only when the analysis did not raise.           *)
PublishOnSuccess(t) ==
    /\ server = "up" /\ job[t].pc = "publishing"
    /\ published' = IF job[t].diags = NoText THEN published
                    ELSE [published EXCEPT ![job[t].uri] = job[t].diags]
    /\ job' = [job EXCEPT ![t] = Idle]
    /\ UNCHANGED <<docs, cache, timer, shutdown, server, overlapped>>

(* The finally block: send_message, one at a time under _out_lock.         *)
Publish(t) ==
    /\ server = "up" /\ job[t].pc = "publishing"
    /\ published' = [published EXCEPT ![job[t].uri] = job[t].diags]
    /\ job' = [job EXCEPT ![t] = Idle]
    /\ UNCHANGED <<docs, cache, timer, shutdown, server, overlapped>>

-----------------------------------------------------------------------------
Message ==
    \/ \E u \in Uris, c \in Contents : DidOpen(u, c) \/ DidChange(u, c)
    \/ \E u \in Uris : DidSave(u)
    \/ Shutdown
    \/ Exit
    \/ Eof
    \/ BadFrame

Analysis ==
    \/ \E t \in Timers : Fire(t)
    \/ \E t \in Threads : Analyse(t) \/ Publish(t)

Next == Message \/ Analysis

Spec == Init /\ [][Next]_vars

(* Timers expire, an analysis the scheduler keeps running ends and a       *)
(* message it has to send is sent.  The client is under no obligation.     *)
Fairness ==
    /\ \A t \in Timers : WF_vars(Fire(t))
    /\ \A t \in Threads : WF_vars(Analyse(t)) /\ WF_vars(Publish(t))

FairSpec == Spec /\ Fairness

-----------------------------------------------------------------------------
(* Properties.                                                             *)

(* schedule() leaves no more than one call pending: the timer that is      *)
(* armed is the one _timer holds, so no analysis is pending that a later   *)
(* schedule() or shutdown could not cancel.                                *)
SinglePending == \A t \in Timers : Armed(t) => t = timer

(* The pending call carries the text its document has now: no edit, save   *)
(* or reopening leaves an analysis of an older text waiting to start.      *)
PendingIsCurrent ==
    \A t \in Timers : Armed(t) => docs[job[t].uri] = job[t].text

(* After shutdown nothing starts: what still runs had started before.      *)
ShutdownQuiesces == shutdown => \A t \in Threads : ~Armed(t)

Outcome(u, c) == IF <<u, c>> \in Analysable THEN c ELSE NoText

Answered(u) == published[u] = Outcome(u, docs[u])

Serving == server = "up" /\ ~shutdown

Opened == {u \in Uris : docs[u] # NoText}

(* Once the client pauses, some document it holds - the only one, or the   *)
(* one whose analysis was scheduled last, which no other cancelled - ends  *)
(* up with the diagnostics of its last text, when analyses of different    *)
(* texts of one document never overlapped.                                 *)
AnsweredWhenAlone ==
    ([](overlapped = {}) /\ <>[][~Message]_vars)
        => <>[](Serving /\ Opened # {} => \E u \in Opened : Answered(u))

(* "Cache findings keyed by URI so codeAction/hover can reference them"    *)
(* (lsp_server.py:239): when no analysis of a document is in flight, the   *)
(* findings hover and code actions use are those of the diagnostics the    *)
(* client sees, unless the analysis that sent these raised, or analyses of *)
(* two texts of the document have overlapped.                              *)
CacheMatchesAlone ==
    server = "up" => \A u \in Uris \ overlapped :
        (published[u] # NoText /\ \A t \in Threads : ~(InFlight(t) /\ job[t].uri = u)) =>
            cache[u] = published[u]

(* "Debounce analysis - cancel any pending analysis for this URI first"    *)
(* (lsp_server.py:252): a step that drops the pending analysis of a        *)
(* document is an edit of that document, or the end of the session.        *)
CancelsOwnOnly ==
    [][\A t \in Timers :
         Armed(t) /\ job'[t].pc # "analysing" /\ server' = "up" /\ ~shutdown'
            => \E s \in Timers : job'[s].pc = "armed" /\ job'[s].uri = job[t].uri]_vars

(* The same comment (lsp_server.py:239) without these exceptions: whenever *)
(* no analysis is in flight, the cache has what was published.             *)
CacheMatchesPublished ==
    (server = "up" /\ \A t \in Threads : ~InFlight(t)) => cache = published

(* "Enter the main message-processing loop (blocks until EOF or exit)"     *)
(* (lsp_server.py:410): the loop ends in no other way.                     *)
EndsOnEofOrExit == server \in {"up", "exit0", "exit1", "eof"}
=============================================================================
