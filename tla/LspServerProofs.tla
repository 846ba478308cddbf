-------------------------- MODULE LspServerProofs --------------------------
(***************************************************************************)
(* Proofs about LspServer for any number of documents, texts and timer     *)
(* threads.  The three safety properties lean on each other: that the      *)
(* pending call is of the current text needs that a second pending call    *)
(* does not survive an edit, which is SinglePending; that shutdown leaves  *)
(* nothing armed needs that the one armed timer is the one it cancels.     *)
(***************************************************************************)
EXTENDS LspServer, TLAPS

(* An armed thread is a timer's and runs for a document.                   *)
ArmedForDocument ==
    \A t \in Threads : Armed(t) => t \in Timers /\ job[t].uri \in Uris

IInv ==
    /\ TypeOK
    /\ ArmedForDocument
    /\ SinglePending
    /\ PendingIsCurrent
    /\ ShutdownQuiesces

(* Cancelling leaves a well-typed thread table with no timer armed that    *)
(* _timer named, and every other thread untouched.                         *)
LEMMA CancelledFacts ==
    ASSUME TypeOK, SinglePending, ArmedForDocument
    PROVE  /\ Cancelled(job) \in [Threads -> JobType]
           /\ \A t \in Threads : Cancelled(job)[t].pc # "armed"
<1>1. Idle \in JobType
  BY DEF Idle, JobType
<1>2. Cancelled(job) \in [Threads -> JobType]
  BY <1>1 DEF Cancelled, TypeOK
<1>3. ASSUME NEW t \in Threads
      PROVE  Cancelled(job)[t].pc # "armed"
  BY DEF Cancelled, Idle, SinglePending, ArmedForDocument, Armed
<1> QED
  BY <1>2, <1>3

(* A schedule() arms one timer, the one _timer then names, for the text it *)
(* was given.                                                              *)
LEMMA ScheduleFacts ==
    ASSUME TypeOK, SinglePending, ArmedForDocument,
           NEW u \in Uris, NEW c \in Contents, Schedule(u, c)
    PROVE  /\ timer' \in Timers
           /\ job' \in [Threads -> JobType]
           /\ job'[timer'] = Call("armed", u, c)
           /\ \A t \in Threads : job'[t].pc = "armed" => t = timer'
<1>1. PICK t \in Timers : /\ timer' = t
                          /\ job' = [Cancelled(job) EXCEPT ![t] = Call("armed", u, c)]
  BY DEF Schedule
<1>2. Call("armed", u, c) \in JobType
  BY DEF Call, JobType
<1>3. t \in Threads
  BY DEF Threads
<1> QED
  BY <1>1, <1>2, <1>3, CancelledFacts

(* Every step keeps the inductive invariant.                               *)
LEMMA StepInv == IInv /\ [Next]_vars => IInv'
<1> SUFFICES ASSUME IInv, [Next]_vars PROVE IInv'
  OBVIOUS
<1> USE DEF IInv
<1>0. Timers \subseteq Threads /\ Main \in Threads /\ Main \notin Timers /\ NoTimer \notin Timers
  BY ThreadAssumption DEF Threads
<1>1. Idle \in JobType /\ Idle.pc # "armed"
  BY DEF Idle, JobType
<1>2. ASSUME NEW u \in Uris, NEW c \in Contents, DidOpen(u, c) \/ DidChange(u, c)
      PROVE  IInv'
  <2>1. /\ docs' = [docs EXCEPT ![u] = c]
        /\ Schedule(u, c)
        /\ ~shutdown
        /\ UNCHANGED <<cache, published, shutdown, server, overlapped>>
    BY <1>2 DEF DidOpen, DidChange
  <2>2. /\ timer' \in Timers
        /\ job' \in [Threads -> JobType]
        /\ job'[timer'] = Call("armed", u, c)
        /\ \A t \in Threads : job'[t].pc = "armed" => t = timer'
    BY <2>1, ScheduleFacts
  <2>3. TypeOK'
    BY <2>1, <2>2 DEF TypeOK
  <2>4. ArmedForDocument' /\ SinglePending'
    BY <2>2, <1>0 DEF ArmedForDocument, SinglePending, Armed, Call
  <2>5. PendingIsCurrent'
    BY <2>1, <2>2, <1>0 DEF PendingIsCurrent, Armed, Call, TypeOK
  <2>6. ShutdownQuiesces'
    BY <2>1 DEF ShutdownQuiesces
  <2> QED
    BY <2>3, <2>4, <2>5, <2>6
<1>3. ASSUME NEW u \in Uris, DidSave(u)
      PROVE  IInv'
  <2>1. Call("analysing", u, docs[u]) \in JobType /\ Call("analysing", u, docs[u]).pc # "armed"
    BY <1>3 DEF DidSave, Call, JobType, TypeOK
  <2>2. TypeOK'
    BY <1>3, <2>1, <1>0 DEF DidSave, TypeOK, Starts
  <2>3. \A t \in Threads : Armed(t)' => Armed(t) /\ job'[t] = job[t]
    BY <1>3, <2>1, <1>0 DEF DidSave, Armed, TypeOK
  <2> QED
    BY <1>3, <2>2, <2>3, <1>0
    DEF DidSave, ArmedForDocument, SinglePending, PendingIsCurrent, ShutdownQuiesces, Armed
<1>4. CASE Shutdown
  <2>1. TypeOK'
    BY <1>4, CancelledFacts DEF Shutdown, CancelPending, TypeOK
  <2>2. \A t \in Threads : ~Armed(t)'
    BY <1>4, CancelledFacts DEF Shutdown, CancelPending, Armed
  <2> QED
    BY <2>1, <2>2, <1>0 DEF ArmedForDocument, SinglePending, PendingIsCurrent, ShutdownQuiesces
<1>5. ASSUME NEW how \in {"exit0", "exit1", "eof", "badframe"}, Stop(how)
      PROVE  IInv'
  <2>1. TypeOK'
    BY <1>5, <1>1 DEF Stop, TypeOK
  <2>2. \A t \in Threads : ~Armed(t)'
    BY <1>5, <1>1 DEF Stop, Armed
  <2> QED
    BY <2>1, <2>2, <1>0 DEF ArmedForDocument, SinglePending, PendingIsCurrent, ShutdownQuiesces
<1>6. ASSUME NEW t \in Timers, Fire(t)
      PROVE  IInv'
  <2>1. TypeOK'
    BY <1>6, <1>0 DEF Fire, TypeOK, JobType, Starts, ArmedForDocument
  <2>2. \A s \in Threads : Armed(s)' => Armed(s) /\ job'[s] = job[s]
    BY <1>6, <1>0 DEF Fire, Armed, TypeOK, JobType
  <2> QED
    BY <1>6, <2>1, <2>2, <1>0
    DEF Fire, ArmedForDocument, SinglePending, PendingIsCurrent, ShutdownQuiesces, Armed
<1>7. ASSUME NEW t \in Threads, Analyse(t)
      PROVE  IInv'
  <2> DEFINE d == IF <<job[t].uri, job[t].text>> \in Analysable THEN job[t].text ELSE NoText
  <2>a. job[t] \in JobType
    BY DEF TypeOK
  <2>b. d \in Contents \cup {NoText}
    BY <2>a DEF JobType
  <2>c. job' = [job EXCEPT ![t] = [job[t] EXCEPT !.pc = "publishing", !.diags = d]]
    BY <1>7 DEF Analyse, TypeOK
  <2>d. [job[t] EXCEPT !.pc = "publishing", !.diags = d] \in JobType
    BY <2>a, <2>b DEF JobType
  <2>e. job' \in [Threads -> JobType]
    BY <2>c, <2>d DEF TypeOK
  <2>f. cache' \in [Uris -> Contents \cup {NoText}]
    BY <1>7, <2>a DEF Analyse, TypeOK, JobType
  <2>1. TypeOK'
    BY <1>7, <2>e, <2>f DEF Analyse, TypeOK
  <2>2. \A s \in Threads : Armed(s)' => Armed(s) /\ job'[s] = job[s]
    BY <1>7 DEF Analyse, Armed, TypeOK, JobType
  <2> QED
    BY <1>7, <2>1, <2>2, <1>0
    DEF Analyse, ArmedForDocument, SinglePending, PendingIsCurrent, ShutdownQuiesces, Armed
<1>8. ASSUME NEW t \in Threads, Publish(t)
      PROVE  IInv'
  <2>1. TypeOK'
    BY <1>8, <1>1 DEF Publish, TypeOK, JobType
  <2>2. \A s \in Threads : Armed(s)' => Armed(s) /\ job'[s] = job[s]
    BY <1>8, <1>1 DEF Publish, Armed, TypeOK
  <2> QED
    BY <1>8, <2>1, <2>2, <1>0
    DEF Publish, ArmedForDocument, SinglePending, PendingIsCurrent, ShutdownQuiesces, Armed
<1>9. CASE UNCHANGED vars
  BY <1>9 DEF vars, TypeOK, ArmedForDocument, SinglePending, PendingIsCurrent,
              ShutdownQuiesces, Armed
<1>10. CASE Message
  BY <1>10, <1>2, <1>3, <1>4, <1>5 DEF Message, Exit, Eof, BadFrame
<1>11. CASE Analysis
  BY <1>11, <1>6, <1>7, <1>8 DEF Analysis
<1> QED
  BY <1>9, <1>10, <1>11 DEF Next

(* The server starts in the inductive invariant.                           *)
LEMMA InitInv == Init => IInv
<1> SUFFICES ASSUME Init PROVE IInv
  OBVIOUS
<1>1. Idle \in JobType /\ Idle.pc # "armed"
  BY DEF Idle, JobType
<1>2. TypeOK
  BY <1>1 DEF Init, TypeOK
<1>3. \A t \in Threads : ~Armed(t)
  BY <1>1 DEF Init, Armed
<1> QED
  BY <1>2, <1>3 DEF IInv, ArmedForDocument, SinglePending, PendingIsCurrent,
                    ShutdownQuiesces, Threads

(* A thread that is not idle has a call for a document and a text.         *)
RealCalls ==
    \A t \in Threads : job[t].pc # "idle" => job[t].uri \in Uris /\ job[t].text \in Contents

Sending(t, u) == job[t].pc = "publishing" /\ job[t].uri = u /\ job[t].diags # NoText

Flying(t, u) == InFlight(t) /\ job[t].uri = u

(* Of a document no two texts of which were analysed at one time: those in *)
(* flight are of one text; what is about to be sent is what is cached; and *)
(* what was sent is, once nothing more is about to be.                     *)
OneText(u) == \A s, t \in Threads : Flying(s, u) /\ Flying(t, u) => job[s].text = job[t].text

SentFromCache(u) ==
    \A t \in Threads : Sending(t, u) => job[t].diags = job[t].text /\ cache[u] = job[t].text

ShownFromCache(u) ==
    (published[u] # NoText /\ \A t \in Threads : ~Sending(t, u)) => cache[u] = published[u]

CacheInv ==
    server = "up" =>
        \A u \in Uris \ overlapped : OneText(u) /\ SentFromCache(u) /\ ShownFromCache(u)

(* A step that leaves the analyses in flight, the cache and what the       *)
(* client was sent as they are, keeps the invariant.                       *)
LEMMA FlightSame ==
    ASSUME CacheInv,
           UNCHANGED <<cache, published, server, overlapped>>,
           \A t \in Threads : InFlight(t) \/ InFlight(t)' => job'[t] = job[t]
    PROVE  CacheInv'
<1>1. \A t \in Threads : InFlight(t)' <=> InFlight(t)
  BY DEF InFlight
<1>2. \A t \in Threads, u \in Uris : (Sending(t, u)' <=> Sending(t, u)) /\ (Flying(t, u)' <=> Flying(t, u))
  BY <1>1 DEF Sending, Flying, InFlight
<1>3. \A t \in Threads, u \in Uris : Sending(t, u) => InFlight(t)
  BY DEF Sending, InFlight
<1> QED
  BY <1>1, <1>2, <1>3 DEF CacheInv, OneText, SentFromCache, ShownFromCache, Flying

(* Scheduling and cancelling touch no analysis in flight and leave calls   *)
(* for documents only.                                                     *)
LEMMA ScheduleKeepsFlight ==
    ASSUME TypeOK, RealCalls, NEW u \in Uris, NEW c \in Contents, Schedule(u, c)
    PROVE  /\ RealCalls'
           /\ \A t \in Threads : InFlight(t) \/ InFlight(t)' => job'[t] = job[t]
<1>1. PICK t \in Timers : /\ job[t].pc = "idle" \/ (t = timer /\ Armed(t))
                          /\ job' = [Cancelled(job) EXCEPT ![t] = Call("armed", u, c)]
  BY DEF Schedule
<1>2. t \in Threads
  BY DEF Threads
<1>3. \A s \in Threads : job'[s] = IF s = t THEN Call("armed", u, c)
                                   ELSE IF s = timer /\ job[s].pc = "armed" THEN Idle ELSE job[s]
  BY <1>1, <1>2 DEF Cancelled
<1>4. RealCalls'
  BY <1>3 DEF RealCalls, Call, Idle
<1>5. \A s \in Threads : InFlight(s) \/ InFlight(s)' => job'[s] = job[s]
  BY <1>1, <1>3 DEF InFlight, Call, Idle, Armed
<1> QED
  BY <1>4, <1>5

(* An analysis of c starts in thread t, which had none in flight.          *)
LEMMA StartKeeps ==
    ASSUME IInv, RealCalls, CacheInv, NEW t \in Threads, NEW u \in Uris, NEW c \in Contents,
           ~InFlight(t), Starts(u, c),
           job'[t].pc = "analysing" /\ job'[t].uri = u /\ job'[t].text = c,
           \A s \in Threads \ {t} : job'[s] = job[s],
           UNCHANGED <<cache, published, server>>
    PROVE  RealCalls' /\ CacheInv'
<1>1. RealCalls'
  BY DEF RealCalls
<1>2. SUFFICES ASSUME server = "up", NEW v \in Uris, v \notin overlapped'
               PROVE  (OneText(v) /\ SentFromCache(v) /\ ShownFromCache(v))'
  BY <1>1 DEF CacheInv
<1>3. v \notin overlapped
  BY <1>2 DEF Starts
<1>4. OneText(v) /\ SentFromCache(v) /\ ShownFromCache(v)
  BY <1>2, <1>3 DEF CacheInv
<1>5. \A s \in Threads \ {t} : (Flying(s, v)' <=> Flying(s, v)) /\ job'[s].text = job[s].text
  BY DEF Flying, InFlight
<1>6. Flying(t, v)' => v = u
  BY DEF Flying
<1>7. \A s \in Threads \ {t} : Flying(s, u) /\ v = u => job[s].text = c
  BY <1>2 DEF Starts, Flying
<1>8. OneText(v)'
  BY <1>4, <1>5, <1>6, <1>7 DEF OneText
<1>9. \A s \in Threads : Sending(s, v)' <=> Sending(s, v)
  BY DEF Sending, InFlight
<1>10. \A s \in Threads : Sending(s, v) => s # t
  BY DEF Sending, InFlight
<1>11. SentFromCache(v)'
  BY <1>4, <1>9, <1>10 DEF SentFromCache
<1>12. ShownFromCache(v)'
  BY <1>4, <1>9 DEF ShownFromCache
<1> QED
  BY <1>8, <1>11, <1>12

(* An analysis ends.                                                       *)
LEMMA AnalyseKeeps ==
    ASSUME IInv, RealCalls, CacheInv, NEW t \in Threads, Analyse(t)
    PROVE  RealCalls' /\ CacheInv'
<1> DEFINE w == job[t].uri
           c == job[t].text
           ok == <<w, c>> \in Analysable
<1>1. /\ job \in [Threads -> JobType] /\ cache \in [Uris -> Contents \cup {NoText}]
      /\ w \in Uris /\ c \in Contents /\ c # NoText
  BY NoneAssumption DEF IInv, TypeOK, RealCalls, Analyse
<1>2. /\ job'[t].pc = "publishing" /\ job'[t].uri = w /\ job'[t].text = c
      /\ job'[t].diags = IF ok THEN c ELSE NoText
      /\ \A s \in Threads \ {t} : job'[s] = job[s]
      /\ job[t].pc = "analysing"
  BY <1>1 DEF Analyse, JobType
<1>3. RealCalls'
  BY <1>1, <1>2 DEF RealCalls
<1>4. /\ \A v \in Uris : cache'[v] = IF ok /\ v = w THEN c ELSE cache[v]
      /\ UNCHANGED <<published, server, overlapped>>
  BY <1>1 DEF Analyse
<1>5. SUFFICES ASSUME server = "up", NEW v \in Uris, v \notin overlapped
               PROVE  (OneText(v) /\ SentFromCache(v) /\ ShownFromCache(v))'
  BY <1>3, <1>4 DEF CacheInv
<1>6. OneText(v) /\ SentFromCache(v) /\ ShownFromCache(v)
  BY <1>5 DEF CacheInv
<1>7. \A s \in Threads : (Flying(s, v)' <=> Flying(s, v)) /\ job'[s].text = job[s].text
  BY <1>2 DEF Flying, InFlight
<1>8. OneText(v)'
  BY <1>6, <1>7 DEF OneText
<1>9. \A s \in Threads \ {t} : (Sending(s, v)' <=> Sending(s, v)) /\ (Sending(s, v) => Flying(s, v))
  BY <1>2 DEF Sending, Flying, InFlight
<1>10. Sending(t, v)' <=> (ok /\ v = w)
  BY <1>1, <1>2 DEF Sending
<1>11. \A s \in Threads : Sending(s, w) /\ v = w => job[s].text = c
  <2>1. Flying(t, w)
    BY <1>2 DEF Flying, InFlight
  <2> QED
    BY <2>1, <1>6, <1>9, <1>2 DEF OneText, Sending
<1>12. SentFromCache(v)'
  <2>1. ASSUME NEW s \in Threads, Sending(s, v)'
        PROVE  job'[s].diags = job'[s].text /\ cache'[v] = job'[s].text
    <3>1. CASE s = t
      BY <2>1, <3>1, <1>2, <1>4, <1>10
    <3>2. CASE s # t
      BY <2>1, <3>2, <1>2, <1>4, <1>6, <1>9, <1>11 DEF SentFromCache
    <3> QED
      BY <3>1, <3>2
  <2> QED
    BY <2>1 DEF SentFromCache
<1>13. ~Sending(t, v)
  BY <1>2 DEF Sending
<1>14. ShownFromCache(v)'
  BY <1>4, <1>6, <1>9, <1>10, <1>13 DEF ShownFromCache
<1> QED
  BY <1>8, <1>12, <1>14

(* Diagnostics are sent.                                                   *)
LEMMA PublishKeeps ==
    ASSUME IInv, RealCalls, CacheInv, NEW t \in Threads, Publish(t)
    PROVE  RealCalls' /\ CacheInv'
<1> DEFINE w == job[t].uri
           d == job[t].diags
<1>1. /\ job \in [Threads -> JobType] /\ published \in [Uris -> Contents \cup {NoText}]
      /\ w \in Uris
  BY DEF IInv, TypeOK, RealCalls, Publish
<1>2. /\ job[t].pc = "publishing" /\ job'[t] = Idle
      /\ \A s \in Threads \ {t} : job'[s] = job[s]
      /\ \A v \in Uris : published'[v] = IF v = w THEN d ELSE published[v]
      /\ UNCHANGED <<cache, server, overlapped>>
  BY <1>1 DEF Publish
<1>3. RealCalls'
  BY <1>2 DEF RealCalls, Idle
<1>4. SUFFICES ASSUME server = "up", NEW v \in Uris, v \notin overlapped
               PROVE  (OneText(v) /\ SentFromCache(v) /\ ShownFromCache(v))'
  BY <1>2, <1>3 DEF CacheInv
<1>5. OneText(v) /\ SentFromCache(v) /\ ShownFromCache(v)
  BY <1>4 DEF CacheInv
<1>6. \A s \in Threads \ {t} : (Flying(s, v)' <=> Flying(s, v)) /\ (Sending(s, v)' <=> Sending(s, v))
  BY <1>2 DEF Flying, Sending, InFlight
<1>7. ~Flying(t, v)' /\ ~Sending(t, v)'
  BY <1>2 DEF Flying, Sending, InFlight, Idle
<1>8. OneText(v)'
  BY <1>2, <1>5, <1>6, <1>7 DEF OneText
<1>9. SentFromCache(v)'
  BY <1>2, <1>5, <1>6, <1>7 DEF SentFromCache
<1>10. ShownFromCache(v)'
  <2>1. CASE v = w /\ d # NoText
    <3>1. Sending(t, v)
      BY <2>1, <1>2 DEF Sending
    <3> QED
      BY <2>1, <3>1, <1>2, <1>5 DEF SentFromCache, ShownFromCache
  <2>2. CASE v = w /\ d = NoText
    BY <2>2, <1>2 DEF ShownFromCache
  <2>3. CASE v # w
    <3>1. ~Sending(t, v)
      BY <2>3 DEF Sending
    <3> QED
      BY <2>3, <3>1, <1>2, <1>5, <1>6, <1>7 DEF ShownFromCache
  <2> QED
    BY <2>1, <2>2, <2>3
<1> QED
  BY <1>8, <1>9, <1>10

(* Every step keeps the cache's invariant.                                 *)
LEMMA StepCache == IInv /\ RealCalls /\ CacheInv /\ [Next]_vars => RealCalls' /\ CacheInv'
<1> SUFFICES ASSUME IInv, RealCalls, CacheInv, [Next]_vars PROVE RealCalls' /\ CacheInv'
  OBVIOUS
<1>0. TypeOK /\ Timers \subseteq Threads /\ Main \in Threads
  BY DEF IInv, Threads
<1>1. ASSUME NEW u \in Uris, NEW c \in Contents, DidOpen(u, c) \/ DidChange(u, c)
      PROVE  RealCalls' /\ CacheInv'
  <2>1. Schedule(u, c) /\ UNCHANGED <<cache, published, server, overlapped>>
    BY <1>1 DEF DidOpen, DidChange
  <2> QED
    BY <2>1, <1>0, ScheduleKeepsFlight, FlightSame
<1>2. ASSUME NEW u \in Uris, DidSave(u)
      PROVE  RealCalls' /\ CacheInv'
  <2>1. docs[u] \in Contents /\ ~InFlight(Main)
    BY <1>2, <1>0 DEF DidSave, Receive, InFlight, TypeOK
  <2>2. /\ job'[Main].pc = "analysing" /\ job'[Main].uri = u /\ job'[Main].text = docs[u]
        /\ \A s \in Threads \ {Main} : job'[s] = job[s]
    BY <1>2, <1>0 DEF DidSave, Call, TypeOK
  <2> QED
    BY <1>2, <2>1, <2>2, <1>0, StartKeeps DEF DidSave
<1>3. CASE Shutdown
  <2>1. \A t \in Threads : job'[t] = IF t = timer /\ job[t].pc = "armed" THEN Idle ELSE job[t]
    BY <1>3 DEF Shutdown, CancelPending, Cancelled
  <2>2. \A t \in Threads : InFlight(t) \/ InFlight(t)' => job'[t] = job[t]
    BY <2>1 DEF InFlight, Idle
  <2>3. RealCalls'
    BY <2>1 DEF RealCalls, Idle
  <2> QED
    BY <1>3, <2>2, <2>3, FlightSame DEF Shutdown
<1>4. ASSUME NEW how \in {"exit0", "exit1", "eof", "badframe"}, Stop(how)
      PROVE  RealCalls' /\ CacheInv'
  BY <1>4 DEF Stop, RealCalls, CacheInv, Idle
<1>5. ASSUME NEW t \in Timers, Fire(t)
      PROVE  RealCalls' /\ CacheInv'
  <2>1. ~InFlight(t) /\ job[t].uri \in Uris /\ job[t].text \in Contents
    BY <1>5, <1>0 DEF Fire, InFlight, Armed, RealCalls
  <2>2. /\ job'[t].pc = "analysing" /\ job'[t].uri = job[t].uri /\ job'[t].text = job[t].text
        /\ \A s \in Threads \ {t} : job'[s] = job[s]
    BY <1>5, <1>0 DEF Fire, TypeOK, JobType
  <2>3. Starts(job[t].uri, job[t].text) /\ UNCHANGED <<cache, published, server>>
    BY <1>5 DEF Fire
  <2> QED
    BY <2>1, <2>2, <2>3, <1>0, StartKeeps
<1>6. CASE UNCHANGED vars
  <2>1. UNCHANGED <<cache, published, server, overlapped, job>>
    BY <1>6 DEF vars
  <2> QED
    BY <2>1, FlightSame DEF RealCalls
<1>7. CASE Message
  BY <1>7, <1>1, <1>2, <1>3, <1>4 DEF Message, Exit, Eof, BadFrame
<1>8. CASE Analysis
  BY <1>8, <1>5, AnalyseKeeps, PublishKeeps DEF Analysis
<1> QED
  BY <1>6, <1>7, <1>8 DEF Next

LEMMA InitCache == Init => RealCalls /\ CacheInv
BY DEF Init, RealCalls, CacheInv, OneText, SentFromCache, ShownFromCache, Flying, Sending, InFlight, Idle

(* Whatever the client sends and however the threads interleave, the       *)
(* server's state is well typed.                                           *)
THEOREM TypeCorrect == Spec => []TypeOK
<1>1. IInv => TypeOK
  BY DEF IInv
<1> QED
  BY <1>1, InitInv, StepInv, PTL DEF Spec

(* At most one analysis is pending, the one the debouncer can cancel, for  *)
(* any number of documents and timer threads.                              *)
THEOREM SinglePendingHolds == Spec => []SinglePending
<1>1. IInv => SinglePending
  BY DEF IInv
<1> QED
  BY <1>1, InitInv, StepInv, PTL DEF Spec

(* The pending analysis is of its document's current text.                 *)
THEOREM PendingIsCurrentHolds == Spec => []PendingIsCurrent
<1>1. IInv => PendingIsCurrent
  BY DEF IInv
<1> QED
  BY <1>1, InitInv, StepInv, PTL DEF Spec

(* Nothing is pending after shutdown.                                      *)
THEOREM ShutdownQuiescesHolds == Spec => []ShutdownQuiesces
<1>1. IInv => ShutdownQuiesces
  BY DEF IInv
<1> QED
  BY <1>1, InitInv, StepInv, PTL DEF Spec

(* Hover and code actions use the findings the client was shown, whenever  *)
(* no analysis of the document is in flight, its last one did not raise    *)
(* and analyses of two of its texts never overlapped.                      *)
THEOREM CacheMatchesAloneHolds == Spec => []CacheMatchesAlone
<1>1. ASSUME CacheInv, server = "up", NEW u \in Uris \ overlapped, published[u] # NoText,
             \A t \in Threads : ~(InFlight(t) /\ job[t].uri = u)
      PROVE  cache[u] = published[u]
  <2>1. \A t \in Threads : ~Sending(t, u)
    BY <1>1 DEF Sending, InFlight
  <2> QED
    BY <1>1, <2>1 DEF CacheInv, ShownFromCache
<1>2. CacheInv => CacheMatchesAlone
  BY <1>1 DEF CacheMatchesAlone
<1> QED
  BY <1>2, InitInv, StepInv, InitCache, StepCache, PTL DEF Spec
=============================================================================
