----------------------- MODULE ExecutionControlProofs -----------------------
(***************************************************************************)
(* Theorems about ExecutionControl: its type invariant, and that what the    *)
(* client is told converges to the truth, for channels of any capacity and   *)
(* any number of stops and restarts.                                         *)
(***************************************************************************)
EXTENDS ExecutionControl, TLAPS

Kinds == StateKinds \cup {"restarted"}

\* Tail and Append, by the elements.
LEMMA TailFacts ==
    ASSUME NEW S, NEW q \in Seq(S), q # <<>>
    PROVE  /\ Tail(q) \in Seq(S) /\ Head(q) \in S /\ Head(q) = q[1]
           /\ Len(q) \in Nat \ {0} /\ Len(Tail(q)) = Len(q) - 1
           /\ \A i \in 1 .. Len(q) - 1 : Tail(q)[i] = q[i + 1]
OBVIOUS

LEMMA AppendFacts ==
    ASSUME NEW S, NEW q \in Seq(S), NEW e \in S
    PROVE  /\ Append(q, e) \in Seq(S)
           /\ Len(q) \in Nat /\ Len(Append(q, e)) = Len(q) + 1
           /\ Append(q, e)[Len(q) + 1] = e
           /\ \A i \in 1 .. Len(q) : Append(q, e)[i] = q[i]
OBVIOUS

-----------------------------------------------------------------------------
(* Type correctness.                                                         *)

\* An event that is announced leaves the channel well-typed and within bounds.
LEMMA AnnounceKeepsTypes ==
    ASSUME TypeOK, ExecutionAssumption, NEW kind \in Kinds, Announce(kind)
    PROVE  /\ events' \in Seq(Kinds) /\ Len(events') <= QueueCap
           /\ corked' \in BOOLEAN /\ missed' \in BOOLEAN
<1>1. CASE corked \/ Full
  BY <1>1 DEF TypeOK, Announce, Kinds
<1>2. CASE ~(corked \/ Full)
  <2>1. events' = Append(events, kind)
    BY <1>2 DEF Announce
  <2>2. Len(events) < QueueCap /\ Len(events) \in Nat /\ QueueCap \in Nat
    BY <1>2 DEF Full, TypeOK, ExecutionAssumption
  <2> QED
    BY <1>2, <2>1, <2>2, AppendFacts DEF TypeOK, Announce, Kinds
<1> QED
  BY <1>1, <1>2

\* What the client is told, or not told, keeps the types of its state.
LEMMA ToldKeepsTypes ==
    ASSUME TypeOK, NEW news \in {"running", "stopped", "ended"}, NEW m \in BOOLEAN,
           Told(news, m)
    PROVE  /\ view' \in {"none", "running", "stopped", "ended"}
           /\ pausing' \in BOOLEAN /\ missed' \in BOOLEAN
<1>1. CASE Hears(news) /\ missed' = m
  BY <1>1 DEF Hears, TypeOK
<1>2. CASE missed' = TRUE /\ UNCHANGED client
  BY <1>2 DEF client, TypeOK
<1> QED
  BY <1>1, <1>2 DEF Told

\* While a synchronous step holds the session, the debuggee neither runs nor is
\* about to: nobody else resumes it, and no other stop is counted.
StepHoldsStill ==
    hpc = "step" => ~resuming /\ state # "running" /\ stops < MaxStops

TypeInv == TypeOK /\ StepHoldsStill

\* Every step keeps the types and leaves a synchronous step alone.
LEMMA TypeStep == TypeInv /\ [Next]_vars => TypeInv'
<1> SUFFICES ASSUME TypeInv, [Next]_vars PROVE TypeInv'
  OBVIOUS
<1> USE ExecutionAssumption DEF TypeInv
<1>1. CASE LldbRuns
  <2>1. Announce("running") /\ "running" \in Kinds
    BY <1>1 DEF LldbRuns, Kinds, StateKinds
  <2>2. TypeOK'
    BY <1>1, <2>1, AnnounceKeepsTypes DEF LldbRuns, TypeOK, handler, client, StateKinds, Kinds
  <2> QED
    BY <1>1, <2>2 DEF LldbRuns, StepHoldsStill, handler
<1>2. ASSUME Stops, UNCHANGED <<resuming, restarts, handler, client>>,
             callback' \in BOOLEAN, hpc # "step"
      PROVE  TypeInv'
  <2>1. Announce("stopped") /\ "stopped" \in Kinds
    BY <1>2 DEF Stops, Kinds, StateKinds
  <2>2. stops' \in 0 .. MaxStops
    BY <1>2 DEF Stops, TypeOK
  <2>3. TypeOK'
    BY <1>2, <2>1, <2>2, AnnounceKeepsTypes DEF Stops, TypeOK, handler, client, StateKinds, Kinds
  <2> QED
    BY <1>2, <2>3 DEF StepHoldsStill, handler
<1>3. CASE LldbStops
  BY <1>2, <1>3 DEF LldbStops, TypeOK, StepHoldsStill
<1>4. CASE LldbRestarted
  <2>1. Announce("restarted") /\ "restarted" \in Kinds
    BY <1>4 DEF LldbRestarted, Kinds, StateKinds
  <2>2. TypeOK'
    BY <1>4, <2>1, AnnounceKeepsTypes DEF LldbRestarted, TypeOK, lldb, handler, client, Kinds
  <2> QED
    BY <1>4, <2>2 DEF LldbRestarted, StepHoldsStill, lldb, handler
<1>5. CASE LldbExits
  <2>1. Announce("exited") /\ "exited" \in Kinds
    BY <1>5 DEF LldbExits, Kinds, StateKinds
  <2>2. TypeOK'
    BY <1>5, <2>1, AnnounceKeepsTypes DEF LldbExits, TypeOK, handler, client, StateKinds, Kinds
  <2> QED
    BY <1>5, <2>2 DEF LldbExits, StepHoldsStill, handler
<1>6. CASE BreakpointHit
  BY <1>6 DEF BreakpointHit, TypeOK, StepHoldsStill, queue, handler, client
<1>7. ASSUME NEW there \in Places \ {"moving"}, SyncArrives(there)
      PROVE  TypeInv'
  BY <1>7 DEF SyncArrives, TypeOK, StepHoldsStill, queue, client, StateKinds
<1>8. CASE ConsoleResumes
  BY <1>8 DEF ConsoleResumes, Suspended, TypeOK, StepHoldsStill, queue, handler, client
<1>9. CASE CallbackRuns
  <2>1. CASE Stops
    BY <1>2, <1>9, <2>1 DEF CallbackRuns, TypeOK
  <2>2. CASE UNCHANGED <<state, stops, halting, queue, missed>>
    BY <1>9, <2>2 DEF CallbackRuns, TypeOK, StepHoldsStill, queue, handler, client
  <2> QED
    BY <1>9, <2>1, <2>2 DEF CallbackRuns
<1>10. CASE HandleProcessEvent
  <2>1. events' \in Seq(Kinds) /\ Len(events') <= QueueCap
    BY <1>10, TailFacts DEF HandleProcessEvent, TypeOK, Kinds
  <2>2. /\ view' \in {"none", "running", "stopped", "ended"}
        /\ pausing' \in BOOLEAN /\ missed' \in BOOLEAN
    <3>1. \/ \E news \in {"running", "stopped", "ended"} : Told(news, missed)
          \/ UNCHANGED <<client, missed>>
      BY <1>10 DEF HandleProcessEvent
    <3>2. missed \in BOOLEAN
      BY DEF TypeOK
    <3>3. CASE UNCHANGED <<client, missed>>
      BY <3>3 DEF client, TypeOK
    <3> QED
      BY <3>1, <3>2, <3>3, ToldKeepsTypes
  <2> QED
    BY <1>10, <2>1, <2>2 DEF HandleProcessEvent, TypeOK, StepHoldsStill, lldb, handler, Kinds
<1>11. CASE HandleContinue
  BY <1>11 DEF HandleContinue, SessionIsFree, Suspended, Told, Hears, TypeOK, StepHoldsStill, queue, client
<1>12. CASE ContinueRefused
  BY <1>12 DEF ContinueRefused, NotifyProcessRunning, Told, Hears, client, TypeOK, StepHoldsStill,
               lldb, queue, client
<1>13. CASE HandlePause
  BY <1>13 DEF HandlePause, SessionIsFree, TypeOK, StepHoldsStill, queue, handler
<1>14. CASE HandlePauseFails
  BY <1>14 DEF HandlePauseFails, TypeOK, StepHoldsStill, lldb, queue
<1>15. CASE PauseRefused
  BY <1>15 DEF PauseRefused, NotifyProcessStopped, Told, Hears, client, TypeOK, StepHoldsStill, lldb, queue
<1>16. CASE HandleStep
  <2>1. Told("running", missed) /\ missed \in BOOLEAN
    BY <1>16 DEF HandleStep, TypeOK
  <2>2. /\ view' \in {"none", "running", "stopped", "ended"}
        /\ pausing' \in BOOLEAN /\ missed' \in BOOLEAN
    BY <2>1, ToldKeepsTypes
  <2> QED
    BY <1>16, <2>2 DEF HandleStep, SessionIsFree, Suspended, TypeOK, StepHoldsStill,
                       queue, handler
<1>17. CASE HandleStepInTarget
  BY <1>17 DEF HandleStepInTarget, Suspended, TypeOK, StepHoldsStill, Places, lldb, queue, client
<1>18. CASE SyncStepsOn
  BY <1>18 DEF SyncStepsOn, TypeOK, StepHoldsStill, Places, lldb, queue, client
<1>19. CASE SyncEnds
  <2>1. stops' \in 0 .. MaxStops
    BY <1>19 DEF SyncEnds, TypeOK, StepHoldsStill, ExecutionAssumption
  <2> QED
    BY <1>19, <2>1 DEF SyncEnds, NotifyProcessStopped, Told, Hears, client, TypeOK, StepHoldsStill, Places, queue
<1>20. CASE CancelStep
  BY <1>20 DEF CancelStep, TypeOK, StepHoldsStill, lldb, queue, client
<1>21. CASE HandleGoto \/ HandleAdapterSettings
  <2>1. NotifyProcessStopped /\ UNCHANGED <<lldb, queue, handler>>
    BY <1>21 DEF HandleGoto, HandleAdapterSettings
  <2> QED
    BY <2>1 DEF NotifyProcessStopped, Told, Hears, client, TypeOK, StepHoldsStill, lldb, queue, handler
<1>22. CASE HandleRestartFails
  BY <1>22 DEF HandleRestartFails, TypeOK, StepHoldsStill, lldb, handler, client
<1>23. ASSUME NEW start \in {"run", "entry", "fail"}, HandleRestart(start)
       PROVE  TypeInv'
  <2>1. events' \in Seq(Kinds) /\ Len(events') <= QueueCap
    BY <1>23, AppendFacts DEF HandleRestart, Full, TypeOK, Kinds, StateKinds
  <2>2. stops' \in 0 .. MaxStops /\ restarts' \in 0 .. MaxRuns
    BY <1>23 DEF HandleRestart, TypeOK
  <2>3. /\ view' \in {"none", "running", "stopped", "ended"}
        /\ pausing' \in BOOLEAN /\ missed' \in BOOLEAN
    <3>1. CASE start = "entry"
      <4>1. Told("stopped", Pending("running"))
        BY <1>23, <3>1 DEF HandleRestart
      <4>2. Pending("running") \in BOOLEAN
        BY DEF Pending
      <4> QED
        BY <4>1, <4>2, ToldKeepsTypes
    <3>2. CASE start # "entry"
      BY <1>23, <3>2, Zenon DEF HandleRestart, TypeOK
    <3> QED
      BY <3>1, <3>2
  <2>4. /\ state' \in StateKinds /\ resuming' \in BOOLEAN /\ halting' = FALSE
        /\ resuming' => state' = "stopped"
        /\ corked' = FALSE /\ UNCHANGED <<callback, handler>> /\ hpc = "idle"
    BY <1>23 DEF HandleRestart, SessionIsFree, StateKinds
  <2> QED
    BY <2>1, <2>2, <2>3, <2>4 DEF TypeOK, StepHoldsStill, handler, Kinds
<1>24. CASE HandleTerminate
  BY <1>24 DEF HandleTerminate, SessionIsFree, Suspended, TypeOK, StepHoldsStill, queue, handler, client
<1>25. CASE UNCHANGED vars
  BY <1>25 DEF vars, lldb, queue, handler, client, TypeOK, StepHoldsStill
<1> QED
  BY <1>1, <1>3, <1>4, <1>5, <1>6, <1>7, <1>8, <1>9, <1>10, <1>11, <1>12, <1>13,
     <1>14, <1>15, <1>16, <1>17, <1>18, <1>19, <1>20, <1>21, <1>22, <1>23, <1>24,
     <1>25 DEF Next, LldbNext, SessionNext, CallbackWaits

\* The initial state is well-typed.
LEMMA TypeInit == Init => TypeInv
<1> SUFFICES ASSUME Init PROVE TypeInv
  OBVIOUS
<1>1. events \in Seq(Kinds) /\ Len(events) <= QueueCap
  BY ExecutionAssumption DEF Init, ExecutionAssumption, Kinds, StateKinds
<1>2. 0 \in 0 .. MaxStops /\ 0 \in 0 .. MaxRuns
  BY ExecutionAssumption DEF ExecutionAssumption
<1> QED
  BY <1>1, <1>2 DEF Init, TypeInv, TypeOK, StepHoldsStill, StateKinds, Places, Kinds

\* The type invariant: the channel keeps to its capacity, and LLDB's accepted
\* calls fit its state (start_polling, resume, stop).
THEOREM TypeCorrect == Spec => []TypeOK
<1>1. TypeInv => TypeOK
  BY DEF TypeInv
<1> QED
  BY <1>1, TypeInit, TypeStep, PTL DEF Spec

-----------------------------------------------------------------------------
(* What a channel of events will make the client believe.                    *)

\* An event of this kind is passed on to the client if the process is in state s.
Tells(kind, s) == kind \in {"running", "stopped"} \/ (kind = "exited" /\ s = "exited")

SeenIn(s) == IF s = "exited" THEN "ended" ELSE s

\* In state s, once the events q are handled, the view v has become true: the last
\* event that is passed on is of this state, or the client knows it already.
Converges(q, s, v) ==
    /\ \A i \in 1 .. Len(q) :
          Tells(q[i], s) /\ (\A j \in i + 1 .. Len(q) : ~Tells(q[j], s)) => q[i] = s
    /\ (\A i \in 1 .. Len(q) : ~Tells(q[i], s)) => v = SeenIn(s)

\* The announcement of the present state settles everything before it.
LEMMA AppendTruth ==
    ASSUME NEW q \in Seq(Kinds), NEW s \in StateKinds, NEW v
    PROVE  Converges(Append(q, s), s, v)
<1> DEFINE r == Append(q, s)
<1>1. s \in Kinds
  BY DEF Kinds
<1>2. /\ Len(q) \in Nat /\ Len(r) = Len(q) + 1 /\ r[Len(q) + 1] = s
      /\ Len(q) + 1 \in 1 .. Len(r)
  BY <1>1, AppendFacts
<1>3. Tells(s, s)
  BY DEF Tells, StateKinds
<1> HIDE DEF r
<1>4. ASSUME NEW i \in 1 .. Len(r), \A j \in i + 1 .. Len(r) : ~Tells(r[j], s)
      PROVE  r[i] = s
  <2>1. i = Len(r)
    BY <1>2, <1>3, <1>4
  <2> QED
    BY <1>2, <2>1
<1> QED
  BY <1>2, <1>3, <1>4 DEF Converges, r

\* An event that is not passed on changes nothing.
LEMMA AppendSilent ==
    ASSUME NEW q \in Seq(Kinds), NEW s, NEW v, NEW e \in Kinds,
           ~Tells(e, s), Converges(q, s, v)
    PROVE  Converges(Append(q, e), s, v)
<1> DEFINE r == Append(q, e)
<1>1. /\ Len(q) \in Nat /\ Len(r) = Len(q) + 1 /\ r[Len(q) + 1] = e
      /\ \A i \in 1 .. Len(q) : r[i] = q[i]
  BY AppendFacts
<1> HIDE DEF r
<1>2. ASSUME NEW i \in 1 .. Len(r), Tells(r[i], s),
             \A j \in i + 1 .. Len(r) : ~Tells(r[j], s)
      PROVE  r[i] = s
  <2>1. i \in 1 .. Len(q)
    BY <1>1, <1>2
  <2>2. Tells(q[i], s) /\ \A j \in i + 1 .. Len(q) : ~Tells(q[j], s)
    BY <1>1, <1>2, <2>1
  <2> QED
    BY <1>1, <2>1, <2>2 DEF Converges
<1>3. ASSUME \A i \in 1 .. Len(r) : ~Tells(r[i], s)
      PROVE  v = SeenIn(s)
  BY <1>1, <1>3 DEF Converges
<1> QED
  BY <1>2, <1>3 DEF Converges, r

\* Handling the first event: the client is told, if it is passed on.
LEMMA TailConverges ==
    ASSUME NEW q \in Seq(Kinds), q # <<>>, NEW s, NEW v, Converges(q, s, v),
           NEW w, w = IF Tells(Head(q), s) THEN SeenIn(Head(q)) ELSE v
    PROVE  Converges(Tail(q), s, w)
<1> DEFINE r == Tail(q)
<1>1. /\ Len(q) \in Nat \ {0} /\ Len(r) = Len(q) - 1 /\ Head(q) = q[1]
      /\ \A i \in 1 .. Len(q) - 1 : r[i] = q[i + 1]
  BY TailFacts
<1> HIDE DEF r
<1>2. ASSUME NEW j \in 2 .. Len(q) PROVE q[j] = r[j - 1] /\ j - 1 \in 1 .. Len(r)
  BY <1>1
<1>3. ASSUME NEW i \in 1 .. Len(r), Tells(r[i], s),
             \A j \in i + 1 .. Len(r) : ~Tells(r[j], s)
      PROVE  r[i] = s
  <2>1. i + 1 \in 1 .. Len(q) /\ r[i] = q[i + 1]
    BY <1>1
  <2>2. \A j \in i + 2 .. Len(q) : ~Tells(q[j], s)
    BY <1>1, <1>2, <1>3
  <2> QED
    BY <1>3, <2>1, <2>2 DEF Converges
<1>4. ASSUME \A i \in 1 .. Len(r) : ~Tells(r[i], s)
      PROVE  w = SeenIn(s)
  <2>1. \A j \in 2 .. Len(q) : ~Tells(q[j], s)
    BY <1>2, <1>4
  <2>2. CASE Tells(q[1], s)
    <3>1. 1 \in 1 .. Len(q) /\ \A j \in 1 + 1 .. Len(q) : ~Tells(q[j], s)
      BY <1>1, <2>1
    <3> QED
      BY <1>1, <2>2, <3>1 DEF Converges
  <2>3. CASE ~Tells(q[1], s)
    <3>1. \A j \in 1 .. Len(q) : ~Tells(q[j], s)
      BY <1>1, <2>1, <2>3
    <3> QED
      BY <1>1, <2>3, <3>1 DEF Converges
  <2> QED
    BY <2>2, <2>3
<1> QED
  BY <1>3, <1>4 DEF Converges, r

\* If the last change was announced and no resumption is under way, the events in
\* the channel will make the client's view true.
NewsIsTrue == ~missed /\ ~resuming => Converges(events, state, view)

IInv == TypeInv /\ NewsIsTrue

\* A change of state that is announced, or marked as missed.
LEMMA AnnouncedIsTrue ==
    ASSUME TypeOK, NEW kind \in StateKinds, Announce(kind), state' = kind
    PROVE  NewsIsTrue'
<1>1. CASE corked \/ Full
  BY <1>1 DEF Announce, NewsIsTrue
<1>2. CASE ~(corked \/ Full)
  <2>1. events' = Append(events, kind)
    BY <1>2 DEF Announce
  <2>2. Converges(events', state', view')
    BY <2>1, AppendTruth DEF TypeOK, Kinds
  <2> QED
    BY <2>2 DEF NewsIsTrue
<1> QED
  BY <1>1, <1>2

\* Without an event about the state the client's view alone counts.
LEMMA NothingTells ==
    ASSUME ~StatePending
    PROVE  \A i \in 1 .. Len(events) : ~Tells(events[i], state)
BY DEF StatePending, Pending, Tells, StateKinds

\* To a dead process, every event about a state is passed on.
LEMMA SomethingTells ==
    ASSUME StatePending, state = "exited"
    PROVE  \E i \in 1 .. Len(events) : Tells(events[i], state)
BY DEF StatePending, Pending, Tells, StateKinds

\* A notification that is lost leaves a debt.
LEMMA LostIsMissed ==
    ASSUME NEW news, NEW m, Told(news, m), ~missed'
    PROVE  view' = news /\ ~m
BY DEF Told, Hears

\* A notification of a stop does no harm unless the process runs.
LEMMA StoppedIsTrue ==
    ASSUME TypeOK, NewsIsTrue, NotifyProcessStopped, state # "running",
           state' = state, resuming' = resuming, events' = events
    PROVE  NewsIsTrue'
<1> SUFFICES ASSUME ~missed', ~resuming' PROVE NewsIsTrue'
  BY DEF NewsIsTrue
<1> DEFINE m == IF StatePending THEN missed ELSE state = "exited"
<1>1. view' = "stopped" /\ ~m
  BY LostIsMissed DEF NotifyProcessStopped
<1>2. SUFFICES Converges(events, state, "stopped")
  BY <1>1 DEF NewsIsTrue
<1>3. CASE state = "exited"
  <2>1. StatePending /\ ~missed
    BY <1>1, <1>3
  <2> QED
    BY <1>3, <2>1, SomethingTells DEF NewsIsTrue, Converges
<1>4. CASE state = "stopped"
  <2>1. CASE StatePending
    BY <1>1, <1>4, <2>1 DEF NewsIsTrue, Converges, SeenIn
  <2>2. CASE ~StatePending
    BY <1>4, <2>2, NothingTells DEF Converges, SeenIn
  <2> QED
    BY <2>1, <2>2
<1> QED
  BY <1>3, <1>4 DEF TypeOK, StateKinds

\* A notification that the debuggee runs, when it does.
LEMMA RunningIsTrue ==
    ASSUME NewsIsTrue, NotifyProcessRunning, state = "running",
           state' = state, resuming' = resuming, events' = events
    PROVE  NewsIsTrue'
<1> SUFFICES ASSUME ~missed', ~resuming' PROVE NewsIsTrue'
  BY DEF NewsIsTrue
<1>1. view' = "running" /\ ~(missed /\ StatePending)
  BY LostIsMissed DEF NotifyProcessRunning
<1>2. SUFFICES Converges(events, state, "running")
  BY <1>1 DEF NewsIsTrue
<1>3. CASE StatePending
  BY <1>1, <1>3 DEF NewsIsTrue, Converges, SeenIn
<1>4. CASE ~StatePending
  BY <1>4, NothingTells DEF Converges, SeenIn
<1> QED
  BY <1>3, <1>4

\* Every step keeps the news true.
LEMMA NewsStep == TypeInv /\ NewsIsTrue /\ [Next]_vars => NewsIsTrue'
<1> SUFFICES ASSUME TypeInv, NewsIsTrue, [Next]_vars PROVE NewsIsTrue'
  OBVIOUS
<1> USE DEF TypeInv
<1>1. ASSUME UNCHANGED <<state, resuming, events, view, missed>> PROVE NewsIsTrue'
  BY <1>1 DEF NewsIsTrue
<1>2. ASSUME resuming' = TRUE PROVE NewsIsTrue'
  BY <1>2 DEF NewsIsTrue
<1>3. CASE LldbRuns
  BY <1>3, AnnouncedIsTrue DEF LldbRuns, StateKinds
<1>4. ASSUME Stops PROVE NewsIsTrue'
  BY <1>4, AnnouncedIsTrue DEF Stops, StateKinds
<1>5. CASE LldbStops
  BY <1>4, <1>5 DEF LldbStops
<1>6. CASE LldbRestarted
  <2>1. state' = state /\ resuming' = resuming /\ view' = view /\ missed' = missed
    BY <1>6 DEF LldbRestarted, Announce, lldb, client, StateKinds
  <2>2. events' = events \/ events' = Append(events, "restarted")
    BY <1>6 DEF LldbRestarted, Announce
  <2>3. "restarted" \in Kinds /\ ~Tells("restarted", state) /\ events \in Seq(Kinds)
    BY DEF Kinds, Tells, TypeOK
  <2> QED
    BY <2>1, <2>2, <2>3, AppendSilent DEF NewsIsTrue
<1>7. CASE LldbExits
  BY <1>7, AnnouncedIsTrue DEF LldbExits, StateKinds
<1>8. CASE BreakpointHit
  BY <1>1, <1>8 DEF BreakpointHit, queue, client
<1>9. ASSUME NEW there \in Places \ {"moving"}, SyncArrives(there) PROVE NewsIsTrue'
  <2>1. CASE there = "gone"
    BY <1>9, <2>1 DEF SyncArrives, NewsIsTrue
  <2>2. CASE there # "gone"
    <3>1. UNCHANGED <<state, resuming, events, view>>
      BY <1>9, <2>2 DEF SyncArrives, queue, client
    <3>2. ~missed' => ~missed
      BY <1>9, <2>2 DEF SyncArrives
    <3> QED
      BY <3>1, <3>2 DEF NewsIsTrue
  <2> QED
    BY <2>1, <2>2
<1>10. CASE ConsoleResumes \/ HandleTerminate \/ HandleStep
  BY <1>2, <1>10 DEF ConsoleResumes, HandleTerminate, HandleStep
<1>11. CASE CallbackRuns
  BY <1>1, <1>4, <1>11 DEF CallbackRuns, queue, client
<1>12. CASE HandleProcessEvent
  <2>1. events \in Seq(Kinds) /\ events # <<>> /\ events' = Tail(events)
    BY <1>12 DEF HandleProcessEvent, TypeOK, Kinds
  <2>2. Head(events) \in Kinds
    BY <2>1, TailFacts
  <2>3. /\ UNCHANGED <<state, resuming>>
        /\ IF Tells(Head(events), state) THEN Told(SeenIn(Head(events)), missed)
           ELSE UNCHANGED <<view, missed>>
    BY <1>12, <2>2 DEF HandleProcessEvent, Kinds, StateKinds, IsStop, IsEnd,
                       Tells, SeenIn, client, lldb
  <2> SUFFICES ASSUME ~missed', ~resuming' PROVE NewsIsTrue'
    BY DEF NewsIsTrue
  <2>4. /\ view' = IF Tells(Head(events), state) THEN SeenIn(Head(events)) ELSE view
        /\ ~missed
    BY <2>3, LostIsMissed
  <2> QED
    BY <2>1, <2>3, <2>4, TailConverges DEF NewsIsTrue
<1>13. CASE HandleContinue
  <2>1. CASE Suspended
    BY <1>2, <1>13, <2>1 DEF HandleContinue
  <2>2. CASE ~Suspended
    BY <1>1, <1>13, <2>2 DEF HandleContinue, queue, client
  <2> QED
    BY <2>1, <2>2
<1>14. CASE ContinueRefused
  <2>1. CASE state = "running"
    BY <1>14, <2>1, RunningIsTrue DEF ContinueRefused, lldb, queue
  <2>2. CASE state # "running"
    BY <1>1, <1>14, <2>2 DEF ContinueRefused, lldb, queue, client
  <2> QED
    BY <2>1, <2>2
<1>15. CASE HandlePause
  BY <1>1, <1>15 DEF HandlePause, queue
<1>16. CASE HandlePauseFails
  BY <1>1, <1>16 DEF HandlePauseFails, lldb, queue
<1>17. CASE PauseRefused
  <2>1. CASE state # "running"
    BY <1>17, <2>1, StoppedIsTrue DEF PauseRefused, lldb, queue
  <2>2. CASE state = "running"
    BY <1>1, <1>17, <2>2 DEF PauseRefused, lldb, queue
  <2> QED
    BY <2>1, <2>2
<1>18. CASE HandleStepInTarget \/ SyncStepsOn \/ CancelStep
  BY <1>1, <1>18 DEF HandleStepInTarget, SyncStepsOn, CancelStep, lldb, queue, client
<1>19. CASE SyncEnds
  BY <1>19, StoppedIsTrue DEF SyncEnds, StepHoldsStill, queue
<1>20. CASE HandleGoto \/ HandleAdapterSettings
  <2>1. /\ NotifyProcessStopped /\ state # "running"
        /\ state' = state /\ resuming' = resuming /\ events' = events
    BY <1>20 DEF HandleGoto, HandleAdapterSettings, Suspended, lldb, queue
  <2> QED
    BY <2>1, StoppedIsTrue
<1>21. CASE HandleRestartFails
  BY <1>1, <1>21 DEF HandleRestartFails, lldb, client
<1>22. ASSUME HandleRestart("run") PROVE NewsIsTrue'
  BY <1>2, <1>22 DEF HandleRestart
<1>23. ASSUME HandleRestart("entry") PROVE NewsIsTrue'
  <2>1. /\ state' = "stopped" /\ Told("stopped", Pending("running"))
        /\ events' = events \/ events' = Append(events, "exited")
    BY <1>23 DEF HandleRestart
  <2> SUFFICES ASSUME ~missed' PROVE NewsIsTrue'
    BY DEF NewsIsTrue
  <2>m. view' = "stopped" /\ ~Pending("running")
    BY <2>1, LostIsMissed
  <2>n. SUFFICES Converges(events', "stopped", "stopped")
    BY <2>1, <2>m DEF NewsIsTrue
  <2>2. events \in Seq(Kinds) /\ "exited" \in Kinds
    BY DEF TypeOK, Kinds, StateKinds
  <2>3. Converges(events, "stopped", "stopped")
    BY <2>m DEF Converges, Pending, Tells, SeenIn
  <2>4. ~Tells("exited", "stopped")
    BY DEF Tells
  <2> QED
    BY <2>1, <2>2, <2>3, <2>4, AppendSilent
<1>24. ASSUME HandleRestart("fail") PROVE NewsIsTrue'
  <2>1. state' = "exited" /\ view' = view
    BY <1>24 DEF HandleRestart
  <2>2. CASE state = "exited"
    <3>1. events' = events /\ missed' = missed /\ ~resuming
      BY <1>24, <2>2 DEF HandleRestart, TypeOK
    <3> QED
      BY <2>1, <2>2, <3>1 DEF NewsIsTrue
  <2>3. CASE state # "exited"
    <3>1. missed' \/ events' = Append(events, "exited")
      BY <1>24, <2>3 DEF HandleRestart
    <3>2. Converges(Append(events, "exited"), "exited", view')
      BY AppendTruth DEF TypeOK, Kinds, StateKinds
    <3> QED
      BY <2>1, <3>1, <3>2 DEF NewsIsTrue
  <2> QED
    BY <2>2, <2>3
<1>25. CASE UNCHANGED vars
  BY <1>1, <1>25 DEF vars, lldb, queue, client
<1> QED
  BY <1>3, <1>5, <1>6, <1>7, <1>8, <1>9, <1>10, <1>11, <1>12, <1>13, <1>14, <1>15,
     <1>16, <1>17, <1>18, <1>19, <1>20, <1>21, <1>22, <1>23, <1>24, <1>25
     DEF Next, LldbNext, SessionNext, CallbackWaits

\* For every capacity of the channel and any number of stops and restarts: when
\* nothing is under way, the last change of state was announced and no notification
\* was lost since, the client's last news of the debuggee is true (handle_process_event, handle_pause,
\* handle_continue, refresh_client_display, handle_restart).
THEOREM NewsConverges == Spec => []ClientConverges
<1>1. Init => IInv
  <2> SUFFICES ASSUME Init PROVE NewsIsTrue
    BY TypeInit DEF IInv
  <2>1. events = <<"running">> /\ state = "running" /\ Len(events) = 1 /\ events[1] = state
    BY DEF Init
  <2>2. Tells(events[1], state)
    BY <2>1 DEF Tells
  <2> QED
    BY <2>1, <2>2 DEF NewsIsTrue, Converges
<1>2. IInv /\ [Next]_vars => IInv'
  BY TypeStep, NewsStep DEF IInv
<1>3. IInv => ClientConverges
  <2> SUFFICES ASSUME IInv, ~StatePending, ~resuming, ~missed PROVE view = Seen
    BY DEF ClientConverges
  <2>1. Converges(events, state, view)
    BY DEF IInv, NewsIsTrue
  <2> QED
    BY <2>1, NothingTells DEF Converges, SeenIn, Seen
<1> QED
  BY <1>1, <1>2, <1>3, PTL DEF Spec

\* The session is declared over only by an Exited event that finds its process
\* dead; an event that a killed process left behind does not end the session of
\* its successor (notify_process_terminated).
THEOREM NoEndOfTheLiving == Spec => NoFalseEnd
<1> DEFINE Honest == view' = "ended" => view = "ended" \/ state = "exited"
<1>1. ASSUME [Next]_vars PROVE [Honest]_vars
  <2>1. CASE HandleProcessEvent
    BY <2>1 DEF HandleProcessEvent, IsStop, IsEnd, Told, Hears, client
  <2>2. CASE LldbNext
    BY <2>2 DEF LldbNext, LldbRuns, LldbStops, LldbRestarted, LldbExits, BreakpointHit,
                SyncArrives, ConsoleResumes, client
  <2>3. CASE SessionNext /\ ~HandleProcessEvent
    BY <2>3 DEF SessionNext, CallbackRuns, HandleContinue, ContinueRefused, HandlePause,
                HandlePauseFails, PauseRefused, HandleStep, HandleStepInTarget, SyncStepsOn,
                SyncEnds, CancelStep, CallbackWaits, HandleGoto, HandleAdapterSettings,
                HandleRestartFails, HandleRestart, HandleTerminate, NotifyProcessStopped,
                NotifyProcessRunning, Told, Hears, client, client, vars
  <2> QED
    BY <1>1, <2>1, <2>2, <2>3 DEF Next
<1> QED
  BY <1>1, PTL DEF Spec, NoFalseEnd
=============================================================================
