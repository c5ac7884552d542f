-------------------------- MODULE ExecutionControl --------------------------
(***************************************************************************)
(* How the session moves the debuggee and what it tells the client: the     *)
(* requests continue, pause, next, step in and out, reverse execution, goto,*)
(* restart and terminate, the process events of LLDB that the main loop      *)
(* handles, and the session lock for which a breakpoint callback waits.      *)
(*                                                                          *)
(*   client --requests--> handler (holds the session lock) --calls--> LLDB  *)
(*   client <--events---- handler <--bounded channel-- poller <--events-- LLDB*)
(*                                                                          *)
(* LLDB is external. Its public state changes when the poller takes an event *)
(* out of it, so a resumed process still reads "stopped" for a while, for    *)
(* which handle_terminate polls. The poller drops an event when the channel  *)
(* is full or corked (DebugEventListener), and a step in synchronous mode    *)
(* raises no event, which is why handle_step_in notifies the client itself.  *)
(* What the session remembers of a stop is the subject of StopState.         *)
(***************************************************************************)
EXTENDS Naturals, Sequences

CONSTANTS
    QueueCap,   \* capacity of the event channel
    MaxStops,   \* bound: number of times the debuggee stops
    MaxRuns     \* bound: number of restarts

ASSUME ExecutionAssumption ==
    /\ QueueCap \in Nat \ {0}
    /\ MaxStops \in Nat /\ MaxRuns \in Nat

VARIABLES
    state,        \* SBProcess::state(): "running", "stopped" or "exited"
    resuming,     \* resume() was accepted, the Running event is not out yet
    halting,      \* stop() was accepted, the process has not stopped yet
    stops,        \* number of stops so far
    restarts,     \* number of restarts so far
    callback,     \* a breakpoint callback waits for the session
    events,       \* debug_events_stream: kinds of process events
    corked,       \* the poller drops what it receives
    hpc,          \* the handler that holds the session, "idle" for none
    place,        \* step_into_target: where the thread is
    cancelled,    \* current_cancellation of the step
    view,         \* what the client was last told of the debuggee
    pausing,      \* the client waits for the effect of a pause request
    missed        \* history: the last change of state was never announced, or
                  \* a notification was lost on its way to the client

lldb == <<state, resuming, halting, stops, restarts, callback>>
queue == <<events, corked>>
handler == <<hpc, place, cancelled>>
client == <<view, pausing>>
vars == <<lldb, queue, handler, client, missed>>

StateKinds == {"running", "stopped", "exited"}
Places == {"moving", "target", "trampoline", "statement", "callee",
           "outside", "parent", "gone"}

TypeOK ==
    /\ state \in StateKinds /\ resuming \in BOOLEAN /\ halting \in BOOLEAN
    /\ stops \in 0 .. MaxStops /\ restarts \in 0 .. MaxRuns
    /\ callback \in BOOLEAN
    /\ events \in Seq(StateKinds \cup {"restarted"}) /\ Len(events) <= QueueCap
    /\ corked \in BOOLEAN
    /\ hpc \in {"idle", "pause", "continue", "step"}
    /\ place \in Places /\ cancelled \in BOOLEAN
    /\ view \in {"none", "running", "stopped", "ended"}
    /\ pausing \in BOOLEAN /\ missed \in BOOLEAN
    /\ resuming => state = "stopped"
    /\ halting => state = "running"

\* A launched debuggee that runs, announced and not yet handled.
Init ==
    /\ state = "running" /\ resuming = FALSE /\ halting = FALSE
    /\ stops = 0 /\ restarts = 0 /\ callback = FALSE
    /\ events = <<"running">> /\ corked = FALSE
    /\ hpc = "idle" /\ place = "moving" /\ cancelled = FALSE
    /\ view = "none" /\ pausing = FALSE
    /\ missed = FALSE

-----------------------------------------------------------------------------
(* The event channel.                                                       *)

Pending(kind) == \E i \in 1 .. Len(events) : events[i] = kind
StatePending == \E kind \in StateKinds : Pending(kind)
Full == Len(events) >= QueueCap

\* The poller takes an event out of LLDB and tries to send it.
Announce(kind) ==
    /\ events' = IF corked \/ Full THEN events ELSE Append(events, kind)
    /\ missed' = IF kind \in StateKinds THEN corked \/ Full ELSE missed
    /\ corked' = corked

-----------------------------------------------------------------------------
(* LLDB and the debuggee.                                                    *)

\* The accepted resume() becomes public.
LldbRuns ==
    /\ resuming
    /\ state' = "running" /\ resuming' = FALSE
    /\ Announce("running")
    /\ UNCHANGED <<halting, stops, restarts, callback, handler, client>>

Stops ==
    /\ stops < MaxStops
    /\ state' = "stopped" /\ stops' = stops + 1 /\ halting' = FALSE
    /\ Announce("stopped")

\* A breakpoint without a callback, a signal, the end of a step, or stop().
LldbStops ==
    /\ state = "running" /\ ~callback
    /\ Stops
    /\ UNCHANGED <<resuming, restarts, callback, handler, client>>

\* A stop from which LLDB resumed by itself: SBProcessEvent::restarted().
LldbRestarted ==
    /\ state = "running" /\ ~callback
    /\ Announce("restarted")
    /\ UNCHANGED <<lldb, handler, client>>

LldbExits ==
    /\ state # "exited" /\ ~callback /\ hpc # "step"
    /\ state' = "exited" /\ resuming' = FALSE /\ halting' = FALSE
    /\ Announce("exited")
    /\ UNCHANGED <<stops, restarts, callback, handler, client>>

\* A breakpoint with a callback is hit, at a run or in the middle of a step.
BreakpointHit ==
    /\ ~callback
    /\ state = "running" \/ (hpc = "step" /\ place = "moving")
    /\ callback' = TRUE
    /\ UNCHANGED <<state, resuming, halting, stops, restarts, queue, handler,
                   client, missed>>

-----------------------------------------------------------------------------
(* The session lock. The waiters are served in the order of their arrival,   *)
(* so nothing overtakes a callback.                                          *)
SessionIsFree == hpc = "idle" /\ ~callback

\* on_breakpoint_hit gets the session and decides whether to stop.
CallbackRuns ==
    /\ callback /\ hpc = "idle"
    /\ callback' = FALSE
    /\ \/ Stops
       \/ UNCHANGED <<state, stops, halting, queue, missed>>
    /\ UNCHANGED <<resuming, restarts, handler, client>>

-----------------------------------------------------------------------------
(* What the client is told. A handler may notify it on its own account;      *)
(* events that are still queued are handled later and may overrule it.       *)

Hears(news) ==
    /\ view' = news
    /\ pausing' = (pausing /\ news = "running")

\* Responses and events go out by try_send: the client hears the news and the
\* debt is m, or the channel to the client is full, and the news is lost.
Told(news, m) ==
    \/ Hears(news) /\ missed' = m
    \/ missed' = TRUE /\ UNCHANGED client

\* notify_process_stopped and refresh_client_display.
NotifyProcessStopped ==
    Told("stopped", IF StatePending THEN missed ELSE state = "exited")

NotifyProcessRunning == Told("running", missed /\ StatePending)

-----------------------------------------------------------------------------
(* Requests that resume.                                                     *)

\* LLDB answers questions about threads and frames.
Suspended == state = "stopped" /\ ~resuming

\* handle_next, handle_step_out, handle_step_back, handle_reverse_continue, and
\* handle_step_in without a target: LLDB takes the call, and the response tells
\* the client that the debuggee runs. If it refuses, nothing changes here.
HandleStep ==
    /\ SessionIsFree /\ Suspended
    /\ resuming' = TRUE
    /\ Told("running", missed)
    /\ UNCHANGED <<state, halting, stops, restarts, callback, queue, handler>>

HandleContinue ==
    /\ SessionIsFree
    /\ IF Suspended THEN resuming' = TRUE /\ Told("running", missed) /\ hpc' = hpc
       ELSE hpc' = "continue" /\ UNCHANGED <<resuming, client, missed>>
    /\ UNCHANGED <<state, halting, stops, restarts, callback, queue, place,
                   cancelled>>

\* resume() has failed: "Did we lose a 'running' event?"
ContinueRefused ==
    /\ hpc = "continue"
    /\ hpc' = "idle"
    /\ IF state = "running" THEN NotifyProcessRunning ELSE UNCHANGED <<client, missed>>
    /\ UNCHANGED <<lldb, queue, place, cancelled>>

-----------------------------------------------------------------------------
(* pause                                                                     *)

\* stop() is accepted.
HandlePause ==
    /\ SessionIsFree /\ state = "running" /\ stops < MaxStops
    /\ halting' = TRUE /\ pausing' = TRUE
    /\ UNCHANGED <<state, resuming, stops, restarts, callback, queue, handler,
                   view, missed>>

\* stop() fails, because the process is not running...
HandlePauseFails ==
    /\ SessionIsFree /\ state # "running"
    /\ hpc' = "pause" /\ pausing' = TRUE
    /\ UNCHANGED <<lldb, queue, place, cancelled, view, missed>>

\* Mutant of PauseRefused: the request succeeds and nobody is told.
PauseRefusedSilently ==
    /\ hpc = "pause"
    /\ hpc' = "idle"
    /\ pausing' = (pausing /\ state # "running")
    /\ UNCHANGED <<lldb, queue, place, cancelled, view, missed>>

\* Mutant of PauseRefused: it polls until the process does not run.
PauseRefusedWaits ==
    /\ hpc = "pause" /\ state # "running"
    /\ hpc' = "idle"
    /\ NotifyProcessStopped
    /\ UNCHANGED <<lldb, queue, place, cancelled>>

\* ... "Did we lose a 'stopped' event?" If it runs now, the error is returned.
PauseRefused ==
    /\ hpc = "pause"
    /\ hpc' = "idle"
    /\ IF state # "running" THEN NotifyProcessStopped
       ELSE pausing' = FALSE /\ UNCHANGED <<view, missed>>
    /\ UNCHANGED <<lldb, queue, place, cancelled>>

-----------------------------------------------------------------------------
(* handle_step_in with a target: step_into_target, in synchronous mode.      *)

\* The first step.
HandleStepInTarget ==
    /\ SessionIsFree /\ Suspended /\ stops < MaxStops
    /\ hpc' = "step" /\ place' = "moving" /\ cancelled' = FALSE
    /\ UNCHANGED <<lldb, queue, client, missed>>

\* The thread stops somewhere, or is gone with its process.
SyncArrives(there) ==
    /\ hpc = "step" /\ place = "moving" /\ ~callback
    /\ place' = there
    /\ state' = IF there = "gone" THEN "exited" ELSE state
    /\ missed' = (missed \/ there = "gone")
    /\ UNCHANGED <<resuming, halting, stops, restarts, callback, queue, hpc,
                   cancelled, client>>

\* On a trampoline or still in the statement: step in. In a function that was
\* not asked for: step out.
SyncStepsOn ==
    /\ hpc = "step" /\ place \in {"trampoline", "statement", "callee"}
    /\ ~cancelled
    /\ place' = "moving"
    /\ UNCHANGED <<lldb, queue, hpc, cancelled, client, missed>>

\* Arrived, out of the statement or of the frame, cancelled, or a step fails:
\* errors are logged and the client is told of a stop in each case.
SyncEnds ==
    /\ hpc = "step" /\ place # "moving"
    /\ hpc' = "idle" /\ place' = "moving" /\ cancelled' = FALSE
    /\ stops' = stops + 1
    /\ NotifyProcessStopped
    /\ UNCHANGED <<state, resuming, halting, restarts, callback, queue>>

\* A cancel request for the step.
CancelStep ==
    /\ hpc = "step" /\ ~cancelled
    /\ cancelled' = TRUE
    /\ UNCHANGED <<lldb, queue, hpc, place, client, missed>>

\* step_into_target waits for the thread, which waits for the callback, which
\* waits for the session that step_into_target holds: nothing moves again.
Blocked == hpc = "step" /\ place = "moving" /\ callback

\* The callback's thread sleeps while a handler has the session. (Blocked is no
\* deadlock to TLC for this step; CallbackIsServed says where it may happen.)
CallbackWaits == callback /\ hpc # "idle" /\ UNCHANGED vars

-----------------------------------------------------------------------------
(* goto, settings, restart, terminate, and the debug console.                *)

\* handle_goto: the jump is followed by a fake stop.
HandleGoto ==
    /\ SessionIsFree /\ Suspended
    /\ NotifyProcessStopped
    /\ UNCHANGED <<lldb, queue, handler>>

\* The display is refreshed if no process is running, even if there is none.
HandleAdapterSettings ==
    /\ SessionIsFree /\ state # "running"
    /\ NotifyProcessStopped
    /\ UNCHANGED <<lldb, queue, handler>>

\* terminate_debuggee of handle_restart fails between cork() and uncork().
HandleRestartFails ==
    /\ SessionIsFree /\ state # "exited"
    /\ corked' = TRUE
    /\ UNCHANGED <<lldb, events, handler, client, missed>>

\* handle_restart kills the process, whose Exited event may outlive the corked
\* period, and starts another: "run", "entry" (attached and stopped, of which
\* LLDB says nothing) or "fail".
HandleRestart(start) ==
    /\ SessionIsFree /\ restarts < MaxRuns /\ (start = "entry" => stops < MaxStops)
    /\ restarts' = restarts + 1
    /\ corked' = FALSE
    /\ \E survives \in BOOLEAN :
          /\ survives => state # "exited" /\ ~Full
          /\ events' = IF survives THEN Append(events, "exited") ELSE events
          /\ IF start = "entry" THEN Told("stopped", Pending("running"))
             ELSE /\ pausing' = FALSE /\ view' = view
                  /\ missed' = IF start = "fail" /\ state # "exited" THEN ~survives
                               ELSE missed
    /\ state' = IF start = "fail" THEN "exited" ELSE "stopped"
    /\ resuming' = (start = "run") /\ halting' = FALSE
    /\ stops' = IF start = "entry" THEN stops + 1 ELSE stops
    /\ UNCHANGED <<callback, handler>>

\* handle_terminate resumes a suspended process to signal it.
HandleTerminate ==
    /\ SessionIsFree /\ Suspended
    /\ resuming' = TRUE
    /\ UNCHANGED <<state, halting, stops, restarts, callback, queue, handler,
                   client, missed>>

\* The user resumes the process with a command, in either terminal.
ConsoleResumes ==
    /\ Suspended /\ hpc # "step"
    /\ resuming' = TRUE
    /\ UNCHANGED <<state, halting, stops, restarts, callback, queue, handler,
                   client, missed>>

-----------------------------------------------------------------------------
(* The main loop handles a debug event.                                      *)

\* Mutant of IsStop: restarted() is not looked at.
IsStopEvenRestarted(kind) == kind \in {"stopped", "restarted"}

\* Stopped and not restarted, Crashed or Suspended.
IsStop(kind) == kind = "stopped"

\* Mutant of IsEnd: the event alone decides.
IsEndByEvent(kind) == kind = "exited"

\* notify_process_terminated looks at the process as it is now.
IsEnd(kind) == kind = "exited" /\ state = "exited"

\* handle_process_event
HandleProcessEvent ==
    /\ SessionIsFree /\ events # <<>>
    /\ events' = Tail(events)
    /\ LET kind == Head(events) IN
       CASE IsStop(kind)     -> Told("stopped", missed)
         [] kind = "running" -> Told("running", missed)
         [] IsEnd(kind)      -> Told("ended", missed)
         [] OTHER            -> UNCHANGED <<client, missed>>
    /\ UNCHANGED <<lldb, corked, handler>>

LldbNext ==
    \/ LldbRuns \/ LldbStops \/ LldbRestarted \/ LldbExits \/ BreakpointHit
    \/ \E there \in Places \ {"moving"} : SyncArrives(there)
    \/ ConsoleResumes

SessionNext ==
    \/ CallbackRuns \/ HandleProcessEvent
    \/ HandleContinue \/ ContinueRefused
    \/ HandlePause \/ HandlePauseFails \/ PauseRefused
    \/ HandleStep
    \/ HandleStepInTarget \/ SyncStepsOn \/ SyncEnds \/ CancelStep \/ CallbackWaits
    \/ HandleGoto \/ HandleAdapterSettings
    \/ HandleRestartFails
    \/ \E start \in {"run", "entry", "fail"} : HandleRestart(start)
    \/ HandleTerminate

Next == LldbNext \/ SessionNext

Spec == Init /\ [][Next]_vars

(* Fairness. An accepted resume() or stop() takes effect, however often the   *)
(* debuggee runs into a callback meanwhile. A handler that was begun goes on. *)
(* The mutex is fair to the callback. select! polls its branches in random    *)
(* order, so an event that waits again and again is not passed over for ever. *)
Fairness ==
    /\ WF_vars(LldbRuns)
    /\ SF_vars(halting /\ LldbStops)
    /\ WF_vars(CallbackRuns)
    /\ WF_vars(PauseRefused) /\ WF_vars(ContinueRefused)
    /\ SF_vars(HandleProcessEvent)

FairSpec == Spec /\ Fairness

-----------------------------------------------------------------------------
(* Properties.                                                               *)

Seen == IF state = "exited" THEN "ended" ELSE state

\* When nothing is under way, the client's last news of the debuggee is true:
\* whatever fake stops pause, goto and settings sent ahead of queued events, and
\* whatever events of a killed process came late. It fails only if the last
\* change was never announced: its event was dropped, or swallowed by a
\* synchronous step, or a notification was lost in a full channel to the client,
\* or sent ahead of the stale events of an earlier process, or for a dead one.
\* A later pause or continue request that
\* finds the debuggee in another state than the client makes it true again
\* (handle_process_event, handle_pause, handle_continue, refresh_client_display).
ClientConverges ==
    ~StatePending /\ hpc = "idle" /\ ~resuming /\ ~missed => view = Seen

\* The session is never declared over while its process lives: not for the exit
\* of the process that a restart killed, however late its event comes
\* (notify_process_terminated).
NoFalseEnd == [][view' = "ended" => view = "ended" \/ state = "exited"]_vars

\* A pause request that is not refused shows the client a stop or the end of the
\* debuggee, even if the debuggee stood already, unless the news was lost or a
\* synchronous step keeps the session (handle_pause).
PauseTakesEffect ==
    pausing /\ (halting \/ hpc = "pause") ~> (~pausing \/ missed \/ hpc = "step")

\* A breakpoint callback gets the session: no handler keeps it while it waits for
\* the debuggee, except step_into_target, whose step may never end then
\* (block_on in the callback, Shared::map, with_sync_mode).
CallbackIsServed == callback ~> (~callback \/ Blocked)
=============================================================================
