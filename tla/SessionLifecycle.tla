-------------------------- MODULE SessionLifecycle --------------------------
(***************************************************************************)
(* The life of a debug session: launch or attach, the configurationDone     *)
(* handshake, the debuggee terminal, restart, terminate, disconnect, and    *)
(* the shutdown when the client goes away (debug_session.rs, launch.rs,     *)
(* terminal.rs, codelldb-launch).                                           *)
(*                                                                          *)
(* Every handler runs to completion under the session lock, so it is one    *)
(* action.  What interleaves with it are the tasks the handlers spawn on    *)
(* the same LocalSet (the pending launch, the configurationDone poll, the   *)
(* runInTerminal request), the 10 second timer of Terminal::create, the     *)
(* codelldb-launch helper process and the debuggee.                         *)
(***************************************************************************)
EXTENDS Naturals

CONSTANTS
    Modes,           \* subset of {"launch", "attach"}: what the client starts with
    TerminalKinds,   \* subset of {"console", "id", "run"}: where stdio goes
    MaxRestarts      \* bound: number of restart requests

ASSUME LifecycleAssumption ==
    /\ Modes \subseteq {"launch", "attach"}
    /\ TerminalKinds \subseteq {"console", "id", "run"}
    /\ MaxRestarts \in Nat

VARIABLES
    conn,          \* the client's connection: "open" or "closed"
    main,          \* the main loop: "running" or "done"
    mode,          \* "none", or the mode of the session
    kind,          \* the terminal kind of the launch configuration
    initialized,   \* the initialized event has been sent
    launch,        \* the task of handle_launch / handle_attach
    waiters,       \* receiver_count of configuration_done_sender
    config,        \* the task of handle_configuration_done
    reverse,       \* the task awaiting the runInTerminal response
    helper,        \* the codelldb-launch process
    terminal,      \* debuggee_terminal: "none", "id" or "helper"
    debuggee,      \* the process and what the session knows about it
    disconnected,  \* a disconnect request has been answered with success
    restarts       \* number of restart requests

clientVars == <<conn, mode, kind, restarts>>
termVars == <<reverse, helper, terminal>>
vars == <<clientVars, main, initialized, launch, waiters, config, termVars,
          debuggee, disconnected>>

(***************************************************************************)
(* state is the process state, terminate_on_disconnect the session's field. *)
(* launched (we started it, as opposed to attached to it), complete (the    *)
(* start ran to its end) and unasked (what became of processes about which  *)
(* the client expressed no wish) are history.                               *)
(***************************************************************************)
NoDebuggee ==
    [state |-> "none", terminate_on_disconnect |-> FALSE,
     launched |-> FALSE, complete |-> FALSE, unasked |-> {}]

Init ==
    /\ conn = "open" /\ main = "running" /\ mode = "none" /\ kind = "console"
    /\ initialized = FALSE /\ launch = "none" /\ waiters = 0 /\ config = "none"
    /\ reverse = "none" /\ helper = "none" /\ terminal = "none"
    /\ debuggee = NoDebuggee
    /\ disconnected = FALSE /\ restarts = 0

\* States of the launch task in which its future has not completed.
Pending == {"waiting", "woken", "terminal", "ready"}

-----------------------------------------------------------------------------
(* Request handlers, executed by the main loop.                             *)

\* handle_launch or handle_attach fails before set_target: an error response.
HandleLaunchFails(m) ==
    /\ main = "running" /\ mode = "none"
    /\ mode' = m
    /\ launch' = "failed"
    /\ UNCHANGED <<conn, kind, restarts, main, initialized, waiters, config,
                   termVars, debuggee, disconnected>>

\* Mutant of HandleLaunch: the receiver is not taken before the task waits.
HandleLaunchUnsubscribed(m, k) ==
    /\ main = "running" /\ mode = "none"
    /\ mode' = m /\ kind' = k
    /\ initialized' = TRUE
    /\ launch' = "waiting"
    /\ UNCHANGED <<conn, restarts, main, waiters, config, termVars, debuggee,
                   disconnected>>

\* It succeeds: initialized is sent, and the rest waits for configurationDone.
HandleLaunch(m, k) ==
    /\ main = "running" /\ mode = "none"
    /\ mode' = m /\ kind' = k
    /\ initialized' = TRUE
    /\ waiters' = waiters + 1
    /\ launch' = "waiting"
    /\ UNCHANGED <<conn, restarts, main, config, termVars, debuggee, disconnected>>

\* handle_configuration_done wakes the pending task and spawns the poll.
HandleConfigurationDone ==
    /\ main = "running" /\ initialized /\ config = "none"
    /\ config' = "polling"
    /\ launch' = IF launch = "waiting" THEN "woken" ELSE launch
    /\ UNCHANGED <<clientVars, main, initialized, waiters, termVars, debuggee, disconnected>>

(***************************************************************************)
(* terminate_debuggee: a live process is killed or detached from, as the    *)
(* client wishes ("kill" or "keep") or else ("none") by                     *)
(* terminate_on_disconnect.                                                 *)
(***************************************************************************)
Terminated(d, wish) ==
    LET kill == IF wish = "none" THEN d.terminate_on_disconnect ELSE wish = "kill"
        fate == IF wish = "none"
                THEN {[launched |-> d.launched, complete |-> d.complete, killed |-> kill]}
                ELSE {}
    IN  IF d.state # "alive" THEN d
        ELSE [d EXCEPT !.state = IF kill THEN "dead" ELSE "detached",
                       !.unasked = @ \cup fate]

\* Mutant of Started: attaching leaves terminate_on_disconnect alone.
StartedKeepsFlag(d, m) ==
    [d EXCEPT !.state = "alive", !.launched = (m = "launch"), !.complete = TRUE,
              !.terminate_on_disconnect = @ \/ m = "launch"]

\* complete_launch or complete_attach succeeds.
Started(d, m) ==
    [d EXCEPT !.state = "alive", !.launched = (m = "launch"), !.complete = TRUE,
              !.terminate_on_disconnect = (m = "launch")]

\* processCreateCommands fail after they have started a process.
HalfStarted(d, m) ==
    [d EXCEPT !.state = "alive", !.launched = (m = "launch"), !.complete = FALSE]

\* complete_launch and complete_attach, with every way they can end.
Starts(d, m) == {d, Started(d, m), HalfStarted(d, m)}

\* Dropping the Terminal answers the helper, which then exits.
LetGoOfTerminal ==
    /\ terminal' = "none"
    /\ helper' = IF terminal = "helper" THEN "released" ELSE helper
    /\ UNCHANGED reverse

\* handle_disconnect.  kill() and detach() may fail, which is an error response.
HandleDisconnect(wish) ==
    /\ main = "running" /\ mode # "none" /\ ~disconnected
    /\ LetGoOfTerminal
    /\ \/ /\ debuggee' = Terminated(debuggee, wish)
          /\ disconnected' = TRUE
       \/ /\ debuggee.state = "alive"
          /\ UNCHANGED <<debuggee, disconnected>>
    /\ UNCHANGED <<clientVars, main, initialized, launch, waiters, config>>

\* handle_restart: terminate_debuggee(None), which may fail, then start anew.
HandleRestart(m) ==
    /\ main = "running" /\ launch = "answered" /\ restarts < MaxRestarts
    /\ restarts' = restarts + 1
    /\ debuggee' \in {debuggee} \cup Starts(Terminated(debuggee, "none"), m)
    /\ UNCHANGED <<conn, mode, kind, main, initialized, launch, waiters, config,
                   termVars, disconnected>>

-----------------------------------------------------------------------------
(* The launch task.                                                         *)

\* create_terminal decides; after the shutdown its use of self_ref panics.
CreateTerminal ==
    /\ launch = "woken" /\ mode = "launch"
    /\ \/ /\ kind = "console"
          /\ launch' = "ready"
          /\ UNCHANGED <<waiters, termVars>>
       \/ /\ kind = "id"
          /\ launch' = "ready"
          /\ terminal' = "id"
          /\ helper' = IF terminal = "helper" THEN "released" ELSE helper
          /\ UNCHANGED <<waiters, reverse>>
       \/ /\ kind = "run" /\ main = "running"
          /\ launch' = "terminal"
          /\ reverse' = "pending"
          /\ UNCHANGED <<waiters, helper, terminal>>
       \/ /\ kind = "run" /\ main = "done"
          /\ launch' = "panicked"
          /\ waiters' = waiters - 1
          /\ UNCHANGED termVars
    /\ UNCHANGED <<clientVars, main, initialized, config, debuggee, disconnected>>

\* An attach needs no terminal.
AttachWoken ==
    /\ launch = "woken" /\ mode = "attach"
    /\ launch' = "ready"
    /\ UNCHANGED <<clientVars, main, initialized, waiters, config, termVars,
                   debuggee, disconnected>>

\* Terminal::create: the helper has connected and sent its environment.
TerminalConnected ==
    /\ launch = "terminal" /\ helper = "connected"
    /\ terminal' = "helper"
    /\ launch' = "ready"
    /\ UNCHANGED <<clientVars, main, initialized, waiters, config, reverse, helper,
                   debuggee, disconnected>>

\* Mutant of TerminalFails: the accepted connection is leaked.
TerminalFailsLeaks ==
    /\ launch = "terminal"
    /\ launch' = "ready"
    /\ UNCHANGED <<clientVars, main, initialized, waiters, config, termVars,
                   debuggee, disconnected>>

\* The 10 second timeout, or an error: the debuggee gets no terminal, and a
\* half-made connection is closed without an answer.
TerminalFails ==
    /\ launch = "terminal"
    /\ launch' = "ready"
    /\ helper' = IF helper = "connected" THEN "failed" ELSE helper
    /\ UNCHANGED <<clientVars, main, initialized, waiters, config, reverse, terminal,
                   debuggee, disconnected>>

\* complete_launch / complete_attach; the future ends and drops its receiver.
Complete ==
    /\ launch = "ready"
    /\ debuggee' \in Starts(debuggee, mode)
    /\ launch' = "completed"
    /\ waiters' = waiters - 1
    /\ UNCHANGED <<clientVars, main, initialized, config, termVars, disconnected>>

\* The task takes the session lock again and sends the response.
LaunchResponds ==
    /\ launch = "completed"
    /\ launch' = "answered"
    /\ UNCHANGED <<clientVars, main, initialized, waiters, config, termVars,
                   debuggee, disconnected>>

-----------------------------------------------------------------------------
(* The other tasks and the outside world.                                   *)

\* Mutant of ConfigurationDoneResponds: does not wait for the receivers.
ConfigurationDoneRespondsAtOnce ==
    /\ config = "polling"
    /\ config' = "answered"
    /\ UNCHANGED <<clientVars, main, initialized, launch, waiters, termVars,
                   debuggee, disconnected>>

\* The poll finds no receiver left and responds.
ConfigurationDoneResponds ==
    /\ config = "polling" /\ waiters = 0
    /\ config' = "answered"
    /\ UNCHANGED <<clientVars, main, initialized, launch, waiters, termVars,
                   debuggee, disconnected>>

\* The client starts the helper (external), at the latest before it leaves.
ClientStartsHelper ==
    /\ conn = "open" /\ reverse = "pending" /\ helper = "none"
    /\ helper' = "started"
    /\ UNCHANGED <<clientVars, main, initialized, launch, waiters, config, reverse,
                   terminal, debuggee, disconnected>>

\* The helper connects while Terminal::create listens, or is refused.
HelperConnects ==
    /\ helper = "started"
    /\ helper' = IF launch = "terminal" THEN "connected" ELSE "failed"
    /\ UNCHANGED <<clientVars, main, initialized, launch, waiters, config, reverse,
                   terminal, debuggee, disconnected>>

\* Mutant of ReverseEnds: only a response ends the runInTerminal task.
ReverseEndsByResponse ==
    /\ reverse = "pending" /\ conn = "open"
    /\ reverse' = "done"
    /\ UNCHANGED <<clientVars, main, initialized, launch, waiters, config, helper,
                   terminal, debuggee, disconnected>>

\* The runInTerminal task ends with the client's response, or when the
\* dispatcher is gone and drops pending_requests.
ReverseEnds ==
    /\ reverse = "pending"
    /\ reverse' = "done"
    /\ UNCHANGED <<clientVars, main, initialized, launch, waiters, config, helper,
                   terminal, debuggee, disconnected>>

\* The debuggee exits by itself, or as a consequence of a terminate request.
DebuggeeExits ==
    /\ debuggee.state = "alive"
    /\ debuggee' = [debuggee EXCEPT !.state = "dead"]
    /\ UNCHANGED <<clientVars, main, initialized, launch, waiters, config, termVars,
                   disconnected>>

\* The client goes away.
ClientCloses ==
    /\ conn = "open"
    /\ conn' = "closed"
    /\ UNCHANGED <<mode, kind, restarts, main, initialized, launch, waiters, config,
                   termVars, debuggee, disconnected>>

\* End of the requests stream: self_ref and the callbacks are cleared.
MainLoopEnds ==
    /\ conn = "closed" /\ main = "running"
    /\ main' = "done"
    /\ UNCHANGED <<clientVars, initialized, launch, waiters, config, termVars,
                   debuggee, disconnected>>

\* Tasks of the LocalSet that hold a reference to the shared session.
References ==
    {t \in {"launch", "config"} :
        \/ t = "launch" /\ launch \in Pending \cup {"completed"}
        \/ t = "config" /\ config = "polling"}

\* The LocalSet has run all its tasks: run_debug_session returns.
SessionOver == main = "done" /\ References = {} /\ reverse # "pending"

\* The last reference is gone: the session and its Terminal are dropped.
SessionDropped ==
    /\ SessionOver /\ terminal # "none"
    /\ LetGoOfTerminal
    /\ UNCHANGED <<clientVars, main, initialized, launch, waiters, config,
                   debuggee, disconnected>>

\* A launch that no configurationDone can wake any more keeps the LocalSet,
\* and with it the adapter, from ever finishing.
Abandoned == main = "done" /\ launch = "waiting"

\* The states in which the adapter may rest.
Finished ==
    /\ (SessionOver /\ terminal = "none") \/ Abandoned
    /\ UNCHANGED vars

-----------------------------------------------------------------------------
Handlers ==
    \/ \E m \in Modes : HandleLaunchFails(m)
    \/ \E m \in Modes, k \in TerminalKinds : HandleLaunch(m, k)
    \/ HandleConfigurationDone
    \/ \E w \in {"kill", "keep", "none"} : HandleDisconnect(w)
    \/ \E m \in Modes : HandleRestart(m)

Tasks ==
    \/ CreateTerminal \/ AttachWoken \/ TerminalConnected \/ TerminalFails
    \/ Complete \/ LaunchResponds

Next ==
    \/ Handlers \/ Tasks \/ ConfigurationDoneResponds
    \/ ClientStartsHelper \/ HelperConnects \/ ReverseEnds
    \/ DebuggeeExits \/ ClientCloses \/ MainLoopEnds \/ SessionDropped \/ Finished

Spec == Init /\ [][Next]_vars

(***************************************************************************)
(* The LocalSet polls every ready task; Terminal::create is bounded by its  *)
(* timer; the dispatcher drops pending_requests when the connection closes. *)
(* Nothing forces the client to send configurationDone or to leave.         *)
(***************************************************************************)
FairSpec ==
    /\ Spec
    /\ WF_vars(Tasks)
    /\ WF_vars(ConfigurationDoneResponds)
    /\ WF_vars(conn = "closed" /\ ReverseEnds)
    /\ WF_vars(MainLoopEnds)
    /\ WF_vars(SessionDropped)

-----------------------------------------------------------------------------
(* Properties.                                                              *)

TypeOK ==
    /\ conn \in {"open", "closed"} /\ main \in {"running", "done"}
    /\ mode \in {"none", "launch", "attach"} /\ kind \in {"console", "id", "run"}
    /\ initialized \in BOOLEAN
    /\ launch \in {"none", "failed", "panicked", "completed", "answered"} \cup Pending
    /\ waiters \in 0 .. 1
    /\ config \in {"none", "polling", "answered"}
    /\ reverse \in {"none", "pending", "done"}
    /\ helper \in {"none", "started", "connected", "released", "failed"}
    /\ terminal \in {"none", "id", "helper"}
    /\ debuggee \in [state : {"none", "alive", "dead", "detached"},
                     terminate_on_disconnect : BOOLEAN, launched : BOOLEAN,
                     complete : BOOLEAN,
                     unasked : SUBSET [launched : BOOLEAN, complete : BOOLEAN,
                                       killed : BOOLEAN]]
    /\ disconnected \in BOOLEAN
    /\ restarts \in 0 .. MaxRestarts

\* configurationDone is answered only after the pending launch or attach has
\* run to its end, terminal and process included.
ConfigurationDoneWaits == config = "answered" => launch \notin Pending

\* When the client expresses no wish, a process that was launched is killed
\* and one that was attached to is left alive, whatever restarts came before.
\* Only processCreateCommands that fail half-way escape this: the process they
\* leave behind meets the fate of its predecessor.
UnaskedFate == \A f \in debuggee.unasked : f.complete => f.killed = f.launched

\* A helper that has handed over its terminal is eventually answered or cut
\* off once the client is gone: its terminal is not blocked for ever.
HelperIsReleased == (conn = "closed" /\ helper = "connected") ~> (helper # "connected")

\* When the client goes away the session comes to an end, unless a launch is
\* still waiting for a configurationDone that can no longer come.
SessionEnds == (conn = "closed") ~> (SessionOver \/ launch = "waiting")
=============================================================================
