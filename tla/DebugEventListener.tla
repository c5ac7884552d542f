------------------------- MODULE DebugEventListener -------------------------
(***************************************************************************)
(* The thread of debug_event_listener.rs that moves LLDB events from an     *)
(* SBListener to the session's main loop, and the cork/uncork pair by which *)
(* handle_restart keeps the events of the killed process from the client.   *)
(*                                                                          *)
(*   LLDB --SBListener queue--> poller thread --mpsc channel--> main loop   *)
(*                                  ^                                       *)
(*                    cork/uncork --+  (session thread, via a mutex)        *)
(***************************************************************************)
EXTENDS Naturals, Sequences, Functions

CONSTANTS
    MaxEvents,     \* bound: number of events LLDB broadcasts
    MaxRestarts,   \* bound: number of restart requests
    Capacity       \* channel_capacity

ASSUME ListenerAssumption ==
    /\ MaxEvents \in Nat
    /\ MaxRestarts \in Nat
    /\ Capacity \in Nat \ {0}

Events == 1 .. MaxEvents
NoEvent == 0

VARIABLES
    listener,     \* SBListener: events not yet returned by wait_for_event
    broadcasts,   \* number of events broadcast so far
    ppc,          \* poller thread: "wait", "lock" or "done"
    event,        \* what wait_for_event returned, NoEvent for a timeout
    corked,       \* Inner.corked
    was_corked,   \* Inner.was_corked
    channel,      \* mpsc channel to the main loop
    closed,       \* the main loop has dropped the receiver
    spc,          \* session thread: "idle", or in handle_restart: "terminating"
                  \* the old process or "starting" the new one
    restarts,     \* number of restarts begun
    handled,      \* events handed to handle_debug_event, in order
    epoch,        \* number of cork() and successful uncork() calls so far
    receivedIn,   \* epoch in which wait_for_event returned it
    discarded     \* [event, epoch] of each event dropped because of was_corked

lldbVars == <<listener, broadcasts>>
stateVars == <<corked, was_corked>>
sessionVars == <<spc, restarts, closed>>
vars == <<lldbVars, ppc, event, stateVars, channel, sessionVars, handled,
          epoch, receivedIn, discarded>>

Init ==
    /\ listener = <<>> /\ broadcasts = 0
    /\ ppc = "wait" /\ event = NoEvent
    /\ corked = FALSE /\ was_corked = FALSE
    /\ channel = <<>> /\ closed = FALSE
    /\ spc = "idle" /\ restarts = 0
    /\ handled = <<>>
    /\ epoch = 0
    /\ receivedIn = [e \in Events |-> 0]
    /\ discarded = {}

-----------------------------------------------------------------------------
(* LLDB (external): an event is queued in the listener at any time.         *)
Broadcast ==
    /\ broadcasts < MaxEvents
    /\ broadcasts' = broadcasts + 1
    /\ listener' = Append(listener, broadcasts + 1)
    /\ UNCHANGED <<ppc, event, stateVars, channel, sessionVars, handled, epoch,
                   receivedIn, discarded>>

-----------------------------------------------------------------------------
(* The poller thread.                                                       *)

\* wait_for_event returns an event.
WaitReturnsEvent ==
    /\ ppc = "wait" /\ listener # <<>>
    /\ event' = Head(listener)
    /\ listener' = Tail(listener)
    /\ receivedIn' = [receivedIn EXCEPT ![Head(listener)] = epoch]
    /\ ppc' = "lock"
    /\ UNCHANGED <<broadcasts, stateVars, channel, sessionVars, handled,
                   epoch, discarded>>

\* wait_for_event times out after one second without an event.
WaitTimesOut ==
    /\ ppc = "wait" /\ listener = <<>>
    /\ event' = NoEvent
    /\ ppc' = "lock"
    /\ UNCHANGED <<lldbVars, stateVars, channel, sessionVars, handled, epoch,
                   receivedIn, discarded>>

\* Mutant of PollerStops: a closed channel is noticed only when sending.
PollerStopsOnSend ==
    /\ ppc = "lock" /\ closed /\ event # NoEvent
    /\ ppc' = "done"
    /\ UNCHANGED <<lldbVars, event, stateVars, channel, sessionVars, handled,
                   epoch, receivedIn, discarded>>

\* sender.is_closed(), or try_send fails with Closed: the thread ends.
PollerStops ==
    /\ ppc = "lock" /\ closed
    /\ ppc' = "done"
    /\ UNCHANGED <<lldbVars, event, stateVars, channel, sessionVars, handled,
                   epoch, receivedIn, discarded>>

\* Mutant of MaySend: the decision reads corked, not its sticky copy.
MaySendUnlessCorkedNow == event # NoEvent /\ ~corked

\* received && !state.was_corked
MaySend == event # NoEvent /\ ~was_corked

\* Mutant of NextWasCorked: the sticky copy is only ever cleared by hand.
NextWasCorkedSticks == was_corked

\* state.was_corked = state.corked
NextWasCorked == corked

\* Mutant of ChannelFull: the capacity is not enforced.
ChannelNeverFull == FALSE

\* try_send fails with TrySendError::Full.
ChannelFull == Len(channel) >= Capacity

\* Mutant of AfterSend: a full channel ends the thread, as a closed one does.
AfterSendStopsWhenFull == IF MaySend /\ ChannelFull THEN "done" ELSE "wait"

\* After the critical section the thread goes back to waiting.
AfterSend == "wait"

(***************************************************************************)
(* The critical section: the event is sent (or dropped when the channel is  *)
(* full) unless the listener was corked, then was_corked is refreshed.      *)
(***************************************************************************)
PollerLocked ==
    /\ ppc = "lock" /\ ~closed
    /\ \/ /\ MaySend /\ ~ChannelFull
          /\ channel' = Append(channel, event)
          /\ UNCHANGED discarded
       \/ /\ MaySend /\ ChannelFull
          /\ UNCHANGED <<channel, discarded>>
       \/ /\ ~MaySend
          /\ discarded' = IF event = NoEvent THEN discarded
                          ELSE discarded \cup {[event |-> event, epoch |-> epoch]}
          /\ UNCHANGED channel
    /\ was_corked' = NextWasCorked
    /\ ppc' = AfterSend
    /\ event' = NoEvent
    /\ UNCHANGED <<lldbVars, corked, sessionVars, handled, epoch, receivedIn>>

-----------------------------------------------------------------------------
(* The session thread: main loop and handle_restart.                        *)

\* The main loop hands an event to handle_debug_event.
HandleDebugEvent ==
    /\ spc = "idle" /\ ~closed /\ channel # <<>>
    /\ handled' = Append(handled, Head(channel))
    /\ channel' = Tail(channel)
    /\ UNCHANGED <<lldbVars, ppc, event, stateVars, sessionVars, epoch,
                   receivedIn, discarded>>

\* cork()
Cork ==
    /\ corked' = TRUE
    /\ was_corked' = TRUE

\* handle_restart, up to terminate_debuggee.
RestartCorks ==
    /\ spc = "idle" /\ ~closed /\ restarts < MaxRestarts
    /\ Cork
    /\ spc' = "terminating"
    /\ restarts' = restarts + 1
    /\ epoch' = IF corked THEN epoch ELSE epoch + 1
    /\ UNCHANGED <<lldbVars, ppc, event, channel, closed, handled, receivedIn, discarded>>

\* terminate_debuggee succeeds: uncork().
RestartUncorks ==
    /\ spc = "terminating"
    /\ corked' = FALSE
    /\ spc' = "starting"
    /\ epoch' = epoch + 1
    /\ UNCHANGED <<lldbVars, ppc, event, was_corked, channel, restarts, closed,
                   handled, receivedIn, discarded>>

\* terminate_debuggee fails: `?` returns before uncork().
RestartFails ==
    /\ spc = "terminating"
    /\ spc' = "idle"
    /\ UNCHANGED <<lldbVars, ppc, event, stateVars, channel, restarts, closed,
                   handled, epoch, receivedIn, discarded>>

\* complete_launch or complete_attach returns, with or without an error.
RestartCompletes ==
    /\ spc = "starting"
    /\ spc' = "idle"
    /\ UNCHANGED <<lldbVars, ppc, event, stateVars, channel, restarts, closed,
                   handled, epoch, receivedIn, discarded>>

\* The main loop ends and drops the receiver.
SessionEnds ==
    /\ spc = "idle" /\ ~closed
    /\ closed' = TRUE
    /\ UNCHANGED <<lldbVars, ppc, event, stateVars, channel, spc, restarts,
                   handled, epoch, receivedIn, discarded>>

\* Rest state: the poller is gone.
Finished == ppc = "done" /\ UNCHANGED vars

-----------------------------------------------------------------------------
Poller == WaitReturnsEvent \/ WaitTimesOut \/ PollerStops \/ PollerLocked

Restart == RestartUncorks \/ RestartFails \/ RestartCompletes

Next ==
    \/ Broadcast \/ Poller \/ HandleDebugEvent \/ RestartCorks \/ Restart
    \/ SessionEnds \/ Finished

Spec == Init /\ [][Next]_vars

(***************************************************************************)
(* The poller is an OS thread whose wait is bounded by one second, and      *)
(* kill() and detach() return; the main loop keeps draining its channel.    *)
(***************************************************************************)
FairSpec ==
    /\ Spec
    /\ WF_vars(Poller)
    /\ WF_vars(Restart)
    /\ WF_vars(HandleDebugEvent)

-----------------------------------------------------------------------------
(* Properties.                                                              *)

TypeOK ==
    /\ listener \in Seq(Events) /\ broadcasts \in 0 .. MaxEvents
    /\ ppc \in {"wait", "lock", "done"}
    /\ event \in Events \cup {NoEvent}
    /\ corked \in BOOLEAN /\ was_corked \in BOOLEAN
    /\ channel \in Seq(Events) /\ Len(channel) <= Capacity
    /\ closed \in BOOLEAN
    /\ spc \in {"idle", "terminating", "starting"} /\ restarts \in 0 .. MaxRestarts
    /\ handled \in Seq(Events)
    /\ epoch \in Nat
    /\ receivedIn \in [Events -> Nat]
    /\ discarded \subseteq [event : Events, epoch : Nat]

\* Odd epochs lie between a cork() and the uncork() that follows it.
Corked(n) == n % 2 = 1

Forwarded == Range(channel) \cup Range(handled)

\* An event that wait_for_event returns between cork() and uncork() is never
\* forwarded, even when uncork() comes before the poller takes the lock: this
\* is what the sticky copy of corked is for. (An event that is still queued in
\* the SBListener at uncork() is received afterwards, and may be forwarded.)
ReceivedWhileCorkedIsDropped ==
    \A e \in Forwarded : ~Corked(receivedIn[e])

\* The price of the sticky copy is bounded: between an uncork() and the next
\* cork() at most one event is discarded, so no more than the first event of
\* the restarted process is kept from the session.
AtMostOneDiscardAfterUncork ==
    \A d1, d2 \in discarded :
        ~Corked(d1.epoch) /\ d1.epoch = d2.epoch => d1 = d2

\* The poller thread ends once the session has dropped its receiver.
PollerTerminates == closed ~> (ppc = "done")

\* Every event that reaches the listener leaves it, unless the session ends.
ListenerDrains ==
    \A e \in Events : (broadcasts >= e) ~> (e \notin Range(listener) \/ closed)
=============================================================================
