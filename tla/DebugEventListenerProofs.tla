---------------------- MODULE DebugEventListenerProofs ----------------------
(***************************************************************************)
(* Proofs about DebugEventListener, for any number of events and restarts   *)
(* and any channel capacity.                                                *)
(***************************************************************************)
EXTENDS DebugEventListener, SequenceFacts

(***************************************************************************)
(* The inductive invariant.  An event still in the listener has been        *)
(* neither forwarded nor taken, and is there once: the time at which it     *)
(* will be received is not yet recorded.                                    *)
(***************************************************************************)
ListenerIsFresh ==
    /\ \A i \in 1 .. Len(listener) :
          /\ listener[i] <= broadcasts
          /\ listener[i] \notin Forwarded
          /\ listener[i] # event
    /\ \A i, j \in 1 .. Len(listener) : listener[i] = listener[j] => i = j
    /\ \A e \in Forwarded \cup {event} : e <= broadcasts

\* corked follows the epoch, and was_corked never lags behind a cork().
CorkIsSticky ==
    /\ corked <=> Corked(epoch)
    /\ corked => was_corked
    /\ spc = "terminating" => corked

\* The poller remembers that its event was received while corked.
TakenWhileCorked ==
    ppc = "lock" /\ event # NoEvent /\ Corked(receivedIn[event]) => was_corked

\* A discard in the current epoch has refreshed was_corked.
DiscardRefreshes ==
    \A d \in discarded :
        /\ d.epoch <= epoch
        /\ d.epoch = epoch /\ ~Corked(epoch) => ~was_corked

IInv ==
    /\ TypeOK /\ ListenerIsFresh /\ CorkIsSticky /\ TakenWhileCorked
    /\ DiscardRefreshes /\ ReceivedWhileCorkedIsDropped /\ AtMostOneDiscardAfterUncork

-----------------------------------------------------------------------------
(* Facts about the operators.                                               *)

\* Epochs alternate between corked and uncorked.
LEMMA CorkedAlternates ==
    ASSUME NEW n \in Nat
    PROVE  Corked(n + 1) <=> ~Corked(n)
  BY DEF Corked

-----------------------------------------------------------------------------
(* Type correctness.                                                        *)

\* Every action preserves the types.
LEMMA TypeStep == TypeOK /\ [Next]_vars => TypeOK'
  <1> SUFFICES ASSUME TypeOK, [Next]_vars PROVE TypeOK'
    OBVIOUS
  <1> USE ListenerAssumption DEF TypeOK
  <1>1. CASE Broadcast
    BY <1>1 DEF Broadcast, Events, stateVars, sessionVars
  <1>2. CASE WaitReturnsEvent
    <2>1. Head(listener) \in Events /\ Tail(listener) \in Seq(Events)
      BY <1>2, RangeHeadTail DEF WaitReturnsEvent
    <2>2. QED
      BY <1>2, <2>1 DEF WaitReturnsEvent, stateVars, sessionVars
  <1>3. CASE WaitTimesOut
    BY <1>3 DEF WaitTimesOut, lldbVars, stateVars, sessionVars
  <1>4. CASE PollerStops
    BY <1>4 DEF PollerStops, lldbVars, stateVars, sessionVars
  <1>5. CASE PollerLocked
    <2> USE <1>5 DEF PollerLocked, MaySend, ChannelFull, NextWasCorked, AfterSend,
                     lldbVars, sessionVars
    <2>1. channel' \in Seq(Events) /\ Len(channel') <= Capacity
      <3>1. CASE MaySend /\ ~ChannelFull
        <4>1. channel' = Append(channel, event) /\ event \in Events
          BY <3>1
        <4>2. Len(channel) < Capacity
          BY <3>1
        <4>3. QED
          BY <4>1, <4>2
      <3>2. CASE ~(MaySend /\ ~ChannelFull)
        BY <3>2
      <3>3. QED
        BY <3>1, <3>2
    <2>2. discarded' \subseteq [event : Events, epoch : Nat]
      OBVIOUS
    <2>3. QED
      BY <2>1, <2>2
  <1>6. CASE HandleDebugEvent
    <2>1. /\ Head(channel) \in Events /\ Tail(channel) \in Seq(Events)
          /\ Len(Tail(channel)) = Len(channel) - 1
      BY <1>6, RangeHeadTail DEF HandleDebugEvent
    <2>2. QED
      BY <1>6, <2>1 DEF HandleDebugEvent, lldbVars, stateVars, sessionVars
  <1>7. CASE RestartCorks
    <2>1. restarts' \in 0 .. MaxRestarts /\ epoch' \in Nat
      BY <1>7 DEF RestartCorks
    <2>2. QED
      BY <1>7, <2>1 DEF RestartCorks, Cork, lldbVars
  <1>8. CASE RestartUncorks
    <2>1. epoch' \in Nat
      BY <1>8 DEF RestartUncorks
    <2>2. /\ corked' = FALSE /\ spc' = "starting"
          /\ UNCHANGED <<listener, broadcasts, ppc, event, was_corked, channel, closed,
                         restarts, handled, receivedIn, discarded>>
      BY <1>8 DEF RestartUncorks, lldbVars
    <2>3. QED
      BY <2>1, <2>2
  <1>9. CASE RestartFails \/ RestartCompletes
    BY <1>9 DEF RestartFails, RestartCompletes, lldbVars, stateVars
  <1>10. CASE SessionEnds
    BY <1>10 DEF SessionEnds, lldbVars, stateVars
  <1>11. CASE UNCHANGED vars
    BY <1>11 DEF vars, lldbVars, stateVars, sessionVars
  <1>12. QED
    BY <1>1, <1>2, <1>3, <1>4, <1>5, <1>6, <1>7, <1>8, <1>9, <1>10, <1>11
    DEF Next, Poller, Restart, Finished

\* The initial state has the types.
LEMMA InitType == Init => TypeOK
  <1> SUFFICES ASSUME Init PROVE TypeOK
    OBVIOUS
  <1>1. receivedIn \in [Events -> Nat]
    BY DEF Init
  <1>2. /\ listener \in Seq(Events) /\ handled \in Seq(Events)
        /\ channel \in Seq(Events) /\ Len(channel) <= Capacity
    BY ListenerAssumption DEF Init
  <1>3. broadcasts \in 0 .. MaxEvents /\ restarts \in 0 .. MaxRestarts /\ epoch \in Nat
    BY ListenerAssumption DEF Init
  <1>4. QED
    BY <1>1, <1>2, <1>3 DEF Init, TypeOK

\* The state always has its types; in particular the channel to the main loop
\* never holds more than its capacity.
THEOREM TypeCorrect == Spec => []TypeOK
  BY InitType, TypeStep, PTL DEF Spec

-----------------------------------------------------------------------------
(* The cork.                                                                *)

\* Every action preserves the inductive invariant.
LEMMA InvStep == IInv /\ [Next]_vars => IInv'
  <1> SUFFICES ASSUME IInv, [Next]_vars PROVE IInv'
    OBVIOUS
  <1>t. TypeOK /\ TypeOK'
    BY TypeStep DEF IInv
  <1>e. /\ Forwarded \subseteq Events /\ event \in Events \cup {NoEvent}
        /\ \A i \in 1 .. Len(listener) : listener[i] \in Events
    BY <1>t, RangeOfSeq DEF TypeOK, Forwarded
  <1> DEFINE Rest == /\ CorkIsSticky /\ TakenWhileCorked /\ DiscardRefreshes
                     /\ ReceivedWhileCorkedIsDropped /\ AtMostOneDiscardAfterUncork
  <1>1. CASE Broadcast
    <2>1. ListenerIsFresh'
      <3>1. /\ Len(listener') = Len(listener) + 1
            /\ listener'[Len(listener) + 1] = broadcasts + 1
            /\ \A i \in 1 .. Len(listener) : listener'[i] = listener[i]
        BY <1>t, <1>1 DEF TypeOK, Broadcast, Events
      <3>2. Forwarded' = Forwarded /\ event' = event /\ broadcasts' = broadcasts + 1
        BY <1>1 DEF Broadcast, Forwarded
      <3>3. \A e \in Forwarded \cup {event} : e \in Nat /\ e <= broadcasts
        BY <1>e DEF IInv, ListenerIsFresh, Events, NoEvent
      <3>4. \A i \in 1 .. Len(listener) : listener[i] \in Nat /\ listener[i] <= broadcasts
        BY <1>e DEF IInv, ListenerIsFresh, Events
      <3>5. QED
        <4>1. broadcasts \in Nat /\ Len(listener) \in Nat
          BY <1>t DEF TypeOK
        <4>2. \A i \in 1 .. Len(listener') :
                 \/ i \in 1 .. Len(listener) /\ listener'[i] = listener[i]
                 \/ i = Len(listener) + 1 /\ listener'[i] = broadcasts + 1
          BY <3>1, <4>1
        <4>3. \A i \in 1 .. Len(listener') :
                 /\ listener'[i] <= broadcasts'
                 /\ listener'[i] \notin Forwarded' /\ listener'[i] # event'
          BY <3>2, <3>3, <3>4, <4>1, <4>2 DEF IInv, ListenerIsFresh
        <4>4. \A i, j \in 1 .. Len(listener') : listener'[i] = listener'[j] => i = j
          BY <3>4, <4>1, <4>2 DEF IInv, ListenerIsFresh
        <4>5. \A e \in Forwarded' \cup {event'} : e <= broadcasts'
          BY <3>2, <3>3, <4>1
        <4>6. QED
          BY <4>3, <4>4, <4>5 DEF ListenerIsFresh
    <2>2. Rest'
      BY <1>1 DEF Broadcast, stateVars, sessionVars, IInv, CorkIsSticky, TakenWhileCorked,
         DiscardRefreshes, ReceivedWhileCorkedIsDropped, AtMostOneDiscardAfterUncork, Forwarded
    <2>3. QED
      BY <1>t, <2>1, <2>2 DEF IInv
  <1>2. CASE WaitReturnsEvent
    <2>1. /\ Head(listener) = listener[1] /\ 1 \in 1 .. Len(listener)
          /\ Len(listener') = Len(listener) - 1
          /\ \A i \in 1 .. Len(listener') :
                listener'[i] = listener[i + 1] /\ i + 1 \in 1 .. Len(listener)
      BY <1>t, <1>2 DEF TypeOK, WaitReturnsEvent
    <2>2. Forwarded' = Forwarded /\ Head(listener) \notin Forwarded
      BY <1>2, <2>1 DEF WaitReturnsEvent, Forwarded, IInv, ListenerIsFresh
    <2>3. ListenerIsFresh'
      <3>1. \A i \in 1 .. Len(listener') : listener'[i] # event'
        BY <1>t, <1>2, <2>1 DEF WaitReturnsEvent, IInv, ListenerIsFresh, TypeOK
      <3>2. QED
        BY <1>t, <1>2, <2>1, <2>2, <3>1 DEF WaitReturnsEvent, IInv, ListenerIsFresh, TypeOK
    <2>4. TakenWhileCorked'
      <3>1. receivedIn'[event'] = epoch
        BY <1>t, <1>2, <2>1 DEF WaitReturnsEvent, TypeOK
      <3>2. QED
        BY <1>2, <3>1 DEF WaitReturnsEvent, stateVars, TakenWhileCorked, IInv, CorkIsSticky
    <2>5. ReceivedWhileCorkedIsDropped'
      <3>1. \A e \in Forwarded : receivedIn'[e] = receivedIn[e]
        BY <1>t, <1>e, <1>2, <2>2 DEF WaitReturnsEvent, TypeOK
      <3>2. QED
        BY <2>2, <3>1 DEF IInv, ReceivedWhileCorkedIsDropped
    <2>6. CorkIsSticky' /\ DiscardRefreshes' /\ AtMostOneDiscardAfterUncork'
      BY <1>2 DEF WaitReturnsEvent, stateVars, sessionVars, IInv, CorkIsSticky,
         DiscardRefreshes, AtMostOneDiscardAfterUncork
    <2>7. QED
      BY <1>t, <2>3, <2>4, <2>5, <2>6 DEF IInv
  <1>3. CASE WaitTimesOut
    <2>1. ListenerIsFresh'
      <3>1. UNCHANGED <<listener, broadcasts, Forwarded>> /\ event' = NoEvent
        BY <1>3 DEF WaitTimesOut, lldbVars, Forwarded
      <3>2. broadcasts \in Nat
        BY <1>t DEF TypeOK
      <3>3. QED
        BY <1>e, <3>1, <3>2 DEF IInv, ListenerIsFresh, NoEvent, Events
    <2>2. Rest'
      BY <1>3 DEF WaitTimesOut, lldbVars, stateVars, sessionVars, IInv, CorkIsSticky,
         TakenWhileCorked, DiscardRefreshes, ReceivedWhileCorkedIsDropped,
         AtMostOneDiscardAfterUncork, Forwarded
    <2>3. QED
      BY <1>t, <2>1, <2>2 DEF IInv
  <1>4. CASE PollerStops
    BY <1>t, <1>4 DEF PollerStops, lldbVars, stateVars, sessionVars, IInv, ListenerIsFresh,
       CorkIsSticky, TakenWhileCorked, DiscardRefreshes, ReceivedWhileCorkedIsDropped,
       AtMostOneDiscardAfterUncork, Forwarded
  <1>5. CASE PollerLocked
    <2> USE <1>5 DEF PollerLocked, MaySend, NextWasCorked, AfterSend, lldbVars, sessionVars
    <2>1. Forwarded' \subseteq Forwarded \cup (IF MaySend THEN {event} ELSE {})
      <3>1. CASE MaySend /\ ~ChannelFull
        <4>1. channel' = Append(channel, event) /\ event \in Events
          BY <1>t, <3>1 DEF TypeOK
        <4>2. Range(channel') = Range(channel) \cup {event}
          BY <1>t, <4>1, RangeAppend DEF TypeOK
        <4>3. QED
          BY <3>1, <4>2 DEF Forwarded
      <3>2. CASE ~(MaySend /\ ~ChannelFull)
        BY <3>2 DEF Forwarded
      <3>3. QED
        BY <3>1, <3>2
    <2>2. ListenerIsFresh'
      <3>1. UNCHANGED <<listener, broadcasts>> /\ event' = NoEvent
        OBVIOUS
      <3>2. Forwarded' \subseteq Forwarded \cup {event}
        BY <2>1
      <3>3. broadcasts \in Nat
        BY <1>t DEF TypeOK
      <3> HIDE <1>5 DEF PollerLocked, MaySend, NextWasCorked, AfterSend, lldbVars, sessionVars
      <3>4. \A i \in 1 .. Len(listener) : /\ listener[i] <= broadcasts
                                          /\ listener[i] \notin Forwarded'
                                          /\ listener[i] # NoEvent
        BY <1>e, <3>2 DEF IInv, ListenerIsFresh, NoEvent, Events
      <3>5. \A e \in Forwarded' \cup {NoEvent} : e <= broadcasts
        BY <3>2, <3>3 DEF IInv, ListenerIsFresh, NoEvent
      <3>6. QED
        BY <3>1, <3>4, <3>5 DEF IInv, ListenerIsFresh
    <2>3. CorkIsSticky' /\ TakenWhileCorked'
      BY DEF IInv, CorkIsSticky, TakenWhileCorked
    <2>4. ReceivedWhileCorkedIsDropped'
      BY <2>1 DEF IInv, ReceivedWhileCorkedIsDropped, TakenWhileCorked
    <2>5. DiscardRefreshes'
      BY <1>t DEF IInv, DiscardRefreshes, CorkIsSticky, TypeOK
    <2>6. AtMostOneDiscardAfterUncork'
      <3>1. CASE MaySend \/ event = NoEvent
        BY <3>1 DEF IInv, AtMostOneDiscardAfterUncork
      <3>2. CASE ~MaySend /\ event # NoEvent
        <4>1. was_corked /\ discarded' = discarded \cup {[event |-> event, epoch |-> epoch]}
          BY <3>2
        <4>2. \A d \in discarded : ~(d.epoch = epoch /\ ~Corked(epoch))
          BY <4>1 DEF IInv, DiscardRefreshes
        <4>3. QED
          BY <4>1, <4>2 DEF IInv, AtMostOneDiscardAfterUncork
      <3>3. QED
        BY <3>1, <3>2
    <2>7. QED
      BY <1>t, <2>2, <2>3, <2>4, <2>5, <2>6 DEF IInv
  <1>6. CASE HandleDebugEvent
    <2>1. Forwarded' = Forwarded
      <3>1. /\ Head(channel) \in Events
            /\ Range(channel) = Range(Tail(channel)) \cup {Head(channel)}
        BY <1>t, <1>6, RangeHeadTail DEF TypeOK, HandleDebugEvent
      <3>2. Range(handled') = Range(handled) \cup {Head(channel)}
        <4>1. handled \in Seq(Events) /\ handled' = Append(handled, Head(channel))
          BY <1>t, <1>6 DEF TypeOK, HandleDebugEvent
        <4>2. QED
          BY <3>1, <4>1, RangeAppend
      <3>3. QED
        BY <1>6, <3>1, <3>2 DEF Forwarded, HandleDebugEvent
    <2>2. QED
      BY <1>t, <1>6, <2>1 DEF HandleDebugEvent, lldbVars, stateVars, sessionVars, IInv,
         ListenerIsFresh, CorkIsSticky, TakenWhileCorked, DiscardRefreshes,
         ReceivedWhileCorkedIsDropped, AtMostOneDiscardAfterUncork
  <1>7. CASE RestartCorks
    <2>1. ListenerIsFresh' /\ ReceivedWhileCorkedIsDropped' /\ AtMostOneDiscardAfterUncork'
      BY <1>7 DEF RestartCorks, lldbVars, IInv, ListenerIsFresh, Forwarded,
         ReceivedWhileCorkedIsDropped, AtMostOneDiscardAfterUncork
    <2>2. CorkIsSticky' /\ TakenWhileCorked'
      BY <1>t, <1>7, CorkedAlternates DEF RestartCorks, Cork, IInv, CorkIsSticky,
         TakenWhileCorked, TypeOK
    <2>3. DiscardRefreshes'
      BY <1>t, <1>7, <2>2 DEF RestartCorks, Cork, IInv, DiscardRefreshes, CorkIsSticky, TypeOK
    <2>4. QED
      BY <1>t, <2>1, <2>2, <2>3 DEF IInv
  <1>8. CASE RestartUncorks
    <2>1. ListenerIsFresh' /\ ReceivedWhileCorkedIsDropped' /\ AtMostOneDiscardAfterUncork'
      BY <1>8 DEF RestartUncorks, lldbVars, IInv, ListenerIsFresh, Forwarded,
         ReceivedWhileCorkedIsDropped, AtMostOneDiscardAfterUncork
    <2>2. CorkIsSticky' /\ TakenWhileCorked'
      BY <1>t, <1>8, CorkedAlternates DEF RestartUncorks, IInv, CorkIsSticky,
         TakenWhileCorked, TypeOK
    <2>3. DiscardRefreshes'
      BY <1>t, <1>8 DEF RestartUncorks, IInv, DiscardRefreshes, TypeOK
    <2>4. QED
      BY <1>t, <2>1, <2>2, <2>3 DEF IInv
  <1>9. CASE RestartFails \/ RestartCompletes \/ SessionEnds
    <2>1. ListenerIsFresh' /\ ReceivedWhileCorkedIsDropped' /\ AtMostOneDiscardAfterUncork'
      BY <1>9 DEF RestartFails, RestartCompletes, SessionEnds, lldbVars, stateVars, IInv,
         ListenerIsFresh, Forwarded, ReceivedWhileCorkedIsDropped, AtMostOneDiscardAfterUncork
    <2>2. CorkIsSticky' /\ TakenWhileCorked' /\ DiscardRefreshes'
      BY <1>9 DEF RestartFails, RestartCompletes, SessionEnds, stateVars, IInv, CorkIsSticky,
         TakenWhileCorked, DiscardRefreshes
    <2>3. QED
      BY <1>t, <2>1, <2>2 DEF IInv
  <1>10. CASE UNCHANGED vars
    BY <1>t, <1>10 DEF vars, lldbVars, stateVars, sessionVars, IInv, ListenerIsFresh,
       CorkIsSticky, TakenWhileCorked, DiscardRefreshes, ReceivedWhileCorkedIsDropped,
       AtMostOneDiscardAfterUncork, Forwarded
  <1>11. QED
    BY <1>1, <1>2, <1>3, <1>4, <1>5, <1>6, <1>7, <1>8, <1>9, <1>10
    DEF Next, Poller, Restart, Finished

\* The inductive invariant holds in every reachable state.
LEMMA Invariant == Spec => []IInv
  <1>1. Init => IInv
    <2> SUFFICES ASSUME Init PROVE IInv
      OBVIOUS
    <2>1. TypeOK
      BY InitType
    <2>2. Forwarded = {} /\ Len(listener) = 0
      BY DEF Init, Forwarded, Range
    <2>3. ListenerIsFresh
      BY <2>2 DEF Init, ListenerIsFresh, NoEvent
    <2>4. QED
      BY <2>1, <2>2, <2>3 DEF Init, IInv, CorkIsSticky, TakenWhileCorked, DiscardRefreshes,
         ReceivedWhileCorkedIsDropped, AtMostOneDiscardAfterUncork, Corked
  <1>2. QED
    BY <1>1, InvStep, PTL DEF Spec

\* No event that wait_for_event returned between cork() and uncork() reaches the
\* session, however the poller and handle_restart interleave.
THEOREM CorkedEventsAreDropped == Spec => []ReceivedWhileCorkedIsDropped
  BY Invariant, PTL DEF IInv

\* After an uncork() the sticky copy costs at most one event of the new process.
THEOREM OneDiscardAfterUncork == Spec => []AtMostOneDiscardAfterUncork
  BY Invariant, PTL DEF IInv
=============================================================================
