----------------------- MODULE SessionLifecycleProofs -----------------------
(***************************************************************************)
(* Proofs about SessionLifecycle, for every set of modes and terminal kinds *)
(* and any number of restarts.                                              *)
(***************************************************************************)
EXTENDS SessionLifecycle, TLAPS

Debuggees ==
    [state : {"none", "alive", "dead", "detached"},
     terminate_on_disconnect : BOOLEAN, launched : BOOLEAN, complete : BOOLEAN,
     unasked : SUBSET [launched : BOOLEAN, complete : BOOLEAN, killed : BOOLEAN]]

(***************************************************************************)
(* The inductive invariant.  The receiver count is what configurationDone   *)
(* polls: it is 1 exactly while the launch future exists.                   *)
(***************************************************************************)
WaitersCountTheLaunch ==
    /\ launch \in Pending => waiters = 1
    /\ launch \notin Pending => waiters = 0

\* Nothing is answered or pending before launch or attach has been received.
NothingBeforeLaunch ==
    /\ mode = "none" => launch = "none" /\ ~initialized
    /\ ~initialized => config = "none"

\* A process whose start ran to its end has the fate of its kind.
FlagFollowsStart(d) ==
    d.state = "alive" /\ d.complete => d.terminate_on_disconnect = d.launched

Fated(d) == \A f \in d.unasked : f.complete => f.killed = f.launched

IInv ==
    /\ TypeOK /\ WaitersCountTheLaunch /\ NothingBeforeLaunch /\ ConfigurationDoneWaits
    /\ FlagFollowsStart(debuggee) /\ UnaskedFate

-----------------------------------------------------------------------------
(* The debuggee.                                                            *)

\* terminate_debuggee yields a debuggee, and an unasked one meets its fate.
LEMMA TerminatedDebuggee ==
    ASSUME NEW d \in Debuggees, NEW wish \in {"kill", "keep", "none"},
           FlagFollowsStart(d), Fated(d)
    PROVE  /\ Terminated(d, wish) \in Debuggees
           /\ FlagFollowsStart(Terminated(d, wish)) /\ Fated(Terminated(d, wish))
  <1> DEFINE kill == IF wish = "none" THEN d.terminate_on_disconnect ELSE wish = "kill"
             fate == IF wish = "none"
                     THEN {[launched |-> d.launched, complete |-> d.complete, killed |-> kill]}
                     ELSE {}
             t == [d EXCEPT !.state = IF kill THEN "dead" ELSE "detached",
                            !.unasked = @ \cup fate]
  <1>1. CASE d.state # "alive"
    BY <1>1 DEF Terminated
  <1>2. CASE d.state = "alive"
    <2>1. Terminated(d, wish) = t
      BY <1>2 DEF Terminated
    <2>2. kill \in BOOLEAN
      BY DEF Debuggees
    <2>3. fate \subseteq [launched : BOOLEAN, complete : BOOLEAN, killed : BOOLEAN]
      BY <2>2 DEF Debuggees
    <2>4. \A f \in fate : f.complete => f.killed = f.launched
      BY <1>2 DEF FlagFollowsStart
    <2> HIDE DEF kill, fate
    <2>5. t \in Debuggees /\ t.state # "alive" /\ t.unasked = d.unasked \cup fate
      BY <2>3 DEF Debuggees
    <2>6. QED
      BY <2>1, <2>4, <2>5 DEF FlagFollowsStart, Fated
  <1>3. QED
    BY <1>1, <1>2

\* complete_launch and complete_attach leave the flag in step with the process.
LEMMA StartsDebuggee ==
    ASSUME NEW d \in Debuggees, NEW m, FlagFollowsStart(d), Fated(d), NEW e \in Starts(d, m)
    PROVE  e \in Debuggees /\ FlagFollowsStart(e) /\ Fated(e)
  <1>1. CASE e = d
    BY <1>1
  <1>2. CASE e = Started(d, m)
    BY <1>2 DEF Started, Debuggees, FlagFollowsStart, Fated
  <1>3. CASE e = HalfStarted(d, m)
    BY <1>3 DEF HalfStarted, Debuggees, FlagFollowsStart, Fated
  <1>4. QED
    BY <1>1, <1>2, <1>3 DEF Starts

-----------------------------------------------------------------------------
(* The invariant.                                                           *)

\* The initial state satisfies the inductive invariant.
LEMMA InitInv == Init => IInv
  <1> SUFFICES ASSUME Init PROVE IInv
    OBVIOUS
  <1>1. NoDebuggee \in Debuggees /\ FlagFollowsStart(NoDebuggee) /\ Fated(NoDebuggee)
    BY DEF NoDebuggee, Debuggees, FlagFollowsStart, Fated
  <1>2. TypeOK
    <2>1. waiters \in 0 .. 1 /\ restarts \in 0 .. MaxRestarts
      BY LifecycleAssumption DEF Init
    <2>2. debuggee \in Debuggees
      BY <1>1 DEF Init
    <2>3. QED
      BY <2>1, <2>2 DEF Init, TypeOK, Debuggees, Pending
  <1>3. WaitersCountTheLaunch /\ NothingBeforeLaunch /\ ConfigurationDoneWaits
    BY DEF Init, Pending, WaitersCountTheLaunch, NothingBeforeLaunch, ConfigurationDoneWaits
  <1>4. FlagFollowsStart(debuggee) /\ UnaskedFate
    BY <1>1 DEF Init, UnaskedFate, Fated
  <1>5. QED
    BY <1>2, <1>3, <1>4 DEF IInv

\* Every action preserves the inductive invariant.
LEMMA InvStep == IInv /\ [Next]_vars => IInv'
  <1> SUFFICES ASSUME IInv, [Next]_vars PROVE IInv'
    OBVIOUS
  <1> USE LifecycleAssumption DEF Pending
  <1> DEFINE D == debuggee \in Debuggees /\ FlagFollowsStart(debuggee) /\ Fated(debuggee)
  <1>d. D
    BY DEF IInv, TypeOK, Debuggees, UnaskedFate, Fated
  <1>u. ASSUME debuggee' = debuggee PROVE D'
    BY <1>d, <1>u DEF FlagFollowsStart, Fated
  <1>q. ASSUME D', WaitersCountTheLaunch', NothingBeforeLaunch', ConfigurationDoneWaits',
               conn' \in {"open", "closed"}, main' \in {"running", "done"},
               mode' \in {"none", "launch", "attach"}, kind' \in {"console", "id", "run"},
               initialized' \in BOOLEAN,
               launch' \in {"none", "failed", "panicked", "completed", "answered"} \cup Pending,
               config' \in {"none", "polling", "answered"},
               reverse' \in {"none", "pending", "done"},
               helper' \in {"none", "started", "connected", "released", "failed"},
               terminal' \in {"none", "id", "helper"}, disconnected' \in BOOLEAN,
               restarts' \in 0 .. MaxRestarts
        PROVE  IInv'
    <2>1. waiters' \in 0 .. 1
      BY <1>q DEF WaitersCountTheLaunch
    <2>2. UnaskedFate'
      BY <1>q DEF UnaskedFate, Fated
    <2>3. QED
      BY <1>q, <2>1, <2>2 DEF IInv, TypeOK, Debuggees
  <1> HIDE DEF D
  <1>1. ASSUME NEW m \in Modes, HandleLaunchFails(m) PROVE IInv'
    BY <1>q, <1>u, <1>1 DEF HandleLaunchFails, termVars, IInv, TypeOK, WaitersCountTheLaunch,
       NothingBeforeLaunch, ConfigurationDoneWaits
  <1>2. ASSUME NEW m \in Modes, NEW k \in TerminalKinds, HandleLaunch(m, k) PROVE IInv'
    BY <1>q, <1>u, <1>2 DEF HandleLaunch, termVars, IInv, TypeOK, WaitersCountTheLaunch,
       NothingBeforeLaunch, ConfigurationDoneWaits
  <1>3. CASE HandleConfigurationDone
    BY <1>q, <1>u, <1>3 DEF HandleConfigurationDone, clientVars, termVars, IInv, TypeOK,
       WaitersCountTheLaunch, NothingBeforeLaunch, ConfigurationDoneWaits
  <1>4. ASSUME NEW w \in {"kill", "keep", "none"}, HandleDisconnect(w) PROVE IInv'
    <2>1. D'
      BY <1>d, <1>u, <1>4, TerminatedDebuggee DEF HandleDisconnect, D
    <2>2. /\ disconnected' \in BOOLEAN /\ terminal' \in {"none", "id", "helper"}
          /\ helper' \in {"none", "started", "connected", "released", "failed"}
          /\ reverse' \in {"none", "pending", "done"}
      BY <1>4 DEF HandleDisconnect, LetGoOfTerminal, IInv, TypeOK
    <2>3. UNCHANGED <<conn, mode, kind, restarts, main, initialized, launch, waiters, config>>
      BY <1>4 DEF HandleDisconnect, clientVars
    <2>4. QED
      BY <1>q, <2>1, <2>2, <2>3 DEF IInv, TypeOK, WaitersCountTheLaunch,
         NothingBeforeLaunch, ConfigurationDoneWaits
  <1>5. ASSUME NEW m \in Modes, HandleRestart(m) PROVE IInv'
    <2>1. D'
      <3>1. CASE debuggee' = debuggee
        BY <1>u, <3>1
      <3>2. CASE debuggee' \in Starts(Terminated(debuggee, "none"), m)
        <4> DEFINE t == Terminated(debuggee, "none")
        <4>1. t \in Debuggees /\ FlagFollowsStart(t) /\ Fated(t)
          BY <1>d, TerminatedDebuggee DEF D
        <4> HIDE DEF t
        <4>2. debuggee' \in Starts(t, m)
          BY <3>2 DEF t
        <4>3. QED
          BY <4>1, <4>2, StartsDebuggee DEF D
      <3>3. QED
        BY <1>5, <3>1, <3>2 DEF HandleRestart
    <2>2. QED
      BY <1>q, <2>1, <1>5 DEF HandleRestart, termVars, IInv, TypeOK, WaitersCountTheLaunch,
         NothingBeforeLaunch, ConfigurationDoneWaits
  <1>6. CASE CreateTerminal
    BY <1>q, <1>u, <1>6 DEF CreateTerminal, clientVars, termVars, IInv, TypeOK,
       WaitersCountTheLaunch, NothingBeforeLaunch, ConfigurationDoneWaits
  <1>7. CASE AttachWoken \/ TerminalConnected \/ TerminalFails
    BY <1>q, <1>u, <1>7 DEF AttachWoken, TerminalConnected, TerminalFails, clientVars,
       termVars, IInv, TypeOK, WaitersCountTheLaunch, NothingBeforeLaunch,
       ConfigurationDoneWaits
  <1>8. CASE Complete
    <2>1. D'
      BY <1>d, <1>8, StartsDebuggee DEF Complete, D
    <2>2. QED
      BY <1>q, <2>1, <1>8 DEF Complete, clientVars, termVars, IInv, TypeOK,
         WaitersCountTheLaunch, NothingBeforeLaunch, ConfigurationDoneWaits
  <1>9. CASE LaunchResponds \/ ConfigurationDoneResponds
    BY <1>q, <1>u, <1>9 DEF LaunchResponds, ConfigurationDoneResponds, clientVars, termVars,
       IInv, TypeOK, WaitersCountTheLaunch, NothingBeforeLaunch, ConfigurationDoneWaits
  <1>10. CASE ClientStartsHelper \/ HelperConnects \/ ReverseEnds \/ SessionDropped
    BY <1>q, <1>u, <1>10 DEF ClientStartsHelper, HelperConnects, ReverseEnds, SessionDropped,
       LetGoOfTerminal, clientVars, termVars, IInv, TypeOK, WaitersCountTheLaunch,
       NothingBeforeLaunch, ConfigurationDoneWaits
  <1>11. CASE DebuggeeExits
    <2>1. D'
      BY <1>d, <1>11 DEF DebuggeeExits, D, Debuggees, FlagFollowsStart, Fated
    <2>2. QED
      BY <1>q, <2>1, <1>11 DEF DebuggeeExits, clientVars, termVars, IInv, TypeOK,
         WaitersCountTheLaunch, NothingBeforeLaunch, ConfigurationDoneWaits
  <1>12. CASE ClientCloses \/ MainLoopEnds
    BY <1>q, <1>u, <1>12 DEF ClientCloses, MainLoopEnds, clientVars, termVars, IInv, TypeOK,
       WaitersCountTheLaunch, NothingBeforeLaunch, ConfigurationDoneWaits
  <1>13. CASE UNCHANGED vars
    BY <1>q, <1>u, <1>13 DEF vars, clientVars, termVars, IInv, TypeOK,
       WaitersCountTheLaunch, NothingBeforeLaunch, ConfigurationDoneWaits
  <1>14. QED
    BY <1>1, <1>2, <1>3, <1>4, <1>5, <1>6, <1>7, <1>8, <1>9, <1>10, <1>11, <1>12, <1>13
    DEF Next, Handlers, Tasks, Finished

\* The inductive invariant holds in every reachable state.
LEMMA Invariant == Spec => []IInv
  BY InitInv, InvStep, PTL DEF Spec

\* The state always has its types: in particular the receiver count that
\* configurationDone polls never exceeds one and never underflows.
THEOREM TypeCorrect == Spec => []TypeOK
  BY Invariant, PTL DEF IInv

\* configurationDone is never answered while a launch or attach is pending.
THEOREM ConfigurationDoneIsLast == Spec => []ConfigurationDoneWaits
  BY Invariant, PTL DEF IInv

\* Without a wish of the client, a launched process is killed and an attached
\* one is left alive, after any sequence of restarts.
THEOREM DebuggeeMeetsItsFate == Spec => []UnaskedFate
  BY Invariant, PTL DEF IInv
=============================================================================
