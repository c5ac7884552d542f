-------------------------- MODULE StopStateProofs --------------------------
(***************************************************************************)
(* Proofs that what the session remembers of a stop is of the right type,   *)
(* that every reference the client may use resolves, and that nothing of an *)
(* earlier stop survives a resumption the session was asked for, for any    *)
(* number of frames, names and functions and for values nested to any depth;*)
(* and that a list of variables is what its loop promises.                  *)
(***************************************************************************)
EXTENDS StopState, SequenceFacts

Path == Seq(Keys) \ {<<>>}

-----------------------------------------------------------------------------
(* Paths and queues.                                                         *)

\* Append makes the child of a path: HandleTree::create with a parent.
LEMMA ChildPath ==
    ASSUME NEW p \in Path, NEW k \in Keys
    PROVE  /\ Append(p, k) \in Path /\ Len(Append(p, k)) > 1
           /\ Parent(Append(p, k)) = p /\ Append(p, k)[1] = p[1]
  <1>1. p \in Seq(Keys) /\ Len(p) \in Nat /\ Len(p) > 0
    BY DEF Path
  <1>2. /\ Append(p, k) \in Seq(Keys) /\ Len(Append(p, k)) = Len(p) + 1
        /\ \A i \in 1 .. Len(p) : Append(p, k)[i] = p[i]
    BY <1>1
  <1>3. Parent(Append(p, k)) = p
    <2>1. Parent(Append(p, k)) = SubSeq(Append(p, k), 1, Len(p))
      BY <1>1, <1>2 DEF Parent
    <2>2. SubSeq(Append(p, k), 1, Len(p)) = p
      BY <1>1, <1>2
    <2>3. QED
      BY <2>1, <2>2
  <1>4. QED
    BY <1>1, <1>2, <1>3 DEF Path

\* A path of one key is a handle at the root.
LEMMA RootPath ==
    ASSUME NEW k \in Keys
    PROVE  <<k>> \in Path /\ ~(Len(<<k>>) > 1) /\ <<k>>[1] = k
  BY DEF Path

Kinds == {"running", "stopped", "frame", "oldframe"}

\* The queue of events keeps its type and its bound (a full one drops the event).
LEMMA AnnounceType ==
    ASSUME NEW es \in Seq(Kinds), NEW k \in Kinds, Len(es) <= QueueCap
    PROVE  Announce(es, k) \in Seq(Kinds) /\ Len(Announce(es, k)) <= QueueCap
  BY StopStateAssumption DEF Announce

\* When the debuggee stops, the frame events under way become old ones.
LEMMA AgedType ==
    ASSUME NEW es \in Seq(Kinds)
    PROVE  LET aged == [i \in DOMAIN es |-> IF es[i] = "frame" THEN "oldframe" ELSE es[i]]
           IN  aged \in Seq(Kinds) /\ Len(aged) = Len(es)
  <1> DEFINE aged == [i \in DOMAIN es |-> IF es[i] = "frame" THEN "oldframe" ELSE es[i]]
  <1>1. DOMAIN es = 1 .. Len(es) /\ Len(es) \in Nat /\ \A i \in DOMAIN es : es[i] \in Kinds
    OBVIOUS
  <1>2. aged \in [1 .. Len(es) -> Kinds]
    BY <1>1 DEF Kinds
  <1>3. QED
    BY <1>1, <1>2

-----------------------------------------------------------------------------
(* The inductive invariant.                                                  *)

\* While a debuggee runs that a request of the client resumed, nothing resolves
\* but what was evaluated without a frame; there is no step-in target, and a mark
\* that the user selected a frame came from an event that was under way.
ResumedClean ==
    running /\ ~behind =>
        /\ \A p \in var_refs : p[1] = Expr
        /\ step_in_targets = <<>>
        /\ selected_frame_changed => lateFrame

\* What is remembered of an earlier stop, now and at the next one.
StaleClean ==
    /\ \A x \in stale : x = Flag \/ x[1] = Expr
    /\ Flag \in stale => lateFrame

StopInv ==
    /\ TypeOK /\ RefsResolve /\ ResumedClean /\ StaleClean /\ EvaluatesWhereAsked

LEMMA InitStop == Init => StopInv
  <1> SUFFICES ASSUME Init PROVE StopInv
    OBVIOUS
  <1>1. events \in Seq(Kinds) /\ Len(events) = 1
    BY DEF Init, Kinds
  <1>2. TypeOK
    <2>1. step_in_targets \in Seq(Fns) /\ Len(step_in_targets) <= MaxTargets
      BY StopStateAssumption DEF Init
    <2>2. shown \in Seq(Fns \cup {None})
      BY DEF Init
    <2>3. answer.kind \in {None, "list", "evaluated"}
      BY DEF Init, NoAnswer
    <2>4. Len(events) <= QueueCap
      BY <1>1, StopStateAssumption
    <2>5. /\ running \in BOOLEAN /\ selected_frame_changed \in BOOLEAN
          /\ last_goto_request \in BOOLEAN /\ behind \in BOOLEAN
          /\ lateFrame \in BOOLEAN /\ unresumed \in BOOLEAN
          /\ var_refs = {} /\ known = {} /\ stale = {}
      BY DEF Init
    <2>6. QED
      BY <1>1, <2>1, <2>2, <2>3, <2>4, <2>5 DEF TypeOK, Kinds
  <1>3. RefsResolve /\ ResumedClean /\ StaleClean /\ EvaluatesWhereAsked
    BY DEF Init, RefsResolve, ResumedClean, StaleClean, EvaluatesWhereAsked, NoAnswer, None
  <1>4. QED
    BY <1>2, <1>3 DEF StopInv

\* A step that is answered with nothing keeps what is said of answers.
LEMMA UnansweredStep ==
    Unanswered => EvaluatesWhereAsked' /\ answer'.kind \in {None, "list", "evaluated"}
  BY DEF Unanswered, NoAnswer, None, EvaluatesWhereAsked

-----------------------------------------------------------------------------
(* Requests about references.                                                *)

\* What they have in common: new handles, at the root or below one that resolves,
\* and of the new ones some for the client.
RefStep ==
    \E new \in SUBSET Path :
        /\ \A q \in new :
              /\ Len(q) > 1 => Parent(q) \in var_refs /\ q[1] = Parent(q)[1]
              /\ running /\ ~(Len(q) > 1) => q[1] = Expr
        /\ Created(new) /\ known' \subseteq known \cup new
        /\ OnlyRefs

LEMMA KeysKnown == /\ Frames \subseteq Keys /\ Scopes \subseteq Keys /\ Structured \subseteq Keys
                   /\ Expr \in Keys /\ "[raw]" \in Keys
  BY DEF Keys

LEMMA StackTraceStep ==
    ASSUME TypeOK, NEW fs \in SUBSET Frames, HandleStackTrace(fs)
    PROVE  RefStep
  <1> DEFINE new == {<<f>> : f \in fs}
  <1>1. ASSUME NEW f \in fs PROVE <<f>> \in Path /\ ~(Len(<<f>>) > 1)
    BY KeysKnown, RootPath
  <1>2. new \in SUBSET Path /\ \A q \in new : ~(Len(q) > 1)
    BY <1>1
  <1>3. ~running /\ Created(new) /\ known' = known \cup new /\ OnlyRefs
    BY DEF HandleStackTrace
  <1> HIDE DEF new
  <1>4. QED
    BY <1>2, <1>3 DEF RefStep

\* Handles below one that resolves.
LEMMA BelowStep ==
    ASSUME TypeOK, NEW p \in var_refs, NEW ks \in SUBSET Keys,
           Created({Append(p, k) : k \in ks}),
           known' \subseteq known \cup {Append(p, k) : k \in ks}, OnlyRefs
    PROVE  RefStep
  <1> DEFINE new == {Append(p, k) : k \in ks}
  <1>1. p \in Path
    BY DEF TypeOK, Path
  <1>2. \A q \in new : q \in Path /\ Len(q) > 1 /\ Parent(q) = p /\ q[1] = p[1]
    <2> TAKE q \in new
    <2>1. PICK k \in ks : q = Append(p, k)
      OBVIOUS
    <2>2. QED
      BY <1>1, <2>1, ChildPath
  <1>3. new \in SUBSET Path
    BY <1>2
  <1>4. Created(new) /\ known' \subseteq known \cup new
    OBVIOUS
  <1> HIDE DEF new
  <1>5. QED
    BY <1>2, <1>3, <1>4 DEF RefStep

LEMMA AnsweredStep ==
    ASSUME NEW p, NEW new, Answered(p, new)
    PROVE  known' \subseteq known \cup new
  BY DEF Answered

LEMMA ScopesStep ==
    ASSUME TypeOK, NEW p \in var_refs, HandleScopes(p)
    PROVE  RefStep
  <1>1. Created({Append(p, k) : k \in Scopes}) /\ Answered(p, {Append(p, k) : k \in Scopes})
        /\ OnlyRefs
    BY DEF HandleScopes
  <1>2. QED
    BY <1>1, AnsweredStep, BelowStep, KeysKnown

\* The handles of the values that have children.
LEMMA HandlesBelow ==
    ASSUME NEW p, NEW names, NEW n
    PROVE  \E ks \in SUBSET Structured : Handles(p, names, n) = {Append(p, k) : k \in ks}
  <1> DEFINE ks == {names[i] : i \in {j \in 1 .. n : names[j] \in Structured}}
  <1>1. ks \in SUBSET Structured
    OBVIOUS
  <1>2. Handles(p, names, n) = {Append(p, k) : k \in ks}
    BY DEF Handles
  <1>3. QED
    BY <1>1, <1>2

LEMMA VariablesStep ==
    ASSUME TypeOK, NEW p \in var_refs, NEW n \in Nat, HandleVariables(p, n)
    PROVE  RefStep
  <1>1. PICK raw \in SUBSET {q \in {Append(p, "[raw]")} : p[Len(p)] \in Synthetic} :
            LET new == Handles(p, ValuesOf(p), n) \cup raw IN
            Created(new) /\ Answered(p, new)
    BY DEF HandleVariables
  <1>2. PICK ks \in SUBSET Structured :
            Handles(p, ValuesOf(p), n) = {Append(p, k) : k \in ks}
    BY HandlesBelow
  <1>3. PICK rs \in SUBSET {"[raw]"} : raw = {Append(p, k) : k \in rs}
    <2>1. CASE raw = {}
      <3>1. {} = {Append(p, k) : k \in {}}
        OBVIOUS
      <3>2. QED
        BY <2>1, <3>1
    <2>2. CASE raw = {Append(p, "[raw]")}
      <3>1. {Append(p, "[raw]")} = {Append(p, k) : k \in {"[raw]"}}
        OBVIOUS
      <3>2. QED
        BY <2>2, <3>1
    <2>3. QED
      BY <2>1, <2>2
  <1>4. Handles(p, ValuesOf(p), n) \cup raw = {Append(p, k) : k \in ks \cup rs}
    BY <1>2, <1>3
  <1>5. ks \cup rs \in SUBSET Keys /\ OnlyRefs
    BY <1>2, <1>3, KeysKnown DEF HandleVariables
  <1>6. QED
    BY <1>1, <1>4, <1>5, AnsweredStep, BelowStep

LEMMA VariablesCancelledStep ==
    ASSUME TypeOK, NEW p \in var_refs, NEW n \in Nat, HandleVariablesCancelled(p, n)
    PROVE  RefStep
  <1>1. PICK ks \in SUBSET Structured :
            Handles(p, ValuesOf(p), n) = {Append(p, k) : k \in ks}
    BY HandlesBelow
  <1>2. Created({Append(p, k) : k \in ks}) /\ known' = known /\ OnlyRefs
    BY <1>1 DEF HandleVariablesCancelled
  <1>3. QED
    BY <1>2, BelowStep, KeysKnown

LEMMA SetVariableStep ==
    ASSUME TypeOK, NEW p \in var_refs, NEW name, HandleSetVariable(p, name)
    PROVE  RefStep
  <1> DEFINE new == IF name \in Structured THEN {Append(p, name)} ELSE {}
  <1>1. Created(new) /\ Answered(p, new) /\ OnlyRefs
    BY DEF HandleSetVariable
  <1>2. PICK ks \in SUBSET Structured : new = {Append(p, k) : k \in ks}
    <2>1. CASE name \in Structured
      <3>1. {name} \in SUBSET Structured /\ new = {Append(p, k) : k \in {name}}
        BY <2>1
      <3>2. QED
        BY <3>1
    <2>2. CASE name \notin Structured
      <3>1. {} \in SUBSET Structured /\ new = {Append(p, k) : k \in {}}
        BY <2>2
      <3>2. QED
        BY <3>1
    <2>3. QED
      BY <2>1, <2>2
  <1>3. Created({Append(p, k) : k \in ks}) /\ Answered(p, {Append(p, k) : k \in ks})
    BY <1>1, <1>2
  <1>4. QED
    BY <1>1, <1>3, AnsweredStep, BelowStep, KeysKnown

LEMMA EvaluateStep ==
    ASSUME TypeOK, NEW p, HandleEvaluate(p)
    PROVE  RefStep
  <1>1. PICK new \in SUBSET {<<Expr>>} : Created(new) /\ known' = known \cup new
    BY DEF HandleEvaluate
  <1>2. <<Expr>> \in Path /\ ~(Len(<<Expr>>) > 1) /\ <<Expr>>[1] = Expr
    BY KeysKnown, RootPath
  <1>3. new \in SUBSET Path /\ \A q \in new : ~(Len(q) > 1) /\ q[1] = Expr
    <2>1. \A q \in new : q = <<Expr>>
      OBVIOUS
    <2>2. QED
      BY <1>2, <2>1
  <1>4. OnlyRefs
    BY DEF HandleEvaluate
  <1>5. QED
    BY <1>1, <1>3, <1>4 DEF RefStep

LEMMA DataBreakpointInfoStep ==
    ASSUME TypeOK, NEW p, HandleDataBreakpointInfo(p)
    PROVE  RefStep
  <1>1. Created({}) /\ known' \subseteq known \cup {} /\ OnlyRefs /\ {} \in SUBSET Path
    BY DEF HandleDataBreakpointInfo, Created
  <1>2. QED
    BY <1>1 DEF RefStep

\* Their steps keep the invariant, whatever they are answered with.
LEMMA RefsStepInv ==
    ASSUME StopInv, RefStep, answer'.kind \in {None, "list", "evaluated"}
    PROVE  TypeOK' /\ RefsResolve' /\ ResumedClean' /\ StaleClean'
  <1>1. PICK new \in SUBSET Path :
        /\ \A q \in new :
              /\ Len(q) > 1 => Parent(q) \in var_refs /\ q[1] = Parent(q)[1]
              /\ running /\ ~(Len(q) > 1) => q[1] = Expr
        /\ Created(new) /\ known' \subseteq known \cup new
        /\ OnlyRefs
    BY DEF RefStep
  <1>2. /\ UNCHANGED <<running, events, selected_frame_changed, last_goto_request,
                       step_in_targets, shown, behind, lateFrame, unresumed>>
        /\ var_refs' = var_refs \cup new /\ known' \subseteq known \cup new
        /\ stale' \subseteq stale
    BY <1>1 DEF OnlyRefs, lldb, Created
  <1>3. TypeOK /\ RefsResolve /\ ResumedClean /\ StaleClean
    BY DEF StopInv
  <1>4. TypeOK'
    BY <1>2, <1>3 DEF TypeOK, Path
  <1>5. RefsResolve'
    <2>1. unresumed' \/ known' \subseteq var_refs'
      BY <1>2, <1>3 DEF RefsResolve
    <2>2. \A p \in var_refs' : Len(p) > 1 => Parent(p) \in var_refs'
      BY <1>1, <1>2, <1>3 DEF RefsResolve
    <2>3. QED
      BY <1>2, <1>3, <2>1, <2>2 DEF RefsResolve
  <1>6. ResumedClean'
    <2>1. ASSUME running, ~behind, NEW p \in var_refs \cup new PROVE p[1] = Expr
      <3>1. CASE p \in var_refs
        BY <1>3, <2>1, <3>1 DEF ResumedClean
      <3>2. CASE p \in new /\ Len(p) > 1
        BY <1>1, <1>3, <2>1, <3>2 DEF ResumedClean
      <3>3. CASE p \in new /\ ~(Len(p) > 1)
        BY <1>1, <2>1, <3>3
      <3>4. QED
        BY <2>1, <3>1, <3>2, <3>3
    <2>2. QED
      BY <1>2, <1>3, <2>1 DEF ResumedClean
  <1>7. StaleClean'
    BY <1>2, <1>3 DEF StaleClean
  <1>8. QED
    BY <1>4, <1>5, <1>6, <1>7

\* The mark that the user selected a frame is of this stop, or its event was late.
LEMMA EvaluationIsFair ==
    ASSUME StopInv, NEW p \in known \cap FramePaths, answer' = Evaluated(EvaluationFrame(p)),
           stale' \subseteq stale, UNCHANGED <<behind, lateFrame, unresumed>>
    PROVE  EvaluatesWhereAsked'
  <1>1. CASE p \notin var_refs
    BY <1>1 DEF StopInv, RefsResolve, EvaluationFrame, Evaluated, EvaluatesWhereAsked
  <1>2. CASE p \in var_refs /\ selected_frame_changed
    BY <1>2 DEF StopInv, StaleClean, EvaluationFrame, Evaluated, EvaluatesWhereAsked
  <1>3. CASE p \in var_refs /\ ~selected_frame_changed
    BY <1>3 DEF EvaluationFrame, Evaluated, EvaluatesWhereAsked
  <1>4. QED
    BY <1>1, <1>2, <1>3

LEMMA RefRequests ==
    ASSUME StopInv,
           \/ \E fs \in SUBSET Frames : HandleStackTrace(fs)
           \/ \E p \in FramePaths : HandleEvaluate(p) \/ HandleDataBreakpointInfo(p)
           \/ \E p \in var_refs :
                 \/ HandleScopes(p)
                 \/ \E n \in 0 .. Len(ValuesOf(p)) :
                       HandleVariables(p, n) \/ HandleVariablesCancelled(p, n)
                 \/ \E name \in Elements(ValuesOf(p)) : HandleSetVariable(p, name)
    PROVE  StopInv'
  <1>0. TypeOK
    BY DEF StopInv
  <1> DEFINE Kept == StopInv'
  <1>1. ASSUME RefStep, Unanswered PROVE Kept
    BY <1>1, RefsStepInv, UnansweredStep DEF StopInv
  <1>2. ASSUME NEW fs \in SUBSET Frames, HandleStackTrace(fs) PROVE Kept
    <2>1. RefStep /\ Unanswered
      BY <1>0, <1>2, StackTraceStep DEF HandleStackTrace
    <2>2. QED
      BY <1>1, <2>1
  <1>3. ASSUME NEW p \in var_refs, HandleScopes(p) PROVE Kept
    <2>1. RefStep /\ Unanswered
      BY <1>0, <1>3, ScopesStep DEF HandleScopes
    <2>2. QED
      BY <1>1, <2>1
  <1>4. ASSUME NEW p \in var_refs, NEW n \in Nat, HandleVariablesCancelled(p, n) PROVE Kept
    <2>1. RefStep /\ Unanswered
      BY <1>0, <1>4, VariablesCancelledStep DEF HandleVariablesCancelled
    <2>2. QED
      BY <1>1, <2>1
  <1>5. ASSUME NEW p \in var_refs, NEW name, HandleSetVariable(p, name) PROVE Kept
    <2>1. RefStep /\ Unanswered
      BY <1>0, <1>5, SetVariableStep DEF HandleSetVariable
    <2>2. QED
      BY <1>1, <2>1
  <1>6. ASSUME NEW p \in var_refs, NEW n \in Nat, HandleVariables(p, n) PROVE Kept
    <2>1. RefStep
      BY <1>0, <1>6, VariablesStep
    <2>2. answer'.kind = "list"
      BY <1>6 DEF HandleVariables, List
    <2>3. EvaluatesWhereAsked'
      BY <2>2 DEF EvaluatesWhereAsked
    <2>4. QED
      BY <2>1, <2>2, <2>3, RefsStepInv DEF StopInv
  <1>7. ASSUME NEW p \in FramePaths, HandleEvaluate(p) PROVE Kept
    <2>1. RefStep
      BY <1>0, <1>7, EvaluateStep
    <2>2. CASE p \in known
      <3>1. answer' = Evaluated(EvaluationFrame(p)) /\ answer'.kind = "evaluated"
        BY <1>7, <2>2 DEF HandleEvaluate, Evaluated
      <3>2. stale' \subseteq stale /\ UNCHANGED <<behind, lateFrame, unresumed>>
        BY <1>7 DEF HandleEvaluate, Created, OnlyRefs
      <3>3. EvaluatesWhereAsked'
        BY <1>7, <2>2, <3>1, <3>2, EvaluationIsFair
      <3>4. QED
        BY <2>1, <3>1, <3>3, RefsStepInv DEF StopInv
    <2>3. CASE p \notin known
      BY <1>1, <1>7, <2>1, <2>3 DEF HandleEvaluate, Unanswered
    <2>4. QED
      BY <2>2, <2>3
  <1>8. ASSUME NEW p \in FramePaths, HandleDataBreakpointInfo(p) PROVE Kept
    <2>1. RefStep
      BY <1>0, <1>8, DataBreakpointInfoStep
    <2>2. answer' = Evaluated(EvaluationFrame(p)) /\ answer'.kind = "evaluated" /\ p \in known
      BY <1>8 DEF HandleDataBreakpointInfo, Evaluated
    <2>3. stale' \subseteq stale /\ UNCHANGED <<behind, lateFrame, unresumed>>
      BY <1>8 DEF HandleDataBreakpointInfo, OnlyRefs
    <2>4. EvaluatesWhereAsked'
      BY <2>2, <2>3, EvaluationIsFair
    <2>5. QED
      BY <2>1, <2>2, <2>4, RefsStepInv DEF StopInv
  <1> HIDE DEF Kept
  <1>9. \A p : \A n \in 0 .. Len(ValuesOf(p)) : n \in Nat
    OBVIOUS
  <1>10. Kept
    BY <1>2, <1>3, <1>4, <1>5, <1>6, <1>7, <1>8, <1>9
  <1>11. QED
    BY <1>10 DEF Kept

-----------------------------------------------------------------------------
(* The debuggee, the user and the news.                                      *)

\* A stop: what it makes stale was all cleared by before_resume, or came later.
LEMMA LldbStopsInv ==
    ASSUME StopInv, LldbStops
    PROVE  StopInv'
  <1>k. TypeOK /\ RefsResolve /\ ResumedClean /\ StaleClean
    BY DEF StopInv
  <1>1. /\ running /\ running' = FALSE /\ Unanswered
        /\ UNCHANGED <<var_refs, selected_frame_changed, last_goto_request, step_in_targets,
                       known, shown, behind, lateFrame, unresumed>>
    BY DEF LldbStops, session, client
  <1>2. events' \in Seq(Kinds) /\ Len(events') <= QueueCap
    <2>1. events \in Seq(Kinds) /\ Len(events) <= QueueCap
      BY <1>k DEF TypeOK, Kinds
    <2> DEFINE aged == [i \in DOMAIN events |->
                            IF events[i] = "frame" THEN "oldframe" ELSE events[i]]
    <2>2. aged \in Seq(Kinds) /\ Len(aged) <= QueueCap
      BY <2>1, AgedType
    <2>3. "stopped" \in Kinds
      BY DEF Kinds
    <2>4. events' = Announce(aged, "stopped")
      BY DEF LldbStops
    <2> HIDE DEF aged
    <2>5. QED
      BY <2>2, <2>3, <2>4, AnnounceType
  <1>3. \A x \in stale' : /\ ~behind
                          /\ \/ x \in var_refs
                             \/ x = Targets /\ step_in_targets # <<>>
                             \/ x = Flag /\ selected_frame_changed
    BY DEF LldbStops
  <1>4. stale' \subseteq Path \cup {Targets, Flag}
    BY <1>3, <1>k DEF TypeOK, Path
  <1>5. Flag[1] # Expr
    BY StopStateAssumption DEF Flag
  <1>6. StaleClean'
    BY <1>1, <1>3, <1>5, <1>k DEF StaleClean, ResumedClean
  <1>7. TypeOK'
    BY <1>1, <1>2, <1>4, <1>k, UnansweredStep DEF TypeOK, Kinds, Path
  <1>8. RefsResolve' /\ ResumedClean'
    BY <1>1, <1>k DEF RefsResolve, ResumedClean
  <1>9. QED
    BY <1>1, <1>6, <1>7, <1>8, UnansweredStep DEF StopInv

\* Steps that announce an event and touch nothing the session remembers.
LEMMA BehindInv ==
    ASSUME StopInv, ResumedBehind \/ FrameSelected
    PROVE  StopInv'
  <1>k. TypeOK /\ RefsResolve /\ ResumedClean /\ StaleClean
    BY DEF StopInv
  <1>1. /\ Unanswered /\ running' \in BOOLEAN /\ behind' \in BOOLEAN
        /\ UNCHANGED <<var_refs, selected_frame_changed, last_goto_request, step_in_targets,
                       known, shown, lateFrame, unresumed>>
        /\ stale' \subseteq stale /\ (running' => behind')
    <2>1. CASE ResumedBehind
      BY <2>1 DEF ResumedBehind, session, client
    <2>2. CASE FrameSelected
      BY <1>k, <2>2 DEF FrameSelected, session, client, history, TypeOK
    <2>3. QED
      BY <2>1, <2>2
  <1>2. events' \in Seq(Kinds) /\ Len(events') <= QueueCap
    <2>1. events \in Seq(Kinds) /\ Len(events) <= QueueCap
      BY <1>k DEF TypeOK, Kinds
    <2>2. events' = Announce(events, "running") \/ events' = Announce(events, "frame")
      BY DEF ResumedBehind, FrameSelected
    <2>3. "running" \in Kinds /\ "frame" \in Kinds
      BY DEF Kinds
    <2>4. QED
      BY <2>1, <2>2, <2>3, AnnounceType
  <1>3. TypeOK'
    BY <1>1, <1>2, <1>k, UnansweredStep DEF TypeOK, Kinds
  <1>4. RefsResolve' /\ ResumedClean' /\ StaleClean'
    BY <1>1, <1>k DEF RefsResolve, ResumedClean, StaleClean
  <1>5. QED
    BY <1>1, <1>3, <1>4, UnansweredStep DEF StopInv

\* The client, when told, refers to nothing any more.
LEMMA ToldStep ==
    Told => /\ known' = {} /\ shown' = <<>> /\ unresumed' = FALSE
            /\ shown' \in Seq(Fns \cup {None}) /\ Len(shown') = 0
  BY DEF Told

LEMMA NewsInv ==
    ASSUME StopInv, HandleProcessEvent \/ RefreshClientDisplay \/ HandleGoto
    PROVE  StopInv'
  <1>k. TypeOK /\ RefsResolve /\ ResumedClean /\ StaleClean
    BY DEF StopInv
  <1>1. /\ Unanswered /\ Told /\ last_goto_request' \in BOOLEAN
        /\ UNCHANGED <<running, var_refs, selected_frame_changed, step_in_targets,
                       stale, behind, lateFrame>>
    BY <1>k DEF HandleProcessEvent, RefreshClientDisplay, HandleGoto, session, lldb, TypeOK
  <1>2. events' \in Seq(Kinds) /\ Len(events') <= QueueCap
    <2>1. events \in Seq(Kinds) /\ Len(events) <= QueueCap
      BY <1>k DEF TypeOK, Kinds
    <2>2. events' = events \/ (events # <<>> /\ events' = Tail(events))
      BY DEF HandleProcessEvent, RefreshClientDisplay, HandleGoto, lldb
    <2>3. QED
      BY <2>1, <2>2, StopStateAssumption
  <1>3. TypeOK'
    BY <1>1, <1>2, <1>k, ToldStep, UnansweredStep DEF TypeOK, Kinds
  <1>4. RefsResolve'
    BY <1>1, <1>k, ToldStep DEF RefsResolve
  <1>5. ResumedClean' /\ StaleClean'
    BY <1>1, <1>k DEF ResumedClean, StaleClean
  <1>6. QED
    BY <1>1, <1>3, <1>4, <1>5, UnansweredStep DEF StopInv

\* A frame event that is handled at a later stop, or after the resumption, is late.
LEMMA ThreadEventInv ==
    ASSUME StopInv, HandleThreadEvent
    PROVE  StopInv'
  <1>k. TypeOK /\ RefsResolve /\ ResumedClean /\ StaleClean
    BY DEF StopInv
  <1>1. /\ Unanswered /\ selected_frame_changed' = TRUE
        /\ lateFrame' = (lateFrame \/ Head(events) = "oldframe" \/ running)
        /\ stale' \subseteq stale \cup {Flag}
        /\ (Flag \in stale' => Head(events) = "oldframe")
        /\ UNCHANGED <<running, var_refs, last_goto_request, step_in_targets,
                       known, shown, behind, unresumed>>
    BY DEF HandleThreadEvent, client
  <1>2. events' \in Seq(Kinds) /\ Len(events') <= QueueCap
    <2>1. events \in Seq(Kinds) /\ Len(events) <= QueueCap
      BY <1>k DEF TypeOK, Kinds
    <2>2. events # <<>> /\ events' = Tail(events)
      BY DEF HandleThreadEvent
    <2>3. QED
      BY <2>1, <2>2, StopStateAssumption
  <1>3. lateFrame' \in BOOLEAN
    BY <1>1
  <1>4. TypeOK'
    BY <1>1, <1>2, <1>3, <1>k, UnansweredStep DEF TypeOK, Kinds
  <1>5. RefsResolve' /\ ResumedClean' /\ StaleClean'
    BY <1>1, <1>k DEF RefsResolve, ResumedClean, StaleClean
  <1>6. QED
    BY <1>1, <1>4, <1>5, UnansweredStep DEF StopInv

-----------------------------------------------------------------------------
(* Requests that resume.                                                     *)

\* before_resume forgets everything; the client is told of the resumption, or
\* has been left with what is gone.
LEMMA ResumeInv ==
    ASSUME StopInv, BeforeResume, Unanswered,
           Resumed \/ NotResumed \/ (Told /\ UNCHANGED lldb)
    PROVE  StopInv'
  <1>k. TypeOK
    BY DEF StopInv
  <1>1. /\ var_refs' = {} /\ selected_frame_changed' = FALSE /\ last_goto_request' = FALSE
        /\ step_in_targets' = <<>> /\ stale' = {} /\ behind' = FALSE /\ lateFrame' = FALSE
    BY DEF BeforeResume
  <1>2. \/ known' = {} /\ shown' = <<>> /\ unresumed' = FALSE
        \/ known' = known /\ shown' = shown /\ unresumed' = TRUE
    BY DEF Resumed, NotResumed, Told, client
  <1>3. running' \in BOOLEAN /\ events' \in Seq(Kinds) /\ Len(events') <= QueueCap
    <2>1. running \in BOOLEAN /\ events \in Seq(Kinds) /\ Len(events) <= QueueCap
      BY <1>k DEF TypeOK, Kinds
    <2>2. \/ running' = TRUE /\ events' = Announce(events, "running")
          \/ running' = running /\ events' = events
      BY DEF Resumed, NotResumed, lldb
    <2>3. "running" \in Kinds
      BY DEF Kinds
    <2>4. QED
      BY <2>1, <2>2, <2>3, AnnounceType
  <1>4. step_in_targets' \in Seq(Fns) /\ Len(step_in_targets') <= MaxTargets
    BY <1>1, StopStateAssumption
  <1>5. known' \subseteq Path /\ shown' \in Seq(Fns \cup {None}) /\ unresumed' \in BOOLEAN
    <2>1. CASE unresumed' = TRUE /\ known' = known /\ shown' = shown
      BY <1>k, <2>1 DEF TypeOK, Path
    <2>2. CASE unresumed' = FALSE /\ known' = {} /\ shown' = <<>>
      <3>1. shown' \in Seq(Fns \cup {None})
        BY <2>2
      <3>2. known' \subseteq Path /\ unresumed' \in BOOLEAN
        BY <2>2
      <3>3. QED
        BY <3>1, <3>2
    <2>3. QED
      BY <1>2, <2>1, <2>2
  <1>6. TypeOK'
    BY <1>1, <1>3, <1>4, <1>5, UnansweredStep DEF TypeOK, Kinds, Path
  <1>7. RefsResolve'
    <2>1. CASE unresumed' = TRUE
      BY <1>1, <2>1 DEF RefsResolve
    <2>2. CASE known' = {} /\ shown' = <<>>
      BY <1>1, <2>2 DEF RefsResolve
    <2>3. QED
      BY <1>2, <2>1, <2>2
  <1>8. ResumedClean' /\ StaleClean'
    BY <1>1 DEF ResumedClean, StaleClean
  <1>9. QED
    BY <1>6, <1>7, <1>8, UnansweredStep DEF StopInv

-----------------------------------------------------------------------------
(* Step-in targets.                                                          *)

LEMMA FnListsType ==
    ASSUME NEW fns \in FnLists
    PROVE  fns \in Seq(Fns)
  <1>1. PICK n \in 1 .. Cardinality(Fns) : fns \in [1 .. n -> Fns]
    BY DEF FnLists
  <1>2. n \in Nat
    OBVIOUS
  <1>3. QED
    BY <1>1, <1>2

\* The ids in the response are the positions that the functions get in the list.
LEMMA IdsResolve ==
    ASSUME NEW st \in Seq(Fns), NEW fns \in Seq(Fns), NEW sh,
           sh = [i \in 1 .. Len(st) |-> None] \o fns
    PROVE  /\ sh \in Seq(Fns \cup {None})
           /\ \A id \in 1 .. Len(sh) :
                 sh[id] # None => id <= Len(st \o fns) /\ (st \o fns)[id] = sh[id]
  <1> DEFINE old == [i \in 1 .. Len(st) |-> None]
  <1>1. Len(st) \in Nat /\ old \in Seq(Fns \cup {None}) /\ Len(old) = Len(st)
        /\ \A i \in 1 .. Len(st) : old[i] = None
    OBVIOUS
  <1>2. fns \in Seq(Fns \cup {None}) /\ st \in Seq(Fns \cup {None})
    OBVIOUS
  <1> HIDE DEF old
  <1>3. sh = old \o fns
    BY DEF old
  <1>4. /\ sh \in Seq(Fns \cup {None}) /\ Len(sh) = Len(st) + Len(fns)
        /\ \A i \in 1 .. Len(sh) : sh[i] = IF i <= Len(st) THEN old[i] ELSE fns[i - Len(st)]
    BY <1>1, <1>2, <1>3
  <1>5. /\ Len(st \o fns) = Len(st) + Len(fns)
        /\ \A i \in 1 .. Len(st) + Len(fns) :
              (st \o fns)[i] = IF i <= Len(st) THEN st[i] ELSE fns[i - Len(st)]
    BY <1>2
  <1>6. QED
    BY <1>1, <1>4, <1>5

LEMMA StepInTargetsInv ==
    ASSUME StopInv, NEW p, NEW fns \in FnLists, HandleStepInTargets(p, fns)
    PROVE  StopInv'
  <1>k. TypeOK /\ RefsResolve /\ ResumedClean /\ StaleClean
    BY DEF StopInv
  <1>1. /\ Unanswered /\ ~running
        /\ step_in_targets' = step_in_targets \o fns /\ shown' = NewIds(fns)
        /\ Len(step_in_targets) + Len(fns) <= MaxTargets
        /\ UNCHANGED <<running, events, var_refs, selected_frame_changed, last_goto_request,
                       known, stale, behind, lateFrame, unresumed>>
    BY DEF HandleStepInTargets, lldb, history
  <1>2. fns \in Seq(Fns) /\ step_in_targets \in Seq(Fns)
    BY <1>k, FnListsType DEF TypeOK
  <1>3. step_in_targets' \in Seq(Fns) /\ Len(step_in_targets') <= MaxTargets
    BY <1>1, <1>2
  <1>4. /\ shown' \in Seq(Fns \cup {None})
        /\ \A id \in 1 .. Len(shown') :
              shown'[id] # None =>
                  id <= Len(step_in_targets') /\ step_in_targets'[id] = shown'[id]
    BY <1>1, <1>2, IdsResolve DEF NewIds
  <1>5. TypeOK'
    BY <1>1, <1>3, <1>4, <1>k, UnansweredStep DEF TypeOK
  <1>6. RefsResolve' /\ ResumedClean' /\ StaleClean'
    BY <1>1, <1>4, <1>k DEF RefsResolve, ResumedClean, StaleClean
  <1>7. QED
    BY <1>1, <1>5, <1>6, UnansweredStep DEF StopInv

\* Steps that change nothing that the invariant is about.
LEMMA QuietInv ==
    ASSUME StopInv, HandleGotoTargets \/ AnswerTaken \/ UNCHANGED vars
    PROVE  StopInv'
  <1>k. TypeOK /\ RefsResolve /\ ResumedClean /\ StaleClean /\ EvaluatesWhereAsked
    BY DEF StopInv
  <1>1. /\ last_goto_request' \in BOOLEAN
        /\ UNCHANGED <<running, events, var_refs, selected_frame_changed, step_in_targets,
                       known, shown, stale, behind, lateFrame, unresumed>>
    BY <1>k DEF HandleGotoTargets, AnswerTaken, vars, lldb, session, client, history, TypeOK
  <1>2. EvaluatesWhereAsked' /\ answer'.kind \in {None, "list", "evaluated"}
    <2>1. CASE Unanswered
      BY <2>1, UnansweredStep
    <2>2. CASE UNCHANGED answer
      BY <1>1, <1>k, <2>2 DEF EvaluatesWhereAsked, TypeOK
    <2>3. QED
      BY <2>1, <2>2 DEF HandleGotoTargets, AnswerTaken, vars
  <1>3. TypeOK'
    BY <1>1, <1>2, <1>k DEF TypeOK
  <1>4. RefsResolve' /\ ResumedClean' /\ StaleClean'
    BY <1>1, <1>k DEF RefsResolve, ResumedClean, StaleClean
  <1>5. QED
    BY <1>2, <1>3, <1>4 DEF StopInv

-----------------------------------------------------------------------------

LEMMA StopStep == StopInv /\ [Next]_vars => StopInv'
  <1> SUFFICES ASSUME StopInv, [Next]_vars PROVE StopInv'
    OBVIOUS
  <1>1. CASE HandleNext \/ HandleStepOut \/ HandleContinue
    <2>1. BeforeResume /\ Unanswered /\ (Resumed \/ NotResumed \/ (Told /\ UNCHANGED lldb))
      BY <1>1 DEF HandleNext, HandleStepOut, HandleContinue
    <2>2. QED
      BY <2>1, ResumeInv
  <1>2. ASSUME NEW id \in 1 .. MaxTargets, HandleStepInTarget(id) PROVE StopInv'
    BY <1>2, ResumeInv DEF HandleStepInTarget
  <1>3. ASSUME NEW p \in var_refs, HandleRestartFrame(p) PROVE StopInv'
    BY <1>3, NewsInv DEF HandleRestartFrame
  <1>4. ASSUME NEW p \in var_refs, NEW fns \in FnLists, HandleStepInTargets(p, fns)
        PROVE  StopInv'
    BY <1>4, StepInTargetsInv
  <1>5. CASE LldbStops
    BY <1>5, LldbStopsInv
  <1>6. CASE ResumedBehind \/ FrameSelected
    BY <1>6, BehindInv
  <1>7. CASE HandleProcessEvent \/ RefreshClientDisplay \/ HandleGoto
    BY <1>7, NewsInv
  <1>8. CASE HandleThreadEvent
    BY <1>8, ThreadEventInv
  <1>9. CASE HandleGotoTargets \/ AnswerTaken \/ UNCHANGED vars
    BY <1>9, QuietInv
  <1>10. QED
    BY <1>1, <1>2, <1>3, <1>4, <1>5, <1>6, <1>7, <1>8, <1>9, RefRequests DEF Next, Step

\* The session's memory of a stop keeps its type: references are paths of keys, the
\* queue of events keeps within its capacity and the step-in targets within theirs.
THEOREM TypeCorrect == Spec => []TypeOK
  BY InitStop, StopStep, PTL DEF Spec, StopInv

\* Whatever the client may refer to resolves, to what it was told, unless a request
\* to resume failed after before_resume had forgotten it: HandleTree and the list of
\* step-in targets lose nothing between the news that make the client forget.
THEOREM ReferencesResolve == Spec => []RefsResolve
  BY InitStop, StopStep, PTL DEF Spec, StopInv

\* At a stop that follows a resumption the client asked for, every frame, variable
\* and step-in target that resolves is of this stop: before_resume forgets all of
\* them, and what is made while the debuggee runs is evaluated without a frame.
THEOREM NothingStale == Spec => []StateIsOfThisStop
  <1>1. StopInv => StateIsOfThisStop
    BY DEF StopInv, StaleClean, StateIsOfThisStop
  <1>2. QED
    BY <1>1, InitStop, StopStep, PTL DEF Spec

\* An expression is evaluated in the frame that the client named or the user
\* selected at this stop, unless the debuggee was resumed behind the session's back,
\* the frame event came late, or a refused resumption took the frame away.
THEOREM EvaluationIsWhereAsked == Spec => []EvaluatesWhereAsked
  BY InitStop, StopStep, PTL DEF Spec, StopInv

-----------------------------------------------------------------------------
(* Lists of variables.                                                       *)

\* The loop of convert_scope_values as an equation for its intermediate lists.
Loop(list, names, n, u) ==
    list = [i \in 0 .. n |-> IF i = 0 THEN <<>> ELSE Inserted(list[i - 1], names, i, u)]

\* The loop runs for any number of values: it can be gone round once more.
LEMMA LoopExists ==
    ASSUME NEW names, NEW u, NEW n \in Nat
    PROVE  \E list : Loop(list, names, n, u)
  <1> DEFINE S == {m \in Nat : \E list : Loop(list, names, m, u)}
  <1>1. 0 \in S
    <2> DEFINE first == [i \in 0 .. 0 |-> <<>>]
    <2>1. Loop(first, names, 0, u)
      BY DEF Loop
    <2>2. QED
      BY <2>1
  <1>2. ASSUME NEW m \in Nat, m \in S PROVE m + 1 \in S
    <2>1. PICK g : Loop(g, names, m, u)
      BY <1>2
    <2> DEFINE h == [i \in 0 .. m + 1 |-> IF i = m + 1 THEN Inserted(g[m], names, m + 1, u) ELSE g[i]]
               Next1(f, i) == IF i = 0 THEN <<>> ELSE Inserted(f[i - 1], names, i, u)
    <2>2. \A i \in 0 .. m : g[i] = Next1(g, i)
      BY <2>1 DEF Loop
    <2>3. \A i \in 0 .. m : h[i] = g[i]
      OBVIOUS
    <2>4. h[m + 1] = Inserted(g[m], names, m + 1, u)
      OBVIOUS
    <2>5. ASSUME NEW i \in 0 .. m + 1 PROVE h[i] = Next1(h, i)
      <3>1. CASE i = 0
        BY <2>2, <2>3, <3>1
      <3>2. CASE i \in 1 .. m
        <4>1. i \in 0 .. m /\ i # 0 /\ i - 1 \in 0 .. m
          BY <3>2
        <4> HIDE DEF h
        <4>2. QED
          BY <4>1, <2>2, <2>3
      <3>3. CASE i = m + 1
        <4>1. i # 0 /\ i - 1 = m /\ m \in 0 .. m
          BY <3>3
        <4> HIDE DEF h
        <4>2. QED
          BY <3>3, <4>1, <2>3, <2>4
      <3>4. QED
        BY <3>1, <3>2, <3>3
    <2>6. h = [i \in 0 .. m + 1 |-> Next1(h, i)]
      <3>1. h = [i \in 0 .. m + 1 |-> h[i]]
        OBVIOUS
      <3> HIDE DEF h
      <3>2. QED
        BY <3>1, <2>5
    <2>7. Loop(h, names, m + 1, u)
      BY <2>6 DEF Loop
    <2>8. QED
      BY <2>7
  <1>3. Nat \subseteq S
    <2> HIDE DEF S
    <2>1. QED
      BY <1>1, <1>2, Induction
  <1>4. QED
    BY <1>3

LEMMA ConvertedLoops ==
    ASSUME NEW names, NEW u, NEW n \in Nat
    PROVE  \E list : Loop(list, names, n, u) /\ Converted(names, n, u) = list[n]
  <1> DEFINE list == CHOOSE f : Loop(f, names, n, u)
  <1>1. Loop(list, names, n, u)
    BY LoopExists
  <1>2. Converted(names, n, u) = list[n]
    BY DEF Converted, Loop
  <1>3. QED
    BY <1>1, <1>2

\* The position at which a name comes first, and what is known of it.
FirstOf(names, i) ==
    CHOOSE j \in 1 .. i : names[j] = names[i] /\ \A k \in 1 .. j - 1 : names[k] # names[i]

LEMMA FirstIs ==
    ASSUME NEW names, NEW i \in Nat, i > 0
    PROVE  /\ FirstOf(names, i) \in 1 .. i /\ names[FirstOf(names, i)] = names[i]
           /\ \A k \in 1 .. FirstOf(names, i) - 1 : names[k] # names[i]
  <1> DEFINE S == {j \in 1 .. i : names[j] = names[i]}
  <1>1. S \in SUBSET Nat /\ i \in S
    OBVIOUS
  <1>2. PICK f \in S : \A j \in S : f <= j
    <2> HIDE DEF S
    <2>1. QED
      BY <1>1, LeastExists
  <1>3. ASSUME NEW k \in 1 .. f - 1 PROVE names[k] # names[i]
    <2>1. k \in 1 .. i /\ k < f
      BY <1>2
    <2>2. QED
      BY <1>2, <2>1
  <1>4. \E j \in 1 .. i : names[j] = names[i] /\ \A k \in 1 .. j - 1 : names[k] # names[i]
    BY <1>2, <1>3
  <1>5. QED
    BY <1>4 DEF FirstOf

LEMMA FirstOfNamesake ==
    ASSUME NEW names, NEW i \in Nat, i > 0, NEW k \in Nat, k > 0, names[i] = names[k]
    PROVE  FirstOf(names, i) = FirstOf(names, k)
  <1> DEFINE f == FirstOf(names, i)
             g == FirstOf(names, k)
  <1>1. f \in 1 .. i /\ names[f] = names[i] /\ \A l \in 1 .. f - 1 : names[l] # names[i]
    BY FirstIs
  <1>2. g \in 1 .. k /\ names[g] = names[k] /\ \A l \in 1 .. g - 1 : names[l] # names[k]
    BY FirstIs
  <1> HIDE DEF f, g
  <1>3. ~ (f < g) /\ ~ (g < f)
    BY <1>1, <1>2
  <1>4. f = g
    BY <1>1, <1>2, <1>3
  <1>5. QED
    BY <1>4 DEF f, g

\* What the list is after m values: the last positions of the names, each name once
\* and in the order of the first ones.
Listing(L, names, m) ==
    /\ L \in Seq(1 .. m)
    /\ \A i \in 1 .. m : i \in Elements(L) <=> \A k \in i + 1 .. m : names[k] # names[i]
    /\ \A i \in 1 .. m : \E a \in DOMAIN L : names[L[a]] = names[i]
    /\ \A a, b \in DOMAIN L : names[L[a]] = names[L[b]] => a = b
    /\ \A a, b \in DOMAIN L : a < b => FirstOf(names, L[a]) < FirstOf(names, L[b])

LEMMA ListingAppends ==
    ASSUME NEW names, NEW m \in Nat, NEW L, Listing(L, names, m),
           \A j \in DOMAIN L : names[L[j]] # names[m + 1]
    PROVE  Listing(Append(L, m + 1), names, m + 1)
  <1> DEFINE M == Append(L, m + 1)
             n == Len(L) + 1
  <1>1. /\ L \in Seq(1 .. m) /\ Len(L) \in Nat /\ DOMAIN L = 1 .. Len(L)
        /\ \A a \in DOMAIN L : L[a] \in 1 .. m
    <2>1. L \in Seq(1 .. m)
      BY DEF Listing
    <2>2. QED
      BY <2>1
  <1>2. /\ M \in Seq(1 .. m + 1) /\ DOMAIN M = 1 .. n /\ n \in 1 .. n /\ M[n] = m + 1
        /\ \A a \in DOMAIN L : M[a] = L[a] /\ a \in 1 .. n /\ a < n
        /\ \A a \in 1 .. n : a \in DOMAIN L \/ a = n
    <2>1. L \in Seq(1 .. m + 1) /\ m + 1 \in 1 .. m + 1
      BY <1>1
    <2>2. M \in Seq(1 .. m + 1) /\ Len(M) = n /\ n \in Nat /\ M[n] = m + 1
      BY <1>1, <2>1
    <2>3. \A a \in 1 .. Len(L) : M[a] = L[a]
      BY <1>1, <2>1
    <2>4. QED
      BY <1>1, <2>2, <2>3
  <1> HIDE DEF M
  <1>3. Elements(M) = Elements(L) \cup {m + 1}
    BY <1>2 DEF Elements
  <1>4. \A i \in 1 .. m : names[i] # names[m + 1]
    BY DEF Listing
  <1>5. ASSUME NEW i \in 1 .. m + 1
        PROVE  i \in Elements(M) <=> \A k \in i + 1 .. m + 1 : names[k] # names[i]
    <2>1. CASE i = m + 1
      BY <1>3, <2>1
    <2>2. CASE i \in 1 .. m
      <3>1. i \in Elements(M) <=> i \in Elements(L)
        BY <1>3, <2>2
      <3>2. i \in Elements(L) <=> \A k \in i + 1 .. m : names[k] # names[i]
        BY <2>2 DEF Listing
      <3>3. \A k \in i + 1 .. m + 1 : k \in i + 1 .. m \/ k = m + 1
        BY <2>2
      <3>4. \A k \in i + 1 .. m : k \in i + 1 .. m + 1
        BY <2>2
      <3>5. QED
        BY <1>4, <2>2, <3>1, <3>2, <3>3, <3>4
    <2>3. QED
      BY <2>1, <2>2
  <1>6. ASSUME NEW i \in 1 .. m + 1 PROVE \E a \in DOMAIN M : names[M[a]] = names[i]
    <2>1. CASE i = m + 1
      BY <1>2, <2>1
    <2>2. CASE i \in 1 .. m
      <3>1. PICK a \in DOMAIN L : names[L[a]] = names[i]
        BY <2>2 DEF Listing
      <3>2. QED
        BY <1>2, <3>1
    <2>3. QED
      BY <2>1, <2>2
  <1>7. ASSUME NEW a \in DOMAIN M, NEW b \in DOMAIN M, names[M[a]] = names[M[b]] PROVE a = b
    <2>1. CASE a \in DOMAIN L /\ b \in DOMAIN L
      BY <1>2, <1>7, <2>1 DEF Listing
    <2>2. CASE a = n \/ b = n
      BY <1>2, <1>7, <2>2
    <2>3. QED
      BY <1>2, <2>1, <2>2
  <1>8. ASSUME NEW a \in DOMAIN M, NEW b \in DOMAIN M, a < b
        PROVE  FirstOf(names, M[a]) < FirstOf(names, M[b])
    <2>1. a \in DOMAIN L
      BY <1>1, <1>2, <1>8
    <2>2. CASE b \in DOMAIN L
      BY <1>2, <1>8, <2>1, <2>2 DEF Listing
    <2>3. CASE b = n
      <3>1. FirstOf(names, m + 1) = m + 1
        <4>1. FirstOf(names, m + 1) \in 1 .. m + 1 /\ names[FirstOf(names, m + 1)] = names[m + 1]
          BY FirstIs
        <4>2. QED
          BY <1>4, <4>1
      <3>2. FirstOf(names, L[a]) \in 1 .. L[a] /\ L[a] \in 1 .. m
        BY <1>1, <2>1, FirstIs
      <3>3. QED
        BY <1>2, <2>1, <2>3, <3>1, <3>2
    <2>4. QED
      BY <1>2, <2>2, <2>3
  <1>9. Listing(M, names, m + 1)
    BY <1>2, <1>5, <1>6, <1>7, <1>8 DEF Listing
  <1>10. QED
    BY <1>9 DEF M

LEMMA ListingReplaces ==
    ASSUME NEW names, NEW m \in Nat, NEW L, Listing(L, names, m),
           NEW j \in DOMAIN L, names[L[j]] = names[m + 1]
    PROVE  Listing([L EXCEPT ![j] = m + 1], names, m + 1)
  <1> DEFINE M == [L EXCEPT ![j] = m + 1]
  <1>1. /\ L \in Seq(1 .. m) /\ Len(L) \in Nat /\ DOMAIN L = 1 .. Len(L)
        /\ \A a \in DOMAIN L : L[a] \in 1 .. m
    <2>1. L \in Seq(1 .. m)
      BY DEF Listing
    <2>2. QED
      BY <2>1
  <1>2. /\ M \in Seq(1 .. m + 1) /\ DOMAIN M = DOMAIN L /\ M[j] = m + 1
        /\ \A a \in DOMAIN L : a # j => M[a] = L[a]
    <2>1. L \in [1 .. Len(L) -> 1 .. m + 1] /\ m + 1 \in 1 .. m + 1
      BY <1>1
    <2>2. M \in [1 .. Len(L) -> 1 .. m + 1]
      BY <2>1
    <2>3. QED
      BY <1>1, <2>1, <2>2
  <1> HIDE DEF M
  <1>3. \A a, b \in DOMAIN L : names[L[a]] = names[L[b]] => a = b
    BY DEF Listing
  <1>4. \A a \in DOMAIN L : names[M[a]] = names[L[a]]
    BY <1>2
  <1>5. Elements(M) = (Elements(L) \ {L[j]}) \cup {m + 1}
    <2>1. \A a \in DOMAIN L : a # j => L[a] # L[j]
      BY <1>3
    <2>2. ASSUME NEW x \in Elements(M) PROVE x \in (Elements(L) \ {L[j]}) \cup {m + 1}
      <3>1. PICK a \in DOMAIN L : x = M[a]
        BY <1>2 DEF Elements
      <3>2. QED
        BY <1>2, <2>1, <3>1 DEF Elements
    <2>3. ASSUME NEW x \in Elements(L), x # L[j] PROVE x \in Elements(M)
      <3>1. PICK a \in DOMAIN L : x = L[a]
        BY DEF Elements
      <3>2. QED
        BY <1>2, <2>3, <3>1 DEF Elements
    <2>4. m + 1 \in Elements(M)
      BY <1>2 DEF Elements
    <2>5. QED
      BY <2>2, <2>3, <2>4
  <1>6. ASSUME NEW i \in 1 .. m + 1
        PROVE  i \in Elements(M) <=> \A k \in i + 1 .. m + 1 : names[k] # names[i]
    <2>1. CASE i = m + 1
      BY <1>5, <2>1
    <2>2. CASE i \in 1 .. m /\ names[i] = names[m + 1]
      <3>1. m + 1 \in i + 1 .. m + 1 /\ i # m + 1
        BY <2>2
      <3>2. ASSUME i \in Elements(L) PROVE i = L[j]
        <4>1. PICK a \in DOMAIN L : i = L[a]
          BY <3>2 DEF Elements
        <4>2. QED
          BY <1>3, <2>2, <4>1
      <3>3. QED
        BY <1>5, <2>2, <3>1, <3>2
    <2>3. CASE i \in 1 .. m /\ names[i] # names[m + 1]
      <3>1. i \in Elements(M) <=> i \in Elements(L)
        BY <1>5, <2>3
      <3>2. i \in Elements(L) <=> \A k \in i + 1 .. m : names[k] # names[i]
        BY <2>3 DEF Listing
      <3>3. \A k \in i + 1 .. m + 1 : k \in i + 1 .. m \/ k = m + 1
        BY <2>3
      <3>4. \A k \in i + 1 .. m : k \in i + 1 .. m + 1
        BY <2>3
      <3>5. QED
        BY <2>3, <3>1, <3>2, <3>3, <3>4
    <2>4. QED
      BY <2>1, <2>2, <2>3
  <1>7. ASSUME NEW i \in 1 .. m + 1 PROVE \E a \in DOMAIN M : names[M[a]] = names[i]
    <2>1. CASE i = m + 1
      BY <1>2, <2>1
    <2>2. CASE i \in 1 .. m
      <3>1. PICK a \in DOMAIN L : names[L[a]] = names[i]
        BY <2>2 DEF Listing
      <3>2. QED
        BY <1>2, <1>4, <3>1
    <2>3. QED
      BY <2>1, <2>2
  <1>8. ASSUME NEW a \in DOMAIN M, NEW b \in DOMAIN M, names[M[a]] = names[M[b]] PROVE a = b
    BY <1>2, <1>3, <1>4, <1>8
  <1>9. ASSUME NEW a \in DOMAIN M, NEW b \in DOMAIN M, a < b
        PROVE  FirstOf(names, M[a]) < FirstOf(names, M[b])
    <2>1. \A c \in DOMAIN L : FirstOf(names, M[c]) = FirstOf(names, L[c])
      <3> TAKE c \in DOMAIN L
      <3>1. M[c] \in 1 .. m + 1 /\ L[c] \in 1 .. m
        <4>1. M[c] \in 1 .. m + 1
          <5>1. M \in Seq(1 .. m + 1) /\ c \in DOMAIN M
            BY <1>2
          <5>2. QED
            BY <5>1
        <4>2. L[c] \in 1 .. m
          BY <1>1
        <4>3. QED
          BY <4>1, <4>2
      <3>2. M[c] \in Nat /\ M[c] > 0 /\ L[c] \in Nat /\ L[c] > 0
        BY <3>1
      <3>3. QED
        BY <1>4, <3>2, FirstOfNamesake
    <2>2. FirstOf(names, L[a]) < FirstOf(names, L[b])
      BY <1>2, <1>9 DEF Listing
    <2>3. QED
      BY <1>2, <2>1, <2>2
  <1>10. Listing(M, names, m + 1)
    BY <1>2, <1>6, <1>7, <1>8, <1>9 DEF Listing
  <1>11. QED
    BY <1>10 DEF M

\* convert_scope_values, for every list of values.
LEMMA ConvertedIsListing ==
    ASSUME NEW names, NEW n \in Nat
    PROVE  /\ Listing(Converted(names, n, TRUE), names, n)
           /\ Converted(names, n, FALSE) = [i \in 1 .. n |-> i]
  <1>1. Listing(Converted(names, n, TRUE), names, n)
    <2>1. PICK list : Loop(list, names, n, TRUE) /\ Converted(names, n, TRUE) = list[n]
      BY ConvertedLoops
    <2> DEFINE S == {m \in Nat : m <= n => Listing(list[m], names, m)}
    <2>2. 0 \in S
      <3>1. list[0] = <<>>
        BY <2>1 DEF Loop
      <3>2. Listing(<<>>, names, 0)
        BY DEF Listing, Elements
      <3>3. QED
        BY <3>1, <3>2
    <2>3. ASSUME NEW m \in Nat, m \in S PROVE m + 1 \in S
      <3> SUFFICES ASSUME m + 1 <= n PROVE Listing(list[m + 1], names, m + 1)
        OBVIOUS
      <3>1. Listing(list[m], names, m)
        BY <2>3
      <3>2. list[m + 1] = Inserted(list[m], names, m + 1, TRUE)
        <4>1. m + 1 \in 0 .. n /\ m + 1 # 0 /\ m + 1 - 1 = m
          OBVIOUS
        <4>2. QED
          BY <2>1, <4>1 DEF Loop
      <3> DEFINE namesakes == {j \in DOMAIN list[m] : names[list[m][j]] = names[m + 1]}
      <3>3. CASE namesakes = {}
        <4>1. list[m + 1] = Append(list[m], m + 1)
          BY <3>2, <3>3 DEF Inserted
        <4>2. QED
          BY <3>1, <3>3, <4>1, ListingAppends
      <3>4. CASE namesakes # {}
        <4> DEFINE j == CHOOSE i \in namesakes : TRUE
        <4>1. j \in namesakes
          BY <3>4
        <4>2. list[m + 1] = [list[m] EXCEPT ![j] = m + 1]
          BY <3>2, <3>4 DEF Inserted
        <4> HIDE DEF j
        <4>3. j \in DOMAIN list[m] /\ names[list[m][j]] = names[m + 1]
          BY <4>1
        <4>4. QED
          BY <3>1, <4>2, <4>3, ListingReplaces
      <3>5. QED
        BY <3>3, <3>4
    <2>4. Nat \subseteq S
      <3> HIDE DEF S
      <3>1. QED
        BY <2>2, <2>3, Induction
    <2>5. n \in S /\ n <= n
      BY <2>4
    <2>6. QED
      BY <2>1, <2>5
  <1>2. Converted(names, n, FALSE) = [i \in 1 .. n |-> i]
    <2>1. PICK list : Loop(list, names, n, FALSE) /\ Converted(names, n, FALSE) = list[n]
      BY ConvertedLoops
    <2> DEFINE S == {m \in Nat : m <= n => list[m] = [i \in 1 .. m |-> i]}
    <2>2. 0 \in S
      <3>1. list[0] = <<>> /\ <<>> = [i \in 1 .. 0 |-> i]
        BY <2>1 DEF Loop
      <3>2. QED
        BY <3>1
    <2>3. ASSUME NEW m \in Nat, m \in S PROVE m + 1 \in S
      <3> SUFFICES ASSUME m + 1 <= n PROVE list[m + 1] = [i \in 1 .. m + 1 |-> i]
        OBVIOUS
      <3>1. list[m] = [i \in 1 .. m |-> i]
        BY <2>3
      <3>2. list[m + 1] = Append(list[m], m + 1)
        <4>1. m + 1 \in 0 .. n /\ m + 1 # 0 /\ m + 1 - 1 = m
          OBVIOUS
        <4>2. list[m + 1] = Inserted(list[m], names, m + 1, FALSE)
          BY <2>1, <4>1 DEF Loop
        <4>3. QED
          BY <4>2 DEF Inserted
      <3>3. list[m] \in Seq(Nat) /\ Len(list[m]) = m
        <4>1. [i \in 1 .. m |-> i] \in [1 .. m -> Nat]
          OBVIOUS
        <4>2. QED
          BY <3>1, <4>1
      <3>4. /\ Append(list[m], m + 1) \in Seq(Nat) /\ Len(Append(list[m], m + 1)) = m + 1
            /\ \A i \in 1 .. m + 1 : Append(list[m], m + 1)[i] = i
        BY <3>1, <3>3
      <3>5. QED
        BY <3>2, <3>4
    <2>4. Nat \subseteq S
      <3> HIDE DEF S
      <3>1. QED
        BY <2>2, <2>3, Induction
    <2>5. n \in S /\ n <= n
      BY <2>4
    <2>6. QED
      BY <2>1, <2>5
  <1>3. QED
    BY <1>1, <1>2

\* Only handle_variables answers with a list.
LEMMA OtherAnswers ==
    ASSUME Next
    PROVE  answer'.kind # "list" \/ \E p \in var_refs, n \in Nat : HandleVariables(p, n)
  <1>1. NoAnswer.kind # "list" /\ \A f : Evaluated(f).kind # "list"
    BY DEF NoAnswer, Evaluated, None
  <1>2. CASE AnswerTaken
    BY <1>1, <1>2 DEF AnswerTaken, Unanswered
  <1>3. CASE \/ LldbStops \/ ResumedBehind \/ FrameSelected
             \/ HandleProcessEvent \/ HandleThreadEvent \/ RefreshClientDisplay
             \/ HandleNext \/ HandleStepOut \/ HandleContinue
             \/ HandleGotoTargets \/ HandleGoto
    <2>1. Unanswered
      BY <1>3 DEF LldbStops, ResumedBehind, FrameSelected, HandleProcessEvent,
         HandleThreadEvent, RefreshClientDisplay, HandleNext, HandleStepOut, HandleContinue,
         HandleGotoTargets, HandleGoto
    <2>2. QED
      BY <1>1, <2>1 DEF Unanswered
  <1>4. CASE \/ \E id \in 1 .. MaxTargets : HandleStepInTarget(id)
             \/ \E fs \in SUBSET Frames : HandleStackTrace(fs)
    BY <1>1, <1>4 DEF HandleStepInTarget, HandleStackTrace, Unanswered
  <1>5. CASE \E p \in FramePaths : HandleEvaluate(p) \/ HandleDataBreakpointInfo(p)
    <2>1. PICK p : HandleEvaluate(p) \/ HandleDataBreakpointInfo(p)
      BY <1>5
    <2>2. answer' = NoAnswer \/ answer' = Evaluated(EvaluationFrame(p))
      BY <2>1 DEF HandleEvaluate, HandleDataBreakpointInfo
    <2>3. QED
      BY <1>1, <2>2
  <1>6. ASSUME NEW p \in var_refs, HandleRestartFrame(p) \/ HandleScopes(p)
        PROVE  answer'.kind # "list"
    <2>1. Unanswered
      BY <1>6 DEF HandleRestartFrame, RefreshClientDisplay, HandleScopes
    <2>2. QED
      BY <1>1, <2>1 DEF Unanswered
  <1>7. ASSUME NEW p \in var_refs, NEW n \in 0 .. Len(ValuesOf(p)), HandleVariablesCancelled(p, n)
        PROVE  answer'.kind # "list"
    BY <1>1, <1>7 DEF HandleVariablesCancelled, Unanswered
  <1>8. ASSUME NEW p \in var_refs, \E name \in Elements(ValuesOf(p)) : HandleSetVariable(p, name)
        PROVE  answer'.kind # "list"
    BY <1>1, <1>8 DEF HandleSetVariable, Unanswered
  <1>9. ASSUME NEW p \in var_refs, \E fns \in FnLists : HandleStepInTargets(p, fns)
        PROVE  answer'.kind # "list"
    BY <1>1, <1>9 DEF HandleStepInTargets, Unanswered
  <1>10. ASSUME NEW p \in var_refs, NEW n \in 0 .. Len(ValuesOf(p)) PROVE n \in Nat
    BY <1>10
  <1>11. CASE \E p \in var_refs :
                 \/ HandleRestartFrame(p) \/ HandleScopes(p)
                 \/ \E n \in 0 .. Len(ValuesOf(p)) :
                       HandleVariables(p, n) \/ HandleVariablesCancelled(p, n)
                 \/ \E name \in Elements(ValuesOf(p)) : HandleSetVariable(p, name)
                 \/ \E fns \in FnLists : HandleStepInTargets(p, fns)
    BY <1>6, <1>7, <1>8, <1>9, <1>10, <1>11, Zenon
  <1>12. QED
    BY <1>2, <1>3, <1>4, <1>5, <1>11 DEF Next, Step

\* ListingIsExact, of an answer.
Exact(names, unique, n, items) ==
    IF unique
    THEN /\ Elements(items) = {i \in 1 .. n : \A k \in i + 1 .. n : names[k] # names[i]}
         /\ \A a, b \in DOMAIN items :
                a < b => FirstOf(names, items[a]) < FirstOf(names, items[b])
    ELSE items = [i \in 1 .. n |-> i]

LEMMA ListingIs ==
    /\ ListingIsExact <=>
           (answer.kind = "list" => Exact(answer.of, answer.unique, answer.upto, answer.items))
    /\ ListingIsExact' <=>
           (answer'.kind = "list" => Exact(answer'.of, answer'.unique, answer'.upto, answer'.items))
  BY DEF ListingIsExact, Exact, FirstOf

\* A list of locals shows each name once, the innermost variable of it, in the order
\* of the names, and other lists show all: for every list that LLDB may return and
\* wherever the timeout cuts it off.
THEOREM ListingsAreExact == Spec => []ListingIsExact
  <1>1. Init => ListingIsExact
    BY DEF Init, ListingIsExact, NoAnswer, None
  <1>2. ListingIsExact /\ [Next]_vars => ListingIsExact'
    <2> SUFFICES ASSUME ListingIsExact, [Next]_vars PROVE ListingIsExact'
      OBVIOUS
    <2>1. CASE UNCHANGED vars
      BY <2>1, ListingIs DEF vars
    <2>2. CASE answer'.kind # "list"
      BY <2>2, ListingIs
    <2>3. ASSUME NEW p \in var_refs, NEW n \in Nat, HandleVariables(p, n) PROVE ListingIsExact'
      <3> DEFINE names == ValuesOf(p)
                 unique == p \in LocalsPaths
      <3>1. answer' = List(names, unique, n, Converted(names, n, unique))
        BY <2>3 DEF HandleVariables
      <3>2. /\ answer'.of = names /\ answer'.unique = unique /\ answer'.upto = n
            /\ answer'.items = Converted(names, n, unique)
        BY <3>1 DEF List
      <3> HIDE DEF names, unique
      <3>3. CASE unique
        <4> DEFINE L == Converted(names, n, TRUE)
        <4>1. unique = TRUE
          BY <3>3 DEF unique
        <4>2. Listing(L, names, n) /\ answer'.items = L
          BY <3>2, <4>1, ConvertedIsListing
        <4> HIDE DEF L
        <4>3. Elements(L) = {i \in 1 .. n : \A k \in i + 1 .. n : names[k] # names[i]}
          <5>1. L \in Seq(1 .. n)
            BY <4>2 DEF Listing
          <5>2. Elements(L) \subseteq 1 .. n
            BY <5>1 DEF Elements
          <5>3. QED
            BY <4>2, <5>2 DEF Listing
        <4>4. \A a, b \in DOMAIN L : a < b => FirstOf(names, L[a]) < FirstOf(names, L[b])
          BY <4>2 DEF Listing
        <4>5. QED
          BY <3>2, <3>3, <4>2, <4>3, <4>4, ListingIs DEF Exact
      <3>4. CASE ~unique
        <4>1. unique = FALSE
          BY <3>4 DEF unique
        <4>2. answer'.items = [i \in 1 .. n |-> i]
          <5>1. Converted(names, n, FALSE) = [i \in 1 .. n |-> i]
            BY ConvertedIsListing
          <5>2. QED
            BY <3>2, <4>1, <5>1
        <4>3. QED
          BY <3>2, <3>4, <4>2, ListingIs DEF Exact
      <3>5. QED
        BY <3>3, <3>4
    <2>4. QED
      BY <2>1, <2>2, <2>3, OtherAnswers
  <1>3. QED
    BY <1>1, <1>2, PTL DEF Spec
=============================================================================
