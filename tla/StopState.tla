------------------------------ MODULE StopState ------------------------------
(***************************************************************************)
(* What the session remembers of a stop and the client refers to: the tree  *)
(* of variable references, the step-in targets, the last goto request and    *)
(* the mark that the user selected another frame. before_resume forgets all  *)
(* of it; the client forgets what it holds when it hears that the debuggee   *)
(* runs or has stopped.                                                      *)
(*                                                                          *)
(* A reference is modelled by its path: the keys given to HandleTree::create *)
(* from the root on. HandleTree itself is external. A handler runs under the *)
(* session lock, hence in one step; LLDB, the user's commands and the queue  *)
(* of debug events run beside it (ExecutionControl has their interplay).     *)
(***************************************************************************)
EXTENDS Naturals, Sequences, FiniteSets

CONSTANTS
    Frames,      \* keys of the frames of the stopped thread
    Locals,      \* names that LLDB lists as locals, shadowed ones included
    Members,     \* names of the children of a structured value
    Structured,  \* names of the values that have children
    Synthetic,   \* names of those that have a synthetic child provider
    Expr,        \* an expression whose value has children
    Fns,         \* functions that the statement may call
    QueueCap,    \* capacity of the event channel
    MaxTargets   \* bound: step-in targets kept

ASSUME StopStateAssumption ==
    /\ Locals # <<>>
    /\ Expr \notin {"step_in_targets", "selected_frame_changed"}
    /\ QueueCap \in Nat \ {0} /\ MaxTargets \in Nat

VARIABLES
    running,     \* the debuggee was resumed and has not stopped since
    events,      \* debug_events_stream: "running", "stopped", frame events
    var_refs,    \* HandleTree: the paths that resolve
    selected_frame_changed, last_goto_request, step_in_targets, \* DebugSession
    known,       \* client: references it may use
    shown,       \* client: names of step-in targets by id, None if unknown
    answer,      \* client: what the request just handled was answered with
    behind,      \* history: resumed without before_resume since the last one
    stale,       \* history: remembered of an earlier stop, though not behind
    lateFrame,   \* history: a frame event of an earlier stop came late
    unresumed    \* history: before_resume ran but nothing was resumed

session == <<var_refs, selected_frame_changed, last_goto_request, step_in_targets>>
client == <<known, shown>>
lldb == <<running, events>>
history == <<stale, behind, lateFrame, unresumed>>
vars == <<lldb, session, client, answer, history>>

None == "none"
Scopes == {"[locs]", "[stat]", "[glob]", "[regs]"}

FramePaths == {<<f>> : f \in Frames}
ScopePaths == {Append(p, s) : p \in FramePaths, s \in Scopes}
Keys == Frames \cup Scopes \cup Structured \cup {Expr, "[raw]"}
Parent(p) == SubSeq(p, 1, Len(p) - 1)

Elements(seq) == {seq[i] : i \in DOMAIN seq}

\* What else may be stale than a reference.
Targets == <<"step_in_targets">>
Flag == <<"selected_frame_changed">>

\* Answers that a property is about: lists of variables and evaluations.
NoAnswer == [kind |-> None]
List(names, unique, n, items) ==
    [kind |-> "list", of |-> names, unique |-> unique, upto |-> n, items |-> items]
Evaluated(frame) == [kind |-> "evaluated", frame |-> frame]
Unanswered == answer' = NoAnswer

TypeOK ==
    /\ running \in BOOLEAN
    /\ events \in Seq({"running", "stopped", "frame", "oldframe"})
    /\ Len(events) <= QueueCap
    /\ var_refs \subseteq Seq(Keys) \ {<<>>} /\ known \subseteq Seq(Keys) \ {<<>>}
    /\ selected_frame_changed \in BOOLEAN /\ last_goto_request \in BOOLEAN
    /\ step_in_targets \in Seq(Fns) /\ Len(step_in_targets) <= MaxTargets
    /\ shown \in Seq(Fns \cup {None})
    /\ answer.kind \in {None, "list", "evaluated"}
    /\ stale \subseteq (Seq(Keys) \ {<<>>}) \cup {Targets, Flag}
    /\ behind \in BOOLEAN /\ lateFrame \in BOOLEAN /\ unresumed \in BOOLEAN

\* Stopped for the first time; the event is not handled yet.
Init ==
    /\ running = FALSE /\ events = <<"stopped">>
    /\ var_refs = {} /\ selected_frame_changed = FALSE
    /\ last_goto_request = FALSE /\ step_in_targets = <<>>
    /\ known = {} /\ shown = <<>> /\ answer = NoAnswer
    /\ stale = {} /\ behind = FALSE /\ lateFrame = FALSE /\ unresumed = FALSE

-----------------------------------------------------------------------------
(* LLDB and the user's commands.                                             *)

Announce(es, kind) == IF Len(es) >= QueueCap THEN es ELSE Append(es, kind)

\* The debuggee stops: what is still remembered is of an earlier stop now.
\* (That says nothing new if the session did not know of the resumption.)
LldbStops ==
    /\ running
    /\ running' = FALSE
    /\ events' = Announce([i \in DOMAIN events |->
                     IF events[i] = "frame" THEN "oldframe" ELSE events[i]], "stopped")
    /\ stale' = IF behind THEN {}
                ELSE var_refs \cup {x \in {Targets} : step_in_targets # <<>>}
                              \cup {x \in {Flag} : selected_frame_changed}
    /\ Unanswered /\ UNCHANGED <<session, client, behind, lateFrame, unresumed>>

\* A command, terminate or restart resumes the debuggee: no before_resume.
ResumedBehind ==
    /\ ~running
    /\ running' = TRUE /\ behind' = TRUE /\ stale' = {}
    /\ events' = Announce(events, "running")
    /\ Unanswered /\ UNCHANGED <<session, client, lateFrame, unresumed>>

\* `frame select`, in the debug console or in the terminal.
FrameSelected ==
    /\ ~running
    /\ events' = Announce(events, "frame")
    /\ Unanswered /\ UNCHANGED <<running, session, client, history>>

-----------------------------------------------------------------------------
(* News for the client.                                                      *)

Told ==
    /\ known' = {} /\ shown' = <<>>
    /\ unresumed' = FALSE

\* handle_process_event: the client hears that the debuggee runs or stopped.
HandleProcessEvent ==
    /\ events # <<>> /\ Head(events) \in {"running", "stopped"}
    /\ events' = Tail(events)
    /\ Told
    /\ Unanswered /\ UNCHANGED <<running, session, stale, behind, lateFrame>>

\* The user selected another frame, at this stop or at an earlier one.
HandleThreadEvent ==
    /\ events # <<>> /\ Head(events) \in {"frame", "oldframe"}
    /\ events' = Tail(events)
    /\ selected_frame_changed' = TRUE
    /\ lateFrame' = (lateFrame \/ Head(events) = "oldframe" \/ running)
    /\ stale' = (stale \ {Flag}) \cup {x \in {Flag} : Head(events) = "oldframe" /\ ~behind}
    /\ Unanswered /\ UNCHANGED <<running, var_refs, last_goto_request,
                                 step_in_targets, client, behind, unresumed>>

\* A fake stop, for which nothing is reset: refresh_client_display after goto,
\* a pause that came too late or new settings; and handle_restart_frame.
RefreshClientDisplay ==
    /\ ~running
    /\ Told
    /\ Unanswered /\ UNCHANGED <<lldb, session, stale, behind, lateFrame>>

HandleRestartFrame(p) ==
    /\ p \in known \cap var_refs \cap FramePaths
    /\ RefreshClientDisplay

-----------------------------------------------------------------------------
(* Requests that resume.                                                     *)

\* Mutants of BeforeResume: one piece is not reset.
BeforeResumeKeepsTargets ==
    /\ var_refs' = {} /\ selected_frame_changed' = FALSE
    /\ last_goto_request' = FALSE /\ step_in_targets' = step_in_targets
    /\ stale' = stale \cap {Targets} /\ behind' = FALSE /\ lateFrame' = FALSE

BeforeResumeKeepsFrame ==
    /\ var_refs' = {} /\ selected_frame_changed' = selected_frame_changed
    /\ last_goto_request' = FALSE /\ step_in_targets' = <<>>
    /\ stale' = stale \cap {Flag} /\ behind' = FALSE /\ lateFrame' = FALSE

BeforeResume ==
    /\ var_refs' = {} /\ selected_frame_changed' = FALSE
    /\ last_goto_request' = FALSE /\ step_in_targets' = <<>>
    /\ stale' = {} /\ behind' = FALSE /\ lateFrame' = FALSE

\* LLDB takes the call, and the response tells the client that the debuggee runs.
Resumed ==
    /\ ~running
    /\ running' = TRUE
    /\ events' = Announce(events, "running")
    /\ Told

\* It refuses, or a command of reverse_exec fails: an error for the client.
NotResumed ==
    /\ unresumed' = TRUE
    /\ UNCHANGED <<lldb, client>>

\* handle_next, and handle_step_in by instruction or without a target that is
\* known: the thread is looked up first, so that a running debuggee changes nothing.
HandleNext ==
    /\ ~running
    /\ BeforeResume
    /\ Resumed \/ NotResumed
    /\ Unanswered

\* handle_step_out, handle_step_back, handle_reverse_continue: the state of the
\* stop is reset before anything can fail.
HandleStepOut ==
    /\ BeforeResume
    /\ Resumed \/ NotResumed
    /\ Unanswered

\* handle_continue tells the client that a running debuggee runs.
HandleContinue ==
    /\ BeforeResume
    /\ \/ Resumed
       \/ ~running /\ NotResumed
       \/ running /\ Told /\ UNCHANGED lldb
    /\ Unanswered

\* handle_step_in with a target: the debuggee has stopped again when it returns,
\* and LLDB raises no event.
HandleStepInTarget(id) ==
    /\ ~running
    /\ id \in 1 .. Len(step_in_targets)
    /\ id \in 1 .. Len(shown) /\ shown[id] # None
    /\ BeforeResume /\ Told
    /\ Unanswered /\ UNCHANGED lldb

-----------------------------------------------------------------------------
(* References.                                                              *)

\* What HandleTree::create makes of the paths, and the client of the answer to a
\* request about path p. It ignores an answer about a path it forgot meanwhile.
Created(paths) ==
    /\ var_refs' = var_refs \cup paths
    /\ stale' = IF running THEN stale ELSE stale \ paths
Answered(p, paths) == known' = IF p \in known THEN known \cup paths ELSE known

\* The rest of a request about references.
OnlyRefs == UNCHANGED <<lldb, selected_frame_changed, last_goto_request,
                        step_in_targets, shown, behind, lateFrame, unresumed>>

\* A handle for each of the frames that were asked for.
HandleStackTrace(fs) ==
    /\ ~running /\ fs # {}
    /\ LET frames == {<<f>> : f \in fs} IN
       Created(frames) /\ known' = known \cup frames
    /\ Unanswered /\ OnlyRefs

\* The four scopes of a frame.
HandleScopes(p) ==
    /\ p \in var_refs \cap FramePaths
    /\ LET scopes == {Append(p, s) : s \in Scopes} IN
       Created(scopes) /\ Answered(p, scopes)
    /\ Unanswered /\ OnlyRefs

-----------------------------------------------------------------------------
(* convert_scope_values                                                     *)

\* Mutant of Inserted: the first variable of a name is kept.
InsertedFirstWins(list, names, i, deduplicate) ==
    IF deduplicate /\ \E j \in DOMAIN list : names[list[j]] = names[i]
    THEN list
    ELSE Append(list, i)

\* The list with the value at position i of LLDB's list. In a list without
\* duplicates, a later variable takes the place of its namesake.
Inserted(list, names, i, deduplicate) ==
    LET namesakes == {j \in DOMAIN list : names[list[j]] = names[i]}
    IN  IF deduplicate /\ namesakes # {}
        THEN [list EXCEPT ![CHOOSE j \in namesakes : TRUE] = i]
        ELSE Append(list, i)

\* The first n of LLDB's values, as their positions in its list.
Converted(names, n, deduplicate) ==
    LET list[i \in 0 .. n] ==
            IF i = 0 THEN <<>> ELSE Inserted(list[i - 1], names, i, deduplicate)
    IN  list[n]

\* Values that have children get handles (get_var_handle).
Handles(p, names, n) ==
    {Append(p, names[i]) : i \in {j \in 1 .. n : names[j] \in Structured}}

\* What LLDB lists for a container: Locals for the arguments and locals of a
\* frame, nothing for the other scopes (a bound), Members for a value. The last
\* return value, which may precede the locals, is no variable and is left out.
LocalsPaths == {Append(p, "[locs]") : p \in FramePaths}
ValuesOf(p) == IF p \in LocalsPaths THEN Locals
               ELSE IF p \in ScopePaths THEN <<>> ELSE Members

\* handle_variables converts n values: all of them, or as many as fit into the
\* evaluation timeout. A synthetic value gets its [raw] child.
HandleVariables(p, n) ==
    /\ p \in var_refs \ FramePaths
    /\ LET names == ValuesOf(p) IN
       /\ n \in (IF names = <<>> THEN 0 ELSE 1) .. Len(names)
       /\ \E raw \in SUBSET {q \in {Append(p, "[raw]")} : p[Len(p)] \in Synthetic} :
             LET new == Handles(p, names, n) \cup raw IN
             Created(new) /\ Answered(p, new)
       /\ LET unique == p \in LocalsPaths IN
          answer' = List(names, unique, n, Converted(names, n, unique))
    /\ OnlyRefs

\* Cancelled after n values: an error, but their handles have been made.
HandleVariablesCancelled(p, n) ==
    /\ p \in var_refs \ FramePaths
    /\ n \in 1 .. Len(ValuesOf(p))
    /\ Created(Handles(p, ValuesOf(p), n))
    /\ Unanswered /\ UNCHANGED known /\ OnlyRefs

\* handle_set_variable: the new value of a member or of a variable.
HandleSetVariable(p, name) ==
    /\ p \in var_refs \ FramePaths /\ p \notin {Append(f, "[regs]") : f \in FramePaths}
    /\ name \in Elements(ValuesOf(p))
    /\ LET new == IF name \in Structured THEN {Append(p, name)} ELSE {} IN
       Created(new) /\ Answered(p, new)
    /\ Unanswered /\ OnlyRefs

-----------------------------------------------------------------------------
(* Evaluation.                                                              *)

\* The frame in which an expression is evaluated, if the client names frame p:
\* the selected one after `frame select`, the global context if p is unknown.
EvaluationFrame(p) ==
    IF p \notin var_refs \cap FramePaths THEN "global"
    ELSE IF selected_frame_changed THEN "selected" ELSE "asked"

\* handle_evaluate; a value that has children gets a handle at the root. Python
\* may evaluate while the debuggee runs.
HandleEvaluate(p) ==
    /\ p \in FramePaths
    /\ answer' = IF p \in known THEN Evaluated(EvaluationFrame(p)) ELSE NoAnswer
    /\ \E new \in SUBSET {<<Expr>>} :
          Created(new) /\ known' = known \cup new
    /\ OnlyRefs

\* handle_data_breakpoint_info for an expression: only the frame matters here.
HandleDataBreakpointInfo(p) ==
    /\ p \in known \cap FramePaths
    /\ answer' = Evaluated(EvaluationFrame(p))
    /\ UNCHANGED <<var_refs, stale, known>> /\ OnlyRefs

-----------------------------------------------------------------------------
(* Step-in targets and goto.                                                *)

\* Mutant of NewIds: the ids of a response start from zero.
NewIdsFromZero(fns) == fns

\* A target's id is its index in step_in_targets, which grows until the next
\* resumption; the client knows those of the last response.
NewIds(fns) == [i \in 1 .. Len(step_in_targets) |-> None] \o fns

\* The functions that the rest of the statement calls, each once.
HandleStepInTargets(p, fns) ==
    /\ ~running /\ p \in known \cap var_refs \cap FramePaths
    /\ Len(step_in_targets) + Len(fns) <= MaxTargets
    /\ step_in_targets' = step_in_targets \o fns
    /\ shown' = NewIds(fns)
    /\ Unanswered /\ UNCHANGED <<lldb, var_refs, selected_frame_changed,
                                 last_goto_request, known, history>>

HandleGotoTargets ==
    /\ last_goto_request' = TRUE
    /\ Unanswered /\ UNCHANGED <<lldb, var_refs, selected_frame_changed,
                                 step_in_targets, client, history>>

\* handle_goto forgets the request after a jump to a source line and keeps it
\* after one in disassembly.
HandleGoto ==
    /\ ~running /\ last_goto_request
    /\ last_goto_request' \in BOOLEAN
    /\ Told
    /\ Unanswered /\ UNCHANGED <<lldb, var_refs, selected_frame_changed,
                                 step_in_targets, stale, behind, lateFrame>>

FnLists == {fns \in UNION {[1 .. n -> Fns] : n \in 1 .. Cardinality(Fns)} :
                Cardinality(Elements(fns)) = Len(fns)}

\* The client takes the answer. (Every other step would clear it as well: an answer
\* lasts for one state.)
AnswerTaken ==
    /\ answer # NoAnswer
    /\ Unanswered /\ UNCHANGED <<lldb, session, client, history>>

Step ==
    \/ LldbStops \/ ResumedBehind \/ FrameSelected
    \/ HandleProcessEvent \/ HandleThreadEvent \/ RefreshClientDisplay
    \/ HandleNext \/ HandleStepOut \/ HandleContinue
    \/ \E id \in 1 .. MaxTargets : HandleStepInTarget(id)
    \/ \E fs \in SUBSET Frames : HandleStackTrace(fs)
    \/ \E p \in FramePaths : HandleEvaluate(p) \/ HandleDataBreakpointInfo(p)
    \/ \E p \in var_refs :
          \/ HandleRestartFrame(p) \/ HandleScopes(p)
          \/ \E n \in 0 .. Len(ValuesOf(p)) :
                HandleVariables(p, n) \/ HandleVariablesCancelled(p, n)
          \/ \E name \in Elements(ValuesOf(p)) : HandleSetVariable(p, name)
          \/ \E fns \in FnLists : HandleStepInTargets(p, fns)
    \/ HandleGotoTargets \/ HandleGoto

Next == AnswerTaken \/ (answer = NoAnswer /\ Step)

Spec == Init /\ [][Next]_vars

-----------------------------------------------------------------------------
(* Properties.                                                               *)

\* Whatever the client may refer to resolves, to what it was told: variable
\* references, with those of their parents, which compose_container_eval_name
\* unwraps, and the ids of step-in targets, which are positions in a list that
\* other requests extend and clear. It does so whatever was cancelled or made
\* again meanwhile, and also while the debuggee is resumed behind the session's
\* back. Only a request to resume that failed after before_resume leaves the
\* client with what is gone (HandleTree, handle_step_in_targets, handle_step_in).
RefsResolve ==
    /\ unresumed \/ known \subseteq var_refs
    /\ \A p \in var_refs : Len(p) > 1 => Parent(p) \in var_refs
    /\ unresumed \/ \A id \in 1 .. Len(shown) :
           shown[id] # None =>
               id <= Len(step_in_targets) /\ step_in_targets[id] = shown[id]

\* At a stop, the frames and variables that resolve and the step-in targets are
\* of this stop and of no earlier one, if the debuggee was resumed by a request
\* of the client. What is evaluated without a frame may be older (before_resume).
StateIsOfThisStop ==
    ~running /\ ~behind =>
        \A x \in stale : x = Flag \/ x[1] = Expr

\* A list of locals shows each name once, with the innermost variable of that
\* name among those converted, in the order in which the names came first. Any
\* other list shows everything that was converted, in LLDB's order
\* (convert_scope_values).
ListingIsExact ==
    answer.kind = "list" =>
        LET names == answer.of
            First(i) == CHOOSE j \in 1 .. i : /\ names[j] = names[i]
                                              /\ \A k \in 1 .. j - 1 : names[k] # names[i]
        IN IF answer.unique
           THEN /\ Elements(answer.items) =
                       {i \in 1 .. answer.upto :
                           \A k \in i + 1 .. answer.upto : names[k] # names[i]}
                /\ \A a, b \in DOMAIN answer.items :
                       a < b => First(answer.items[a]) < First(answer.items[b])
           ELSE answer.items = [i \in 1 .. answer.upto |-> i]

\* An expression is evaluated in the frame the client names, or in the selected
\* frame if the user selected one "after the last stop". The exceptions: a resume
\* request that failed took the frame away, the debuggee was resumed behind the
\* session's back, or the frame event came after the resumption it preceded
\* (handle_evaluate, handle_data_breakpoint_info, handle_thread_event).
EvaluatesWhereAsked ==
    answer.kind = "evaluated" =>
        \/ answer.frame = "asked"
        \/ answer.frame = "selected" /\ (Flag \notin stale \/ behind \/ lateFrame)
        \/ answer.frame = "global" /\ unresumed
=============================================================================
