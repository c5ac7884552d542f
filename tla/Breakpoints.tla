---------------------------- MODULE Breakpoints ----------------------------
(***************************************************************************)
(* The adapter's breakpoint bookkeeping (debug_session/breakpoints.rs).     *)
(*                                                                          *)
(* LLDB owns the breakpoints.  The session mirrors them in breakpoint_infos *)
(* and in one table per kind that maps what the client asked for (a line, a *)
(* disassembly line, an address, a name) to a breakpoint id.  LLDB reports  *)
(* every creation, removal and resolution, the session's own included, as   *)
(* an event that the main loop handles later, and it calls back from its    *)
(* own thread when a breakpoint is hit.                                     *)
(*                                                                          *)
(* Each handler runs under the session lock and is one action.  Between     *)
(* handlers come the user's breakpoint commands in the debug console, the   *)
(* queued events and a hit whose callback waits for the lock.               *)
(***************************************************************************)
EXTENDS Naturals, SequencesExt

CONSTANTS
    Kinds,        \* the kinds of breakpoint the client sets, of TableKinds
    Keys,         \* lines, addresses or names; one file, one disassembled range
    Filters,      \* exception filters known to set_exception_breakpoint
    Options,      \* condition, hit condition and log message of a request
    Symbols,      \* functions that may be on the stack
    PathMode,     \* breakpoint_mode is Path, so hints are looked up
    Lossy,        \* the listener may lose events
    MaxReq,       \* bound: breakpoints in one request
    MaxIds,       \* bound: breakpoints LLDB creates
    MaxHits,      \* bound: counted hits of a breakpoint between two requests
    MaxEvents     \* bound: breakpoint events on their way at any time

TableKinds == {"source", "assembly", "instruction", "function"}
Operators == {"none", "LT", "LE", "EQ", "GE", "GT", "MOD"}

ASSUME BreakpointsAssumption ==
    /\ Kinds \subseteq TableKinds
    /\ Options \subseteq [hit : [op : Operators, n : Nat], log : BOOLEAN, py : BOOLEAN,
                    native : BOOLEAN]
    /\ PathMode \in BOOLEAN /\ Lossy \in BOOLEAN
    /\ MaxReq \in Nat /\ MaxIds \in Nat /\ MaxHits \in Nat /\ MaxEvents \in Nat

VARIABLES
    origin,     \* who created each LLDB breakpoint: a kind, "hint" or "console"
    alive,      \* the ids LLDB still has
    armed,      \* the ids with our callback
    conditioned,\* the ids with a native condition
    table,      \* the maps source, assembly, instruction and function
    infos,      \* breakpoint_infos
    events,     \* breakpoint events on their way to the main loop
    hit,        \* the breakpoint whose callback awaits the session lock, or None
    stop,       \* the breakpoint at which the debuggee is stopped, or None
    panicked,   \* a callback has panicked
    notified,   \* history: the last breakpoint event sent to the client, if any
    dropped,    \* history: live breakpoints deleted at the client's request
    missing,    \* history: table entries deleted behind the client's back
    stray       \* history: breakpoints that a request creates and no table keeps

lldbVars == <<origin, alive, armed, conditioned>>
runVars == <<hit, stop, panicked>>
historyVars == <<notified, dropped, missing, stray>>
vars == <<lldbVars, table, infos, events, runVars, historyVars>>

None == 0
Ids == 1 .. MaxIds
Empty == [key \in {} |-> None]

Init ==
    /\ origin = <<>> /\ alive = {} /\ armed = {} /\ conditioned = {}
    /\ table = [k \in Kinds |-> Empty]
    /\ infos = Empty
    /\ events = <<>>
    /\ hit = None /\ stop = None /\ panicked = FALSE
    /\ notified = {} /\ dropped = {} /\ missing = {} /\ stray = {}

-----------------------------------------------------------------------------
(* Creating and tracking.                                                   *)

Event(type, id) == [type |-> type, id |-> id]

\* Mutant of MakeBpInfo: setting a breakpoint again keeps its hit count.
MakeBpInfoKeepsCount(id, kind, name, o) ==
    [kind |-> kind, name |-> name, hit |-> o.hit, log |-> o.log, py |-> o.py,
     native |-> o.native, hit_count |-> IF id \in DOMAIN infos THEN infos[id].hit_count ELSE 0,
     exclusions |-> {}, passed |-> 0, stops |-> 0]

\* make_bp_info.  passed and stops are history: the hits that passed the
\* callers and the condition, and those among them that stopped the debuggee.
MakeBpInfo(id, kind, name, o) ==
    [kind |-> kind, name |-> name, hit |-> o.hit, log |-> o.log, py |-> o.py,
     native |-> o.native, hit_count |-> 0, exclusions |-> {}, passed |-> 0, stops |-> 0]

NoHitCondition == [op |-> "none", n |-> 0]
Plain == [hit |-> NoHitCondition, log |-> FALSE, py |-> FALSE, native |-> FALSE]

\* The options that each kind of request passes to make_bp_info.
Effective(kind, o) ==
    CASE kind = "exception" -> [o EXCEPT !.hit = NoHitCondition, !.log = FALSE]
      [] kind \in {"instruction", "function"} -> [o EXCEPT !.log = FALSE]
      [] OTHER -> o

\* Mutant of Existing: find_breakpoint_by_id is not asked.
ExistingInTable(k, key) ==
    IF key \in DOMAIN table[k] THEN table[k][key] ELSE None

\* The live breakpoint a table has for the key, or None.
Existing(k, key) ==
    IF key \in DOMAIN table[k] /\ table[k][key] \in alive THEN table[k][key] ELSE None

(***************************************************************************)
(* The loop of the set requests: fresh are the positions of the request at  *)
(* which a breakpoint is created, hints those at which get_breakpoint_hint  *)
(* creates one more and deletes it at once.  LLDB numbers them in order.    *)
(***************************************************************************)

NewId(i, fresh, hints) ==
    Len(origin) + 1 + Cardinality({j \in fresh : j < i}) + Cardinality({j \in hints : j < i})

HintId(i, fresh, hints) == NewId(i, fresh, hints) + IF i \in fresh THEN 1 ELSE 0

\* The origins of the breakpoints that the loop creates.
Created(kind, ids, fresh, hints) ==
    [n \in 1 .. Cardinality(fresh) + Cardinality(hints) |->
        IF \E i \in fresh : ids[i] = Len(origin) + n THEN kind ELSE "hint"]

\* The events of a set one after the other, in any order that leaves room for them.
Orderings(E) == {q \in SeqOf(E, MaxEvents) : Range(q) = E /\ IsInjective(q)}

\* The events of the loop, in the order of the ids, a creation before the removal.
CreationEvents(ids, fresh, hints) ==
    LET transient == {HintId(i, fresh, hints) : i \in hints}
        E == {Event("added", id) : id \in {ids[i] : i \in fresh} \cup transient}
                \cup {Event("removed", id) : id \in transient}
    IN  {q \in Orderings(E) : \A m, n \in DOMAIN q :
            m < n => q[m].id < q[n].id \/ (q[m].id = q[n].id /\ q[m].type = "added")}

\* The deletions follow the order of a hash map, which is none in particular.
RemovalEvents(S) == Orderings({Event("removed", id) : id \in S})

\* The last position at which a sequence has the value: later inserts win.
LastAt(s, v) == CHOOSE i \in DOMAIN s : s[i] = v /\ \A j \in DOMAIN s : s[j] = v => j <= i

\* breakpoint_infos with the requested breakpoints inserted and gone removed.
Tracked(kind, reqs, ids, gone) ==
    [id \in (DOMAIN infos \ gone) \cup Range(ids) |->
        IF id \in Range(ids)
        THEN LET r == reqs[LastAt(ids, id)]
             IN  MakeBpInfo(id, kind, IF kind = "exception" THEN r.key ELSE "",
                            Effective(kind, r.opts))
        ELSE infos[id]]

\* Creates, tracks and arms the requested breakpoints, and deletes gone: after
\* the loop, but before it when an exception request replaces the old ones.
\* init_bp_actions gives LLDB a native condition, and never takes one back.
Place(kind, reqs, ids, fresh, hints, gone, forgotten) ==
    LET created == Created(kind, ids, fresh, hints)
    IN  /\ Len(origin) + Cardinality(fresh) + Cardinality(hints) <= MaxIds
        /\ Len(events) + Cardinality(fresh) + 2 * Cardinality(hints)
              + Cardinality(gone \cap alive) <= MaxEvents
        /\ origin' = origin \o created
        /\ alive' = (alive \cup {ids[i] : i \in fresh}) \ gone
        /\ armed' = armed \cup Range(ids)
        /\ conditioned' = conditioned \cup {ids[i] : i \in {j \in DOMAIN reqs : reqs[j].opts.native}}
        /\ infos' = Tracked(kind, reqs, ids, forgotten)
        /\ \E added \in CreationEvents(ids, fresh, hints), removed \in RemovalEvents(gone \cap alive) :
              events' = events \o IF kind = "exception" THEN removed \o added
                                                        ELSE added \o removed
        /\ dropped' = dropped \cup (gone \cap alive)

-----------------------------------------------------------------------------
(* Request handlers.                                                        *)

\* A client may repeat a key.
Requests(keys) == UNION {[1 .. n -> [key : keys, opts : Options]] : n \in 0 .. MaxReq}

Fresh(k, reqs) == {i \in DOMAIN reqs : Existing(k, reqs[i].key) = None}

\* Mutant of IdsOf: what find_breakpoint_by_id returns is used even if it is nothing.
IdsOfExisting(k, reqs, fresh, hints) ==
    [i \in DOMAIN reqs |-> Existing(k, reqs[i].key)]

IdsOf(k, reqs, fresh, hints) ==
    [i \in DOMAIN reqs |-> IF i \in fresh THEN NewId(i, fresh, hints)
                                          ELSE Existing(k, reqs[i].key)]

\* Mutant of Dropped: the loop that deletes the old breakpoints is missing.
DroppedNone(k, keys) == {}

\* Breakpoints of the table that are no longer requested.
Dropped(k, keys) == {table[k][key] : key \in DOMAIN table[k] \ keys}

\* Mutant of Forgotten: set_source_breakpoints leaves the info as well.
ForgottenNever(k, gone) == {}

\* Only set_source_breakpoints takes what it deletes out of breakpoint_infos.
Forgotten(k, gone) == IF k = "source" THEN gone ELSE {}

(***************************************************************************)
(* What the four handlers that keep a table share: look up or create, track *)
(* and arm each requested breakpoint, delete the ones no longer requested,  *)
(* replace the table.                                                       *)
(***************************************************************************)
SetBreakpoints(k, reqs, hints) ==
    LET fresh == Fresh(k, reqs)
        ids == IdsOf(k, reqs, fresh, hints)
        keys == [i \in DOMAIN reqs |-> reqs[i].key]
        gone == Dropped(k, Range(keys))
    IN  /\ k \in Kinds
        /\ Place(k, reqs, ids, fresh, hints, gone, Forgotten(k, gone))
        /\ table' = [table EXCEPT ![k] = [key \in Range(keys) |-> ids[LastAt(keys, key)]]]
        /\ missing' = {m \in missing : m[1] # k}
        /\ stray' = stray \cup {ids[i] : i \in {j \in fresh : j # LastAt(keys, keys[j])}}
        /\ UNCHANGED <<runVars, notified>>

\* In Path mode a breakpoint without locations has a hint looked up.
SetSourceBreakpoints(reqs, hints) ==
    /\ PathMode \/ hints = {}
    /\ SetBreakpoints("source", reqs, hints)

SetDasmBreakpoints(reqs) == SetBreakpoints("assembly", reqs, {})

HandleSetInstructionBreakpoints(reqs) == SetBreakpoints("instruction", reqs, {})

HandleSetFunctionBreakpoints(reqs) == SetBreakpoints("function", reqs, {})

\* handle_set_instruction_breakpoints meets a reference it cannot parse: what
\* precedes it has been created, and the error leaves the table as it was.
HandleSetInstructionFails(reqs) ==
    LET fresh == Fresh("instruction", reqs)
        ids == IdsOf("instruction", reqs, fresh, {})
    IN  /\ "instruction" \in Kinds
        /\ Place("instruction", reqs, ids, fresh, {}, {}, {})
        /\ stray' = stray \cup {ids[i] : i \in fresh}
        /\ UNCHANGED <<table, runVars, notified, missing>>

\* set_new_dasm_breakpoints: every line of the previous session's range gets a
\* new breakpoint, which no table remembers.
SetNewDasmBreakpoints(reqs) ==
    /\ "assembly" \in Kinds
    /\ LET ids == [i \in DOMAIN reqs |-> NewId(i, DOMAIN reqs, {})]
       IN  /\ Place("assembly", reqs, ids, DOMAIN reqs, {}, {}, {})
           /\ stray' = stray \cup Range(ids)
    /\ UNCHANGED <<table, runVars, notified, missing>>

ExceptionIds == {id \in DOMAIN infos : infos[id].kind = "exception"}

\* Mutant of HandleSetExceptionBreakpoints: forgets the old ones without deleting them.
HandleSetExceptionBreakpointsForgets(reqs) ==
    /\ Place("exception", reqs, [i \in DOMAIN reqs |-> NewId(i, DOMAIN reqs, {})],
             DOMAIN reqs, {}, {}, ExceptionIds)
    /\ UNCHANGED <<table, runVars, notified, missing, stray>>

\* handle_set_exception_breakpoints: all are deleted and created anew.
HandleSetExceptionBreakpoints(reqs) ==
    /\ Place("exception", reqs, [i \in DOMAIN reqs |-> NewId(i, DOMAIN reqs, {})],
             DOMAIN reqs, {}, ExceptionIds, ExceptionIds)
    /\ UNCHANGED <<table, runVars, notified, missing, stray>>

\* handle_exclude_caller, at a breakpoint that is still tracked.
HandleExcludeCaller(symbol) ==
    /\ stop \in DOMAIN infos
    /\ infos' = [infos EXCEPT ![stop].exclusions = @ \cup {symbol}]
    /\ UNCHANGED <<lldbVars, table, events, runVars, historyVars>>

\* handle_set_excluded_callers: pairs of a site, an id or a filter, and a symbol.
HandleSetExcludedCallers(exclusions) ==
    /\ infos' = [id \in DOMAIN infos |->
           [infos[id] EXCEPT !.exclusions =
               {e[3] : e \in {x \in exclusions :
                   \/ x[1] = "id" /\ x[2] = id
                   \/ x[1] = "filter" /\ infos[id].kind = "exception"
                                      /\ x[2] = infos[id].name}}]]
    /\ UNCHANGED <<lldbVars, table, events, runVars, historyVars>>

-----------------------------------------------------------------------------
(* Breakpoint events.                                                       *)

Notify(reason, id) == notified' = {[reason |-> reason, id |-> id]}

\* Mutant of IsNews: announces every live breakpoint.
IsNewsIfValid(id) == id \in alive

\* A breakpoint is announced if it is neither tracked already nor transient.
IsNews(id) == id \notin DOMAIN infos /\ id \in alive

HandleAdded(id) ==
    IF IsNews(id)
    THEN /\ Notify("new", id)
         /\ infos' = [i \in DOMAIN infos \cup {id} |->
                IF i = id THEN MakeBpInfo(id, "source", "", Plain) ELSE infos[i]]
         /\ UNCHANGED armed
    ELSE UNCHANGED <<infos, armed, notified>>

HandleResolved(id) ==
    /\ IF id \in DOMAIN infos THEN Notify("changed", id) ELSE UNCHANGED notified
    /\ UNCHANGED <<infos, armed>>

\* Mutant of HandleRemoved: the info stays.
HandleRemovedKeeps(id) ==
    /\ armed' = armed \ {id}
    /\ IF id \in DOMAIN infos THEN Notify("removed", id) ELSE UNCHANGED notified
    /\ UNCHANGED infos

HandleRemoved(id) ==
    /\ armed' = armed \ {id}
    /\ IF id \in DOMAIN infos THEN Notify("removed", id) ELSE UNCHANGED notified
    /\ infos' = [i \in DOMAIN infos \ {id} |-> infos[i]]

\* handle_breakpoint_event.
HandleBreakpointEvent ==
    /\ events # <<>>
    /\ LET e == Head(events)
       IN  \/ e.type = "added" /\ HandleAdded(e.id)
           \/ e.type = "resolved" /\ HandleResolved(e.id)
           \/ e.type = "removed" /\ HandleRemoved(e.id)
    /\ events' = Tail(events)
    /\ UNCHANGED <<origin, alive, conditioned, table, runVars, dropped, missing, stray>>

\* The listener drops an event while corked or when its channel is full.
EventLost ==
    /\ Lossy /\ events # <<>>
    /\ events' = Tail(events)
    /\ UNCHANGED <<lldbVars, table, infos, runVars, historyVars>>

-----------------------------------------------------------------------------
(* Hits.                                                                    *)

\* Whether a hit with this count satisfies the hit condition.
Satisfied(c, count) ==
    CASE c.op = "none" -> TRUE
      [] c.op = "LT" -> count < c.n
      [] c.op = "LE" -> count <= c.n
      [] c.op = "EQ" -> count = c.n
      [] c.op = "GE" -> count >= c.n
      [] c.op = "GT" -> count > c.n
      [] c.op = "MOD" -> c.n > 0 /\ count % c.n = 0

\* A running debuggee hits a live breakpoint.
Hit(id) ==
    /\ stop = None /\ hit = None /\ id \in alive
    /\ \/ /\ id \in armed
          /\ hit' = id
          /\ UNCHANGED stop
       \/ /\ id \notin armed
          /\ stop' = id
          /\ UNCHANGED hit
    /\ UNCHANGED <<lldbVars, table, infos, events, panicked, historyVars>>

\* The breakpoint is not tracked any more: unwrap panics.
HitUntracked ==
    /\ hit # None /\ hit \notin DOMAIN infos
    /\ panicked' = TRUE
    /\ UNCHANGED <<lldbVars, table, infos, events, hit, stop, historyVars>>

\* No excluded caller is on the stack and the condition is true.
Passes(info, onStack, condition) ==
    info.exclusions \cap onStack = {} /\ (info.py => condition = "true")

ModZero == [op |-> "MOD", n |-> 0]

\* LLDB finds the native condition false and does not call back, although the last
\* request for the breakpoint has no such condition: it is that of an earlier one.
HitWithheld(id, onStack, condition) ==
    /\ stop = None /\ hit = None
    /\ id \in alive \cap conditioned \cap DOMAIN infos
    /\ ~infos[id].native /\ infos[id].passed < MaxHits
    /\ Passes(infos[id], onStack, condition)
    /\ infos' = [infos EXCEPT ![id].passed = @ + 1]
    /\ UNCHANGED <<lldbVars, table, events, runVars, historyVars>>

\* The callback lets the debuggee run on without counting the hit: an excluded
\* caller is on the stack, or the condition is false.
HitSkipped(onStack, condition) ==
    /\ hit \in DOMAIN infos
    /\ LET info == infos[hit]
       IN  \/ info.exclusions \cap onStack # {}
           \/ info.py /\ condition = "false"
    /\ hit' = None
    /\ UNCHANGED <<lldbVars, table, infos, events, stop, panicked, historyVars>>

\* An error in the condition stops the debuggee, also without counting.
HitConditionError(onStack, condition) ==
    /\ hit \in DOMAIN infos
    /\ infos[hit].exclusions \cap onStack = {}
    /\ infos[hit].py /\ condition = "error"
    /\ hit' = None /\ stop' = hit
    /\ UNCHANGED <<lldbVars, table, infos, events, panicked, historyVars>>

\* The next counted hit stops the debuggee: it is selected, and this is no logpoint.
Stops(info) == Satisfied(info.hit, info.hit_count + 1) /\ ~info.log

\* The info after one more hit that counts.
Counted(info) ==
    [info EXCEPT !.hit_count = @ + 1, !.passed = @ + 1,
                 !.stops = IF Stops(info) THEN @ + 1 ELSE @]

\* The hit is counted, and then the remainder by the n of the hit condition "%0",
\* which was parsed without complaint, panics.
HitDividesByZero(onStack, condition) ==
    /\ hit \in DOMAIN infos
    /\ LET info == infos[hit]
       IN  /\ info.hit_count < MaxHits
           /\ Passes(info, onStack, condition)
           /\ info.hit = ModZero
           /\ infos' = [infos EXCEPT ![hit] = Counted(info)]
    /\ panicked' = TRUE
    /\ UNCHANGED <<lldbVars, table, events, hit, stop, historyVars>>

\* The hit is counted; it stops the debuggee if it satisfies the hit condition
\* and the breakpoint is not a logpoint.
HitCounted(onStack, condition) ==
    /\ hit \in DOMAIN infos
    /\ LET info == infos[hit]
       IN  /\ info.hit_count < MaxHits
           /\ Passes(info, onStack, condition)
           /\ info.hit # ModZero
           /\ infos' = [infos EXCEPT ![hit] = Counted(info)]
           /\ stop' = IF Stops(info) THEN hit ELSE None
    /\ hit' = None
    /\ UNCHANGED <<lldbVars, table, events, panicked, historyVars>>

\* on_breakpoint_hit, once the callback has the session lock.
OnBreakpointHit ==
    \/ HitUntracked
    \/ \E s \in SUBSET Symbols, c \in {"true", "false", "error"} :
          \/ HitSkipped(s, c) \/ HitConditionError(s, c)
          \/ HitDividesByZero(s, c) \/ HitCounted(s, c)

\* The client resumes the debuggee.
Continue ==
    /\ stop # None
    /\ stop' = None
    /\ UNCHANGED <<lldbVars, table, infos, events, hit, panicked, historyVars>>

-----------------------------------------------------------------------------
(* The user's commands and LLDB.                                            *)

ConsoleCreate ==
    /\ Len(origin) < MaxIds /\ Len(events) < MaxEvents
    /\ origin' = Append(origin, "console")
    /\ alive' = alive \cup {Len(origin) + 1}
    /\ events' = Append(events, Event("added", Len(origin) + 1))
    /\ UNCHANGED <<armed, conditioned, table, infos, runVars, historyVars>>

ConsoleDelete(id) ==
    /\ id \in alive /\ Len(events) < MaxEvents
    /\ alive' = alive \ {id}
    /\ events' = Append(events, Event("removed", id))
    /\ missing' = missing \cup
          {m \in Kinds \X Keys : m[2] \in DOMAIN table[m[1]] /\ table[m[1]][m[2]] = id}
    /\ UNCHANGED <<origin, armed, conditioned, table, infos, runVars, notified, dropped, stray>>

\* A module is loaded and a location of the breakpoint is found.
LocationsResolved(id) ==
    /\ id \in alive /\ Len(events) < MaxEvents
    /\ events' = Append(events, Event("resolved", id))
    /\ UNCHANGED <<lldbVars, table, infos, runVars, historyVars>>

-----------------------------------------------------------------------------
SetRequests ==
    \/ \E reqs \in Requests(Keys) :
          \/ \E hints \in SUBSET DOMAIN reqs : SetSourceBreakpoints(reqs, hints)
          \/ SetDasmBreakpoints(reqs)
          \/ HandleSetInstructionBreakpoints(reqs)
          \/ HandleSetFunctionBreakpoints(reqs)
          \/ HandleSetInstructionFails(reqs)
          \/ SetNewDasmBreakpoints(reqs)
    \/ \E reqs \in Requests(Filters) : HandleSetExceptionBreakpoints(reqs)

Sites == ({"id"} \X Ids \X Symbols) \cup ({"filter"} \X Filters \X Symbols)

ExclusionRequests ==
    \/ \E s \in Symbols : HandleExcludeCaller(s)
    \/ HandleSetExcludedCallers({})
    \/ \E x \in Sites : HandleSetExcludedCallers({x})

Steps ==
    \/ SetRequests \/ ExclusionRequests
    \/ HandleBreakpointEvent \/ EventLost
    \/ MaxHits > 0 /\ \E id \in Ids : Hit(id)
    \/ \E id \in Ids, s \in SUBSET Symbols, c \in {"true", "false", "error"} :
          HitWithheld(id, s, c)
    \/ OnBreakpointHit \/ Continue
    \/ ConsoleCreate
    \/ \E id \in Ids : ConsoleDelete(id) \/ LocationsResolved(id)

\* A panic in the callback, which LLDB's C++ code has called, ends the adapter.
Next ==
    \/ ~panicked /\ Steps
    \/ panicked /\ UNCHANGED vars

Spec == Init /\ [][Next]_vars

-----------------------------------------------------------------------------
(* Properties.                                                              *)

TypeOK ==
    /\ origin \in Seq(TableKinds \cup {"exception", "hint", "console"})
    /\ Len(origin) <= MaxIds
    /\ alive \subseteq 1 .. Len(origin) /\ armed \subseteq 1 .. Len(origin)
    /\ conditioned \subseteq 1 .. Len(origin)
    /\ \A k \in Kinds : /\ DOMAIN table[k] \subseteq Keys
                        /\ \A key \in DOMAIN table[k] : table[k][key] \in 1 .. Len(origin)
    /\ DOMAIN infos \subseteq 1 .. Len(origin)
    /\ \A id \in DOMAIN infos :
          /\ infos[id].kind \in TableKinds \cup {"exception"}
          /\ infos[id].hit_count \in 0 .. MaxHits
          /\ infos[id].exclusions \subseteq Symbols
    /\ \A i \in DOMAIN events : events[i].id \in 1 .. Len(origin)
    /\ hit \in 0 .. Len(origin) /\ stop \in 0 .. Len(origin)
    /\ panicked \in BOOLEAN
    /\ missing \subseteq Kinds \X Keys /\ stray \subseteq 1 .. Len(origin)

\* A live breakpoint that calls back is in breakpoint_infos, where
\* on_breakpoint_hit looks it up, whatever events are late or lost.
CallbackIsTracked == alive \cap armed \subseteq DOMAIN infos

\* What the tables name is alive, unless the user deleted it in the console
\* after the client's last request for that kind; no two keys share it.
TableIsAlive ==
    \A k \in Kinds : \A key \in DOMAIN table[k] :
        /\ table[k][key] \in alive \/ <<k, key>> \in missing
        /\ \A other \in DOMAIN table[k] : table[k][other] = table[k][key] => other = key

\* The client is told of a "new" breakpoint only when the user made it in the
\* console: never of one it asked for, nor of a transient hint.
NewOnlyForConsole ==
    \A n \in notified : n.reason = "new" => origin[n.id] = "console"

\* Deleting a source or an exception breakpoint at the client's request is
\* never echoed as "removed", however late LLDB's event is handled.
QuietRemoval ==
    \A n \in notified : n.reason = "removed" /\ n.id \in dropped
        => origin[n.id] \notin {"source", "exception"}

\* However requests, console commands and late events interleave, once all the
\* events of a breakpoint have been handled it is tracked if and only if LLDB
\* still has it, provided that the listener loses none.
TracksLLDB ==
    ~Lossy => \A id \in DOMAIN origin :
        (\A i \in DOMAIN events : events[i].id # id)
            => (id \in DOMAIN infos <=> id \in alive)

\* How many of the first m hits a hit condition selects.
Selected(c, m) ==
    CASE c.op = "none" -> m
      [] c.op = "LT" -> IF c.n = 0 THEN 0 ELSE Min({m, c.n - 1})
      [] c.op = "LE" -> Min({m, c.n})
      [] c.op = "EQ" -> IF c.n \in 1 .. m THEN 1 ELSE 0
      [] c.op = "GE" -> IF c.n = 0 THEN m ELSE Max({m + 1, c.n}) - c.n
      [] c.op = "GT" -> Max({m, c.n}) - c.n
      [] c.op = "MOD" -> IF c.n = 0 THEN 0 ELSE m \div c.n

\* LLDB still has the native condition of an earlier request.
Stale(id) == id \in conditioned /\ ~infos[id].native

\* Since the last request for it, a breakpoint has stopped the debuggee as often
\* as its hit condition selects among the counted hits, a logpoint never; and all
\* hits that were not excluded and whose condition was true have been counted,
\* unless the native condition of an earlier request is still in force.
StopsMatchCondition ==
    \A id \in DOMAIN infos :
        LET info == infos[id]
        IN  /\ info.stops = IF info.log THEN 0 ELSE Selected(info.hit, info.hit_count)
            /\ info.hit_count = info.passed \/ Stale(id)

Orphans ==
    {id \in alive : /\ origin[id] \in Kinds
                    /\ id \notin Range(table[origin[id]])}

\* A live breakpoint that the client has set is in the table of its kind, where the
\* next request finds and deletes it, however the console and late events interfere.
\* The strays are those the code loses at once: all but the last for a repeated key,
\* what precedes a bad instruction reference, and the lines of old adapter data.
NoOrphans == Orphans \subseteq stray

\* on_breakpoint_hit unwraps the info of the breakpoint that was hit.  Refuted
\* when it is deleted while the callback waits for the session lock.
HitIsTracked == hit # None => hit \in DOMAIN infos

\* A callback that finds its breakpoint does not panic: a hit condition that
\* make_bp_info accepts without reporting it as invalid can be evaluated.  Refuted
\* by "%0".
AcceptedConditionWorks == panicked => hit \notin DOMAIN infos
=============================================================================
