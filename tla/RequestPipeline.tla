-------------------------- MODULE RequestPipeline --------------------------
(***************************************************************************)
(* The path of a DAP request through the adapter, from the moment the       *)
(* client's frame is read to the moment its response is written:            *)
(*                                                                          *)
(*   dispatcher --broadcast--> cancellation_filter --mpsc--> main loop      *)
(*       ^                                                     |            *)
(*       +------------------- out channel (mpsc) --------------+            *)
(*                                                             |            *)
(*                                       async response tasks -+            *)
(*                                                                          *)
(* The dispatcher and the filter are tasks of the multi-threaded runtime;   *)
(* the main loop and the async response tasks share one LocalSet, hence     *)
(* one thread at a time.  Steps of different threads interleave at every    *)
(* access to the shared token (flag, receiver_count, callbacks) and at      *)
(* every channel operation.                                                 *)
(***************************************************************************)
EXTENDS Cancellation, Sequences, FiniteSets, Functions

CONSTANTS
    MaxSeq,        \* bound: number of requests the client sends
    Kinds,         \* the request kinds the client uses
    BroadcastCap,  \* capacity of the requests broadcast channel
    QueueCap,      \* capacity of the filter -> main loop channel
    OutCap,        \* capacity of the out channel
    MaxEvents,     \* bound: number of events in the out channel at a time
    HasPython      \* whether the session has a Python interface

(***************************************************************************)
(* One representative of each class the code tells apart: "variables" for   *)
(* the cancellable requests answered synchronously, "evaluate" for the      *)
(* cancellable one answered by a task, "continue" for those that cancel the *)
(* former, "launch" for the other asynchronous ones, "threads" for the      *)
(* rest.  "malformed" is a frame that fails to deserialize.                 *)
(***************************************************************************)
AllKinds == {"variables", "evaluate", "continue", "launch", "threads",
             "unknown", "cancel", "malformed"}
CancellableKinds == {"variables", "evaluate"}
CancelingKinds == {"continue"}
AsyncKinds == {"evaluate", "launch"}

ASSUME PipelineAssumption ==
    /\ MaxSeq \in Nat
    /\ Kinds \subseteq AllKinds
    /\ BroadcastCap \in Nat \ {0}
    /\ QueueCap \in Nat \ {0}
    /\ OutCap \in Nat \ {0}
    /\ MaxEvents \in Nat
    /\ HasPython \in BOOLEAN

Seqnos == 1 .. MaxSeq
None == 0          \* no request; in the out channel, an event

VARIABLES
    open,          \* the client is connected and the dispatcher loop runs
    nextSeq,       \* seq of the client's next message
    req,           \* what each seq asks for: kind, and the request_id of a cancel
    raw,           \* broadcast messages the filter has not received
    lagged,        \* the filter's cursor has been overtaken
    missed,        \* seqs overwritten in the broadcast buffer
    fpc,           \* filter task: "recv", "fire", "send" or "done"
    fmsg,          \* the request the filter is working on
    firing,        \* tokens the filter has yet to send() to
    ringing,       \* token whose flag is stored and whose callbacks are not called
    pending,       \* filter: keys of pending_requests
    cancellable,   \* filter: cancellable_requests
    token,         \* the cancellation token created for each seq
    requests,      \* the mpsc queue from the filter to the main loop
    mpc,           \* main loop: "recv", "checked", "running" or "done"
    handling,      \* the request handle_request is working on
    current,       \* owner of current_cancellation, None for dummy()
    tasks,         \* requests whose async response is still awaited
    out,           \* the out channel
    dropped,       \* requests whose response was not sent, or was left unwritten
    delivered      \* responses in the order the client receives them

clientVars == <<open, nextSeq, req>>
filterVars == <<raw, lagged, missed, fpc, fmsg, firing, ringing, pending, cancellable>>
mainVars == <<requests, mpc, handling, current, tasks>>
outVars == <<out, dropped, delivered>>
vars == <<clientVars, filterVars, token, mainVars, outVars>>

NoRequest == [kind |-> "none", target |-> None]

Init ==
    /\ open = TRUE /\ nextSeq = 1 /\ req = [s \in Seqnos |-> NoRequest]
    /\ raw = <<>> /\ lagged = FALSE /\ missed = {}
    /\ fpc = "recv" /\ fmsg = None /\ firing = {} /\ ringing = None
    /\ pending = {} /\ cancellable = {}
    /\ token = [s \in Seqnos |-> NewToken]
    /\ requests = <<>> /\ mpc = "recv" /\ handling = None /\ current = None
    /\ tasks = {}
    /\ out = <<>> /\ dropped = {} /\ delivered = <<>>

Kind(s) == req[s].kind

-----------------------------------------------------------------------------
(* The dispatcher.                                                          *)

\* A cancel names a request the client has sent before, or no request at all.
Targets(k) == IF k = "cancel" THEN 0 .. nextSeq - 1 ELSE {None}

(***************************************************************************)
(* channel.next() yields a request: it is broadcast.  A full broadcast      *)
(* buffer never blocks the sender: the oldest message is overwritten and    *)
(* the receiver will be told that it lagged.                                *)
(***************************************************************************)
DispatchRequest ==
    /\ open /\ nextSeq \in Seqnos
    /\ \E k \in Kinds \ {"malformed"} : \E t \in Targets(k) :
          req' = [req EXCEPT ![nextSeq] = [kind |-> k, target |-> t]]
    /\ nextSeq' = nextSeq + 1
    /\ \/ /\ Len(raw) < BroadcastCap
          /\ raw' = Append(raw, nextSeq)
          /\ UNCHANGED <<lagged, missed>>
       \/ /\ Len(raw) = BroadcastCap
          /\ raw' = Append(Tail(raw), nextSeq)
          /\ lagged' = TRUE
          /\ missed' = missed \cup {Head(raw)}
    /\ UNCHANGED <<open, fpc, fmsg, firing, ringing, pending, cancellable,
                   token, mainVars, outVars>>

\* A frame that cannot be deserialized: the dispatcher answers by itself.
DispatchMalformed ==
    /\ open /\ nextSeq \in Seqnos /\ "malformed" \in Kinds
    /\ req' = [req EXCEPT ![nextSeq] = [kind |-> "malformed", target |-> None]]
    /\ nextSeq' = nextSeq + 1
    /\ delivered' = Append(delivered, nextSeq)
    /\ UNCHANGED <<open, filterVars, token, mainVars, out, dropped>>

\* out_receiver.recv() yields a message: it is written to the client.
DispatchOut ==
    /\ open /\ out # <<>>
    /\ out' = Tail(out)
    /\ delivered' = IF Head(out) = None THEN delivered
                                        ELSE Append(delivered, Head(out))
    /\ UNCHANGED <<clientVars, filterVars, token, mainVars, dropped>>

(***************************************************************************)
(* The client disconnects, or a frame cannot be decoded: the loop ends and  *)
(* drops the broadcast sender and the out channel.  The responses that the  *)
(* channel still holds are discarded with it, and nothing logs them.        *)
(***************************************************************************)
Disconnect ==
    /\ open
    /\ open' = FALSE
    /\ out' = <<>>
    /\ dropped' = dropped \cup (Range(out) \ {None})
    /\ UNCHANGED <<nextSeq, req, filterVars, token, mainVars, delivered>>

-----------------------------------------------------------------------------
(* The cancellation filter.                                                 *)

\* Mutant of Retained: forgets the tokens whose only receiver is queued.
RetainedIfShared(S) == {s \in S : token[s].receivers > 1}

\* retain(|v| v.receiver_count() > 0)
Retained(S) == {s \in S : HasReceivers(token[s])}

FilterRecvCancel(s) ==
    /\ Kind(s) = "cancel"
    /\ pending' = Retained(pending) \ {req[s].target}
    /\ firing' = Retained(pending) \cap {req[s].target}
    /\ cancellable' = Retained(cancellable)

FilterRecvCancellable(s) ==
    /\ Kind(s) \in CancellableKinds
    /\ pending' = Retained(pending)
    /\ firing' = {}
    /\ cancellable' = Retained(cancellable) \cup {s}

\* Mutant of FilterRecvCanceling: cancels the first inspection only.
FilterRecvCancelingFirst(s) ==
    /\ Kind(s) \in CancelingKinds
    /\ pending' = Retained(pending)
    /\ firing' = {u \in Retained(cancellable) : \A v \in Retained(cancellable) : u <= v}
    /\ cancellable' = Retained(cancellable)

FilterRecvCanceling(s) ==
    /\ Kind(s) \in CancelingKinds
    /\ pending' = Retained(pending)
    /\ firing' = Retained(cancellable)
    /\ cancellable' = Retained(cancellable)

FilterRecvOther(s) ==
    /\ Kind(s) \notin {"cancel"} \cup CancellableKinds \cup CancelingKinds
    /\ pending' = Retained(pending)
    /\ firing' = {}
    /\ cancellable' = Retained(cancellable)

\* The filter takes a request, makes its token, and decides whom to cancel.
FilterRecv ==
    /\ fpc = "recv" /\ ~lagged /\ raw # <<>>
    /\ LET s == Head(raw) IN
          /\ raw' = Tail(raw)
          /\ fmsg' = s
          /\ token' = [token EXCEPT ![s] = Subscribe(NewToken)]
          /\ \/ FilterRecvCancel(s)
             \/ FilterRecvCancellable(s)
             \/ FilterRecvCanceling(s)
             \/ FilterRecvOther(s)
    /\ fpc' = "fire"
    /\ UNCHANGED <<clientVars, lagged, missed, ringing, mainVars, outVars>>

\* Mutant of FilterLagged: the filter gives up when it lags.
FilterLaggedStops ==
    /\ fpc = "recv" /\ lagged
    /\ fpc' = "done"
    /\ UNCHANGED <<clientVars, raw, lagged, missed, fmsg, firing, ringing, pending,
                   cancellable, token, mainVars, outVars>>

\* RecvError::Lagged: logged, nothing is answered for the missed requests.
FilterLagged ==
    /\ fpc = "recv" /\ lagged
    /\ lagged' = FALSE
    /\ UNCHANGED <<clientVars, raw, missed, fpc, fmsg, firing, ringing, pending,
                   cancellable, token, mainVars, outVars>>

\* Mutant of FilterClosed: the filter keeps polling a closed channel.
FilterClosedIgnored ==
    /\ fpc = "recv" /\ ~lagged /\ raw = <<>> /\ ~open
    /\ UNCHANGED vars

\* RecvError::Closed: the sender is gone and the buffer is drained.
FilterClosed ==
    /\ fpc = "recv" /\ ~lagged /\ raw = <<>> /\ ~open
    /\ fpc' = "done"
    /\ UNCHANGED <<clientVars, raw, lagged, missed, fmsg, firing, ringing, pending,
                   cancellable, token, mainVars, outVars>>

\* sender.send(), first half, in the order of the vector.
FilterSetFlag ==
    /\ fpc = "fire" /\ ringing = None /\ firing # {}
    /\ \E t \in firing :
          /\ \A u \in firing : t <= u
          /\ token' = [token EXCEPT ![t] = SetFlag(@)]
          /\ ringing' = t
          /\ firing' = firing \ {t}
    /\ UNCHANGED <<clientVars, raw, lagged, missed, fpc, fmsg, pending,
                   cancellable, mainVars, outVars>>

\* sender.send(), second half.
FilterCallbacks ==
    /\ fpc = "fire" /\ ringing # None
    /\ token' = [token EXCEPT ![ringing] = RunCallbacks(@)]
    /\ ringing' = None
    /\ UNCHANGED <<clientVars, raw, lagged, missed, fpc, fmsg, firing, pending,
                   cancellable, mainVars, outVars>>

\* A cancel request ends here (`continue`): its own token is dropped.
FilterDiscardCancel ==
    /\ fpc = "fire" /\ ringing = None /\ firing = {}
    /\ Kind(fmsg) = "cancel"
    /\ token' = [token EXCEPT ![fmsg] = DropReceiver(@)]
    /\ fpc' = "recv"
    /\ fmsg' = None
    /\ UNCHANGED <<clientVars, raw, lagged, missed, firing, ringing, pending,
                   cancellable, mainVars, outVars>>

\* Mutant of FilterInsertPending: the token is not recorded.
FilterSkipPending ==
    /\ fpc = "fire" /\ ringing = None /\ firing = {}
    /\ Kind(fmsg) # "cancel"
    /\ fpc' = "send"
    /\ UNCHANGED <<clientVars, raw, lagged, missed, fmsg, firing, ringing, pending,
                   cancellable, token, mainVars, outVars>>

\* Any other request is recorded in pending_requests before it is forwarded.
FilterInsertPending ==
    /\ fpc = "fire" /\ ringing = None /\ firing = {}
    /\ Kind(fmsg) # "cancel"
    /\ pending' = pending \cup {fmsg}
    /\ fpc' = "send"
    /\ UNCHANGED <<clientVars, raw, lagged, missed, fmsg, firing, ringing,
                   cancellable, token, mainVars, outVars>>

\* Mutant of FilterSend: try_send, which fails when the channel is full.
FilterTrySend ==
    /\ fpc = "send"
    /\ requests' = IF Len(requests) < QueueCap THEN Append(requests, fmsg) ELSE requests
    /\ fpc' = "recv"
    /\ fmsg' = None
    /\ UNCHANGED <<clientVars, raw, lagged, missed, firing, ringing, pending,
                   cancellable, token, mpc, handling, current, tasks, outVars>>

\* requests_sender.send(..).await waits for room in the channel.
FilterSend ==
    /\ fpc = "send" /\ Len(requests) < QueueCap
    /\ requests' = Append(requests, fmsg)
    /\ fpc' = "recv"
    /\ fmsg' = None
    /\ UNCHANGED <<clientVars, raw, lagged, missed, firing, ringing, pending,
                   cancellable, token, mpc, handling, current, tasks, outVars>>

-----------------------------------------------------------------------------
(* The main loop, handle_request and the async response tasks.              *)

\* send_response: try_send fails when the channel is full or closed.
Respond(s) ==
    /\ \/ /\ open /\ Len(out) < OutCap
          /\ out' = Append(out, s)
          /\ UNCHANGED dropped
       \/ /\ ~open \/ Len(out) = OutCap
          /\ dropped' = dropped \cup {s}
          /\ UNCHANGED out
    /\ UNCHANGED delivered

\* Mutant of HandleCanceled: answers, then goes on to execute the request.
HandleCanceledFallsThrough ==
    /\ mpc = "recv" /\ requests # <<>>
    /\ LET s == Head(requests) IN
          /\ IsCancelled(token[s])
          /\ requests' = Tail(requests)
          /\ handling' = s
          /\ Respond(s)
    /\ mpc' = "checked"
    /\ UNCHANGED <<clientVars, filterVars, token, current, tasks>>

\* A request that was cancelled while it was queued is answered "canceled".
HandleCanceled ==
    /\ mpc = "recv" /\ requests # <<>>
    /\ LET s == Head(requests) IN
          /\ IsCancelled(token[s])
          /\ requests' = Tail(requests)
          /\ token' = [token EXCEPT ![s] = DropReceiver(@)]
          /\ Respond(s)
    /\ UNCHANGED <<clientVars, filterVars, mpc, handling, current, tasks>>

\* is_cancelled() is false: the request will be executed.
HandleRequest ==
    /\ mpc = "recv" /\ requests # <<>>
    /\ LET s == Head(requests) IN
          /\ ~IsCancelled(token[s])
          /\ requests' = Tail(requests)
          /\ handling' = s
    /\ mpc' = "checked"
    /\ UNCHANGED <<clientVars, filterVars, token, current, tasks, outVars>>

\* The receiver held by current_cancellation is dropped when it is replaced.
ReplaceCurrent(tok) ==
    IF current = None THEN tok ELSE [tok EXCEPT ![current] = DropReceiver(@)]

\* add_callback, then current_cancellation = cancellation.
HandleRegister ==
    /\ mpc = "checked"
    /\ token' = ReplaceCurrent(
                    IF HasPython
                    THEN [token EXCEPT ![handling] = AddCallback(@)]
                    ELSE token)
    /\ current' = handling
    /\ mpc' = "running"
    /\ UNCHANGED <<clientVars, filterVars, requests, handling, tasks, outVars>>

\* "Not implemented.": returns without resetting current_cancellation.
HandleUnknown ==
    /\ mpc = "running" /\ Kind(handling) = "unknown"
    /\ Respond(handling)
    /\ mpc' = "recv"
    /\ handling' = None
    /\ UNCHANGED <<clientVars, filterVars, token, requests, current, tasks>>

\* The handler returns a result, which is sent at once.  A handler that can
\* answer asynchronously does so only when nothing failed before.
HandleSync ==
    /\ mpc = "running" /\ Kind(handling) # "unknown"
    /\ token' = ReplaceCurrent(token)
    /\ current' = None
    /\ Respond(handling)
    /\ mpc' = "recv"
    /\ handling' = None
    /\ UNCHANGED <<clientVars, filterVars, requests, tasks>>

\* Mutant of HandleAsync: every response is handed to a task.
HandleAllAsync ==
    /\ mpc = "running" /\ Kind(handling) # "unknown"
    /\ token' = ReplaceCurrent(token)
    /\ current' = None
    /\ tasks' = tasks \cup {handling}
    /\ mpc' = "recv"
    /\ handling' = None
    /\ UNCHANGED <<clientVars, filterVars, requests, outVars>>

\* The handler returns an AsyncResponse: a task is spawned to await it.
HandleAsync ==
    /\ mpc = "running" /\ Kind(handling) \in AsyncKinds
    /\ token' = ReplaceCurrent(token)
    /\ current' = None
    /\ tasks' = tasks \cup {handling}
    /\ mpc' = "recv"
    /\ handling' = None
    /\ UNCHANGED <<clientVars, filterVars, requests, outVars>>

\* The future resolves and the task sends the response.  The task shares the
\* main loop's thread, which handle_request never yields.
TaskRespond(s) ==
    /\ s \in tasks /\ mpc \in {"recv", "done"}
    /\ tasks' = tasks \ {s}
    /\ Respond(s)
    /\ UNCHANGED <<clientVars, filterVars, token, requests, mpc, handling, current>>

\* requests_receiver.recv() yields None: the main loop ends.
MainClosed ==
    /\ mpc = "recv" /\ requests = <<>> /\ fpc = "done"
    /\ mpc' = "done"
    /\ UNCHANGED <<clientVars, filterVars, token, requests, handling, current, tasks, outVars>>

\* Console output and session events use the same out channel.
EmitEvent ==
    /\ open /\ Len(out) < OutCap
    /\ Cardinality({i \in DOMAIN out : out[i] = None}) < MaxEvents
    /\ out' = Append(out, None)
    /\ UNCHANGED <<clientVars, filterVars, token, mainVars, dropped, delivered>>

\* Everything has ended: the only state in which the adapter may rest.
Finished ==
    /\ ~open /\ fpc = "done" /\ mpc = "done" /\ tasks = {}
    /\ UNCHANGED vars

-----------------------------------------------------------------------------
Dispatcher == DispatchRequest \/ DispatchMalformed \/ DispatchOut \/ Disconnect

Filter ==
    \/ FilterRecv \/ FilterLagged \/ FilterClosed \/ FilterSetFlag
    \/ FilterCallbacks \/ FilterDiscardCancel \/ FilterInsertPending \/ FilterSend

Main ==
    \/ HandleCanceled \/ HandleRequest \/ HandleRegister \/ HandleUnknown
    \/ HandleSync \/ HandleAsync \/ MainClosed

Next ==
    \/ Dispatcher \/ Filter \/ Main \/ EmitEvent \/ Finished
    \/ \E s \in Seqnos : TaskRespond(s)

Spec == Init /\ [][Next]_vars

(***************************************************************************)
(* tokio polls every ready task again and again, and the dispatcher's       *)
(* select! is unbiased, so each task's enabled step is eventually taken.    *)
(* Nothing forces the client to send or to leave.  The future of an         *)
(* evaluate is ready when its task is spawned; the one of a launch waits    *)
(* for the client's configurationDone, which may never come, so nothing is  *)
(* assumed of it.                                                           *)
(***************************************************************************)
FairSpec ==
    /\ Spec
    /\ WF_vars(DispatchOut)
    /\ WF_vars(Filter)
    /\ WF_vars(Main)
    /\ WF_vars(\E s \in Seqnos : Kind(s) = "evaluate" /\ TaskRespond(s))

-----------------------------------------------------------------------------
(* Properties.                                                              *)

Shape ==
    /\ open \in BOOLEAN
    /\ nextSeq \in 1 .. MaxSeq + 1
    /\ req \in [Seqnos -> [kind : AllKinds \cup {"none"}, target : 0 .. MaxSeq]]
    /\ raw \in Seq(Seqnos) /\ lagged \in BOOLEAN /\ missed \subseteq Seqnos
    /\ fpc \in {"recv", "fire", "send", "done"}
    /\ fmsg \in Seqnos \cup {None} /\ firing \subseteq Seqnos
    /\ ringing \in Seqnos \cup {None}
    /\ pending \subseteq Seqnos /\ cancellable \subseteq Seqnos
    /\ token \in [Seqnos -> Token]
    /\ requests \in Seq(Seqnos)
    /\ mpc \in {"recv", "checked", "running", "done"}
    /\ handling \in Seqnos \cup {None} /\ current \in Seqnos \cup {None}
    /\ tasks \subseteq Seqnos
    /\ out \in Seq(Seqnos \cup {None})
    /\ dropped \subseteq Seqnos /\ delivered \in Seq(Seqnos)

\* The state has its types, and receiver_count, which would wrap below zero, counts
\* the one receiver a token ever has: it is dropped once, by whichever of the filter,
\* handle_request and the next owner of current_cancellation is done with it.
TypeOK == Shape /\ \A s \in Seqnos : token[s].receivers \in 0 .. 1

\* The client never receives two responses to one request, whichever of the
\* dispatcher, handle_request and the response tasks produced them.
AtMostOneResponse ==
    \A i, j \in DOMAIN delivered : delivered[i] = delivered[j] => i = j

\* The places a request that has been sent can be in.
InFlight ==
    (Range(raw) \cup Range(requests) \cup Range(out) \cup tasks
        \cup {fmsg, handling}) \ {None}
Settled == Range(delivered) \cup dropped \cup missed

\* No request disappears: it is somewhere in the pipeline, or answered, or lost in
\* one of three ways: overwritten in the broadcast (Lagged, logged), refused by
\* try_send (logged), or left in the out channel when the client goes away (not
\* logged).  Only cancel requests are consumed without an answer.
NoRequestVanishes ==
    \A s \in 1 .. nextSeq - 1 : Kind(s) # "cancel" => s \in InFlight \cup Settled

\* Requests whose receiver is on its way to, or inside, handle_request.
Awaiting == (Range(requests) \cup {handling}) \ {None}

\* Once a resuming request has been forwarded to the main loop, every
\* inspection request sent before it that is still queued or being executed
\* has been cancelled: it cannot quietly go on to read a resumed debuggee.
ResumeCancelsInspections ==
    \A s, t \in Awaiting :
        s < t /\ Kind(s) \in CancellableKinds /\ Kind(t) \in CancelingKinds
            => token[s].flag

\* Once the filter is done with a cancel request, its target is either
\* cancelled or already out of handle_request: pruning pending_requests by
\* receiver_count never forgets a request that can still be cancelled.
CancelReachesTarget ==
    \A c \in 1 .. nextSeq - 1 :
        /\ Kind(c) = "cancel"
        /\ c \notin Range(raw) \cup missed \cup {fmsg}
        /\ req[c].target \in Awaiting
        => token[req[c].target].flag

\* Requests answered by the main loop itself are answered in the order in
\* which they were sent, whatever is cancelled, lost or answered by tasks.
SyncResponsesInOrder ==
    \A i, j \in DOMAIN delivered :
        /\ i < j
        /\ Kind(delivered[i]) \notin AsyncKinds \cup {"malformed"}
        /\ Kind(delivered[j]) \notin AsyncKinds \cup {"malformed"}
        => delivered[i] < delivered[j]

\* handle_request never starts executing an inspection request while a
\* resuming request sent after it is already waiting in its queue.
NoStaleInspectionStarts ==
    [][ \A s \in Seqnos :
          /\ mpc = "recv" /\ mpc' = "checked" /\ handling' = s
          /\ Kind(s) \in CancellableKinds
          => \A t \in Range(requests') : Kind(t) \notin CancelingKinds ]_vars

\* The one thing that may be waited for for ever: a launch whose client does not
\* send configurationDone.
WaitsForClient(s) == s \in tasks /\ Kind(s) = "launch"

\* Again and again there comes a time at which every request sent so far but cancel
\* has been answered or lost in one of the three ways, unless it is a launch that
\* waits for its client.  Requests stay settled, so each of them is, eventually.
EveryRequestSettles ==
    []<>(\A s \in 1 .. nextSeq - 1 :
            Kind(s) # "cancel" => s \in Settled \/ WaitsForClient(s))

\* When the client goes away the filter and the main loop end, and so do all tasks
\* but those of a launch that still waits for the client's configurationDone.
ShutdownCompletes ==
    ~open ~> (fpc = "done" /\ mpc = "done" /\ \A s \in tasks : WaitsForClient(s))

\* Requests that will get no answer: overwritten, not sent, or consumed cancels.
Consumed ==
    {s \in 1 .. nextSeq - 1 :
        /\ Kind(s) = "cancel"
        /\ s \notin Range(raw) \cup missed \cup {fmsg}}

Service == INSTANCE RequestService WITH
    submitted <- nextSeq - 1,
    answered <- Range(delivered),
    discarded <- missed \cup dropped \cup Consumed

\* The pipeline implements the request service: every request is settled at
\* most once, and what is discarded is never answered later.
ImplementsService == Service!ServiceSpec
=============================================================================
