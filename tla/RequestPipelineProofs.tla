----------------------- MODULE RequestPipelineProofs -----------------------
(***************************************************************************)
(* Proofs that the request pipeline answers a request at most once, loses   *)
(* none silently, implements RequestService, keeps the order of requests    *)
(* and that cancellation reaches whom it should, for any number of requests *)
(* and any channel capacities.                                              *)
(***************************************************************************)
EXTENDS RequestPipeline, SequenceFacts

\* The filter and the main loop have a request in hand whenever they work.
WorkInHand ==
    /\ fpc \in {"fire", "send"} => fmsg # None
    /\ mpc \in {"checked", "running"} => handling # None

TypeInv == Shape /\ WorkInHand

\* They have put down the last request when they take the next.
IdleHands ==
    /\ fpc \in {"recv", "done"} => fmsg = None
    /\ mpc \in {"recv", "done"} => handling = None

(***************************************************************************)
(* A request is at one place at a time, on its way from the broadcast to    *)
(* the client, and no queue holds it twice.  Each place is separate from    *)
(* all that come after it.                                                  *)
(***************************************************************************)
AfterTasks == Range(out) \cup Range(delivered)
AfterHandling == tasks \cup AfterTasks
AfterRequests == {handling} \cup AfterHandling
AfterFilter == Range(requests) \cup AfterRequests
AfterRaw == {fmsg} \cup AfterFilter

OnePlace ==
    /\ Range(raw) \cap AfterRaw \subseteq {None}
    /\ {fmsg} \cap AfterFilter \subseteq {None}
    /\ Range(requests) \cap AfterRequests \subseteq {None}
    /\ {handling} \cap AfterHandling \subseteq {None}
    /\ tasks \cap AfterTasks \subseteq {None}
    /\ Range(out) \cap Range(delivered) \subseteq {None}

OnlyOnce == Distinct(raw) /\ Distinct(requests) /\ Distinct(out) /\ Distinct(delivered)

\* Whatever is in the pipeline has been sent.
AllSent == Range(raw) \cup AfterRaw \subseteq 0 .. nextSeq - 1

PlaceInv == TypeInv /\ IdleHands /\ OnePlace /\ OnlyOnce /\ AllSent

-----------------------------------------------------------------------------
(* Facts about the operators.                                               *)

\* The remainder by a positive number is smaller than it.
LEMMA ModBound ==
    ASSUME NEW n \in Nat, NEW m \in Nat \ {0}
    PROVE  n % m \in 0 .. m - 1
  OBVIOUS

\* 2^16 is a positive number; nothing else about it matters.
LEMMA U16Positive == U16 \in Nat \ {0}
  BY DEF U16

\* Every operation on a token yields a token: receiver_count stays a u16.
LEMMA TokenOperations ==
    ASSUME NEW t \in Token
    PROVE  /\ Subscribe(t) \in Token /\ DropReceiver(t) \in Token
           /\ SetFlag(t) \in Token /\ RunCallbacks(t) \in Token /\ AddCallback(t) \in Token
  <1>1. /\ t.flag \in BOOLEAN /\ t.receivers \in 0 .. U16 - 1 /\ t.callbacks \in Nat
        /\ t.called \in Nat /\ t.sent \in BOOLEAN
    BY DEF Token
  <1>2. Subscribe(t) \in Token
    <2>1. t.receivers + 1 \in Nat
      BY <1>1, U16Positive
    <2>2. (t.receivers + 1) % U16 \in 0 .. U16 - 1
      BY <2>1, U16Positive, ModBound
    <2>3. QED
      BY <2>2 DEF Token, Subscribe
  <1>3. DropReceiver(t) \in Token
    <2>1. t.receivers + (U16 - 1) \in Nat
      BY <1>1, U16Positive
    <2>2. (t.receivers + (U16 - 1)) % U16 \in 0 .. U16 - 1
      BY <2>1, U16Positive, ModBound
    <2>3. QED
      BY <2>2 DEF Token, DropReceiver
  <1>4. SetFlag(t) \in Token
    BY DEF Token, SetFlag
  <1>5. RunCallbacks(t) \in Token
    <2>1. t.called + t.callbacks \in Nat
      BY <1>1
    <2>2. QED
      BY <2>1 DEF Token, RunCallbacks
  <1>6. AddCallback(t) \in Token
    <2>1. t.callbacks + 1 \in Nat
      BY <1>1
    <2>2. QED
      BY <2>1 DEF Token, AddCallback
  <1>7. QED
    BY <1>2, <1>3, <1>4, <1>5, <1>6

\* A new token is a token without receivers.
LEMMA NewTokenIsToken == NewToken \in Token
  BY U16Positive DEF NewToken, Token

\* The head and the tail of a non-empty sequence.
LEMMA HeadTail ==
    ASSUME NEW S, NEW q \in Seq(S), q # <<>>
    PROVE  Head(q) \in S /\ Tail(q) \in Seq(S)
  OBVIOUS

\* Dropping what current_cancellation holds keeps the map of tokens.
LEMMA ReplaceCurrentType ==
    ASSUME NEW tok \in [Seqnos -> Token]
    PROVE  ReplaceCurrent(tok) \in [Seqnos -> Token]
  <1>1. CASE current = None
    BY <1>1 DEF ReplaceCurrent
  <1>2. CASE current # None
    <2>1. current \in Seqnos => DropReceiver(tok[current]) \in Token
      BY TokenOperations
    <2>2. QED
      BY <1>2, <2>1 DEF ReplaceCurrent
  <1>3. QED
    BY <1>1, <1>2

\* send_response keeps the types of what it touches.
LEMMA RespondType ==
    ASSUME Shape, NEW s \in Seqnos, Respond(s)
    PROVE  /\ out' \in Seq(Seqnos \cup {None})
           /\ dropped' \subseteq Seqnos /\ delivered' \in Seq(Seqnos)
  <1>1. CASE out' = Append(out, s) /\ dropped' = dropped
    BY <1>1 DEF Shape, Respond
  <1>2. CASE out' = out /\ dropped' = dropped \cup {s}
    BY <1>2 DEF Shape, Respond
  <1>3. QED
    BY <1>1, <1>2 DEF Respond

-----------------------------------------------------------------------------
(* Type correctness.                                                        *)

\* The initial state has the types.
LEMMA InitType == Init => TypeInv
  <1> SUFFICES ASSUME Init PROVE TypeInv
    OBVIOUS
  <1>1. nextSeq \in 1 .. MaxSeq + 1
    BY PipelineAssumption DEF Init
  <1>2. req \in [Seqnos -> [kind : AllKinds \cup {"none"}, target : 0 .. MaxSeq]]
    BY PipelineAssumption DEF Init, NoRequest, None
  <1>3. token \in [Seqnos -> Token]
    BY NewTokenIsToken DEF Init
  <1>4. /\ raw \in Seq(Seqnos) /\ requests \in Seq(Seqnos)
        /\ out \in Seq(Seqnos \cup {None}) /\ delivered \in Seq(Seqnos)
    BY DEF Init
  <1>5. QED
    BY <1>1, <1>2, <1>3, <1>4 DEF Init, TypeInv, Shape, WorkInHand

\* The dispatcher preserves the types.
LEMMA DispatcherType == TypeInv /\ Dispatcher => TypeInv'
  <1> SUFFICES ASSUME TypeInv, Dispatcher PROVE TypeInv'
    OBVIOUS
  <1> USE DEF TypeInv, Shape, WorkInHand, filterVars, mainVars, clientVars, outVars
  <1>1. CASE DispatchRequest
    <2>1. nextSeq' \in 1 .. MaxSeq + 1
      BY <1>1, PipelineAssumption DEF DispatchRequest, Seqnos
    <2>2. req' \in [Seqnos -> [kind : AllKinds \cup {"none"}, target : 0 .. MaxSeq]]
      <3>1. PICK k \in Kinds \ {"malformed"} : \E t \in Targets(k) :
                req' = [req EXCEPT ![nextSeq] = [kind |-> k, target |-> t]]
        BY <1>1 DEF DispatchRequest
      <3>2. PICK t \in Targets(k) : req' = [req EXCEPT ![nextSeq] = [kind |-> k, target |-> t]]
        BY <3>1
      <3>3. t \in 0 .. MaxSeq
        <4>1. nextSeq \in 1 .. MaxSeq /\ MaxSeq \in Nat
          BY <1>1, PipelineAssumption DEF DispatchRequest, Seqnos
        <4>2. t \in 0 .. nextSeq - 1 \/ t = 0
          BY <3>2 DEF Targets, None
        <4> HIDE DEF TypeInv, Shape, WorkInHand, filterVars, mainVars, clientVars, outVars
        <4>3. QED
          BY <4>1, <4>2
      <3>4. k \in AllKinds
        BY PipelineAssumption
      <3>5. QED
        BY <3>2, <3>3, <3>4
    <2>3. raw' \in Seq(Seqnos) /\ lagged' \in BOOLEAN /\ missed' \subseteq Seqnos
      <3>1. CASE Len(raw) < BroadcastCap /\ raw' = Append(raw, nextSeq) /\ UNCHANGED <<lagged, missed>>
        BY <1>1, <3>1 DEF DispatchRequest
      <3>2. CASE /\ Len(raw) = BroadcastCap /\ raw' = Append(Tail(raw), nextSeq)
                 /\ lagged' = TRUE /\ missed' = missed \cup {Head(raw)}
        <4>1. raw # <<>>
          BY <3>2, PipelineAssumption
        <4>2. Head(raw) \in Seqnos /\ Tail(raw) \in Seq(Seqnos)
          BY <4>1, HeadTail
        <4>3. raw' \in Seq(Seqnos)
          BY <1>1, <3>2, <4>2 DEF DispatchRequest
        <4>4. missed' \subseteq Seqnos
          BY <3>2, <4>2
        <4>5. QED
          BY <3>2, <4>3, <4>4
      <3>3. QED
        BY <1>1, <3>1, <3>2 DEF DispatchRequest
    <2>4. QED
      BY <1>1, <2>1, <2>2, <2>3 DEF DispatchRequest
  <1>2. CASE DispatchMalformed
    <2>1. nextSeq' \in 1 .. MaxSeq + 1
      BY <1>2, PipelineAssumption DEF DispatchMalformed, Seqnos
    <2>2. req' \in [Seqnos -> [kind : AllKinds \cup {"none"}, target : 0 .. MaxSeq]]
      BY <1>2, PipelineAssumption DEF DispatchMalformed, AllKinds, None
    <2>3. delivered' \in Seq(Seqnos)
      BY <1>2 DEF DispatchMalformed
    <2>4. QED
      BY <1>2, <2>1, <2>2, <2>3 DEF DispatchMalformed
  <1>3. CASE DispatchOut
    <2>1. Head(out) \in Seqnos \cup {None} /\ out' \in Seq(Seqnos \cup {None})
      BY <1>3, HeadTail DEF DispatchOut
    <2>2. delivered' \in Seq(Seqnos)
      BY <1>3, <2>1 DEF DispatchOut
    <2>3. QED
      BY <1>3, <2>1, <2>2 DEF DispatchOut
  <1>4. CASE Disconnect
    <2>1. Range(out) \ {None} \subseteq Seqnos
      BY DEF Range
    <2>2. out' \in Seq(Seqnos \cup {None}) /\ dropped' \subseteq Seqnos
      BY <1>4, <2>1 DEF Disconnect
    <2>3. QED
      BY <1>4, <2>2 DEF Disconnect
  <1>5. QED
    BY <1>1, <1>2, <1>3, <1>4 DEF Dispatcher

\* The filter preserves the types.
LEMMA FilterType == TypeInv /\ Filter => TypeInv'
  <1> SUFFICES ASSUME TypeInv, Filter PROVE TypeInv'
    OBVIOUS
  <1> USE DEF TypeInv, Shape, WorkInHand, filterVars, mainVars, clientVars, outVars
  <1>1. CASE FilterRecv
    <2>1. Head(raw) \in Seqnos /\ raw' \in Seq(Seqnos) /\ fmsg' = Head(raw)
      BY <1>1, HeadTail DEF FilterRecv
    <2>2. token' \in [Seqnos -> Token]
      BY <1>1, <2>1, NewTokenIsToken, TokenOperations DEF FilterRecv
    <2>3. pending' \subseteq Seqnos /\ firing' \subseteq Seqnos /\ cancellable' \subseteq Seqnos
      BY <1>1, <2>1 DEF FilterRecv, FilterRecvCancel, FilterRecvCancellable,
         FilterRecvCanceling, FilterRecvOther, Retained
    <2>4. fmsg' # None
      BY <2>1 DEF Seqnos, None
    <2>5. QED
      BY <1>1, <2>1, <2>2, <2>3, <2>4 DEF FilterRecv
  <1>2. CASE FilterLagged \/ FilterClosed
    BY <1>2 DEF FilterLagged, FilterClosed
  <1>3. CASE FilterSetFlag
    <2>1. PICK t \in firing : /\ token' = [token EXCEPT ![t] = SetFlag(@)]
                             /\ ringing' = t /\ firing' = firing \ {t}
      BY <1>3 DEF FilterSetFlag
    <2>2. token' \in [Seqnos -> Token]
      BY <2>1, TokenOperations
    <2>3. QED
      BY <1>3, <2>1, <2>2 DEF FilterSetFlag
  <1>4. CASE FilterCallbacks
    <2>1. token' \in [Seqnos -> Token]
      BY <1>4, TokenOperations DEF FilterCallbacks
    <2>2. QED
      BY <1>4, <2>1 DEF FilterCallbacks
  <1>5. CASE FilterDiscardCancel
    <2>1. token' \in [Seqnos -> Token]
      BY <1>5, TokenOperations DEF FilterDiscardCancel
    <2>2. QED
      BY <1>5, <2>1 DEF FilterDiscardCancel
  <1>6. CASE FilterInsertPending
    BY <1>6 DEF FilterInsertPending
  <1>7. CASE FilterSend
    <2>1. requests' \in Seq(Seqnos)
      BY <1>7 DEF FilterSend
    <2>2. QED
      BY <1>7, <2>1 DEF FilterSend
  <1>8. QED
    BY <1>1, <1>2, <1>3, <1>4, <1>5, <1>6, <1>7 DEF Filter

\* The main loop preserves the types.
LEMMA MainType == TypeInv /\ Main => TypeInv'
  <1> SUFFICES ASSUME TypeInv, Main PROVE TypeInv'
    OBVIOUS
  <1> USE DEF TypeInv, Shape, WorkInHand, filterVars, mainVars, clientVars, outVars
  <1>1. CASE HandleCanceled
    <2>1. Head(requests) \in Seqnos /\ requests' \in Seq(Seqnos)
      BY <1>1, HeadTail DEF HandleCanceled
    <2>2. token' \in [Seqnos -> Token]
      BY <1>1, <2>1, TokenOperations DEF HandleCanceled
    <2>3. /\ out' \in Seq(Seqnos \cup {None})
          /\ dropped' \subseteq Seqnos /\ delivered' \in Seq(Seqnos)
      BY <1>1, <2>1, RespondType DEF HandleCanceled
    <2>4. QED
      BY <1>1, <2>1, <2>2, <2>3 DEF HandleCanceled
  <1>2. CASE HandleRequest
    <2>1. handling' \in Seqnos /\ requests' \in Seq(Seqnos)
      BY <1>2, HeadTail DEF HandleRequest
    <2>2. handling' # None
      BY <2>1 DEF Seqnos, None
    <2>3. QED
      BY <1>2, <2>1, <2>2 DEF HandleRequest
  <1>3. CASE HandleRegister
    <2> DEFINE tok == IF HasPython THEN [token EXCEPT ![handling] = AddCallback(@)] ELSE token
    <2>1. tok \in [Seqnos -> Token]
      BY TokenOperations
    <2>2. token' \in [Seqnos -> Token]
      BY <1>3, <2>1, ReplaceCurrentType DEF HandleRegister
    <2>3. QED
      BY <1>3, <2>2 DEF HandleRegister
  <1>4. CASE HandleUnknown \/ HandleSync
    <2>1. handling \in Seqnos /\ Respond(handling)
      BY <1>4 DEF HandleUnknown, HandleSync
    <2>2. /\ out' \in Seq(Seqnos \cup {None})
          /\ dropped' \subseteq Seqnos /\ delivered' \in Seq(Seqnos)
      BY <2>1, RespondType
    <2>3. token' \in [Seqnos -> Token]
      BY <1>4, ReplaceCurrentType DEF HandleUnknown, HandleSync
    <2>4. QED
      BY <1>4, <2>2, <2>3 DEF HandleUnknown, HandleSync
  <1>5. CASE HandleAsync
    <2>1. token' \in [Seqnos -> Token] /\ handling \in Seqnos
      BY <1>5, ReplaceCurrentType DEF HandleAsync
    <2>2. QED
      BY <1>5, <2>1 DEF HandleAsync
  <1>6. CASE MainClosed
    BY <1>6 DEF MainClosed
  <1>7. QED
    BY <1>1, <1>2, <1>3, <1>4, <1>5, <1>6 DEF Main

\* Every step preserves the types.
LEMMA TypeStep == TypeInv /\ [Next]_vars => TypeInv'
  <1> SUFFICES ASSUME TypeInv, [Next]_vars PROVE TypeInv'
    OBVIOUS
  <1>1. CASE EmitEvent
    <2>1. out' \in Seq(Seqnos \cup {None})
      BY <1>1 DEF EmitEvent, TypeInv, Shape
    <2>2. QED
      BY <1>1, <2>1 DEF EmitEvent, TypeInv, Shape, WorkInHand, filterVars, mainVars, clientVars
  <1>2. ASSUME NEW s \in Seqnos, TaskRespond(s) PROVE TypeInv'
    <2>1. /\ out' \in Seq(Seqnos \cup {None})
          /\ dropped' \subseteq Seqnos /\ delivered' \in Seq(Seqnos)
      BY <1>2, RespondType DEF TaskRespond, TypeInv
    <2>2. QED
      BY <1>2, <2>1 DEF TaskRespond, TypeInv, Shape, WorkInHand, filterVars, clientVars
  <1>3. CASE UNCHANGED vars
    BY <1>3 DEF TypeInv, Shape, WorkInHand, vars, filterVars, mainVars, clientVars, outVars
  <1>4. QED
    BY <1>1, <1>2, <1>3, DispatcherType, FilterType, MainType DEF Next, Finished

-----------------------------------------------------------------------------
(* One place at a time.                                                     *)

\* None is not the seq of a request.
LEMMA NoneIsNoSeq == None \notin Seqnos /\ None = 0
  BY PipelineAssumption DEF None, Seqnos

\* Taking the head of a queue: it leaves the queue for good.
LEMMA Dequeue ==
    ASSUME NEW S, NEW q \in Seq(S), q # <<>>, Distinct(q)
    PROVE  /\ Head(q) \in S /\ Head(q) \in Range(q) /\ Distinct(Tail(q))
           /\ Range(q) = Range(Tail(q)) \cup {Head(q)}
           /\ Range(Tail(q)) \subseteq Range(q)
           /\ Head(q) # 0 => Head(q) \notin Range(Tail(q))
  BY RangeHeadTail, DistinctTail

\* Appending to a queue what is not in it.
LEMMA Enqueue ==
    ASSUME NEW S, NEW q \in Seq(S), NEW e \in S, Distinct(q), e \notin Range(q) \ {0}
    PROVE  Distinct(Append(q, e)) /\ Range(Append(q, e)) = Range(q) \cup {e}
  BY RangeAppend, DistinctAppend

\* Initially nothing is anywhere.
LEMMA InitPlace == Init => PlaceInv
  <1> SUFFICES ASSUME Init PROVE PlaceInv
    OBVIOUS
  <1>1. Range(<<>>) = {} /\ Distinct(<<>>)
    BY DEF Range, Distinct
  <1>2. QED
    BY <1>1, InitType DEF Init, PlaceInv, IdleHands, OnePlace, OnlyOnce, AllSent, AfterRaw,
       AfterFilter, AfterRequests, AfterHandling, AfterTasks, None

\* send_response puts the response in the out channel, or nowhere.
LEMMA RespondPlace ==
    ASSUME Shape, OnlyOnce, NEW s \in Seqnos, s \notin AfterTasks, Respond(s)
    PROVE  /\ Range(out') \subseteq Range(out) \cup {s}
           /\ Distinct(out') /\ delivered' = delivered
  <1>1. out \in Seq(Seqnos \cup {None}) /\ s \in Seqnos \cup {None} /\ Distinct(out)
    BY DEF Shape, OnlyOnce
  <1>2. CASE out' = Append(out, s)
    BY <1>1, <1>2, Enqueue DEF AfterTasks, Respond
  <1>3. CASE out' = out
    BY <1>1, <1>3 DEF Respond
  <1>4. QED
    BY <1>2, <1>3 DEF Respond

\* The dispatcher keeps every request at one place.
LEMMA DispatcherPlace == PlaceInv /\ Dispatcher => PlaceInv'
  <1> SUFFICES ASSUME PlaceInv, Dispatcher PROVE PlaceInv'
    OBVIOUS
  <1>t. TypeInv'
    BY DispatcherType DEF PlaceInv
  <1>k. /\ Shape /\ IdleHands /\ OnePlace /\ OnlyOnce /\ AllSent /\ nextSeq \in Nat
        /\ raw \in Seq(Seqnos) /\ out \in Seq(Seqnos \cup {None}) /\ delivered \in Seq(Seqnos)
        /\ Distinct(raw) /\ Distinct(out) /\ Distinct(delivered)
    BY PipelineAssumption DEF PlaceInv, TypeInv, Shape, OnlyOnce
  <1>1. CASE DispatchRequest
    <2>1. nextSeq \in Seqnos /\ nextSeq' = nextSeq + 1 /\ nextSeq # None
      BY <1>1 DEF DispatchRequest, Seqnos, None
    <2>2. nextSeq \notin Range(raw) \cup AfterRaw
      BY <1>k DEF AllSent
    <2>3. Range(raw') \subseteq Range(raw) \cup {nextSeq} /\ Distinct(raw')
      <3>1. CASE raw' = Append(raw, nextSeq)
        BY <1>k, <2>1, <2>2, <3>1, Enqueue
      <3>2. CASE Len(raw) = BroadcastCap /\ raw' = Append(Tail(raw), nextSeq)
        <4>1. raw # <<>> /\ Tail(raw) \in Seq(Seqnos)
          BY <1>k, <3>2, PipelineAssumption
        <4>2. Distinct(Tail(raw)) /\ Range(Tail(raw)) \subseteq Range(raw)
          BY <1>k, <4>1, Dequeue
        <4>3. ASSUME NEW q \in Seq(Seqnos), Distinct(q), nextSeq \notin Range(q)
              PROVE  /\ Distinct(Append(q, nextSeq))
                     /\ Range(Append(q, nextSeq)) = Range(q) \cup {nextSeq}
          BY <2>1, <4>3, Enqueue
        <4>4. QED
          BY <2>2, <3>2, <4>1, <4>2, <4>3
      <3>3. QED
        BY <1>1, <3>1, <3>2 DEF DispatchRequest
    <2>4. UNCHANGED <<fmsg, handling, requests, tasks, out, delivered, fpc, mpc>>
      BY <1>1 DEF DispatchRequest, mainVars, outVars
    <2>5. AfterRaw' = AfterRaw /\ AfterFilter' = AfterFilter /\ AfterRequests' = AfterRequests
          /\ AfterHandling' = AfterHandling /\ AfterTasks' = AfterTasks
      BY <2>4 DEF AfterRaw, AfterFilter, AfterRequests, AfterHandling, AfterTasks
    <2>6. OnePlace'
      BY <1>k, <2>2, <2>3, <2>4, <2>5 DEF OnePlace
    <2>7. AllSent'
      BY <1>k, <2>1, <2>3, <2>5 DEF AllSent
    <2>8. QED
      BY <1>t, <1>k, <2>3, <2>4, <2>6, <2>7 DEF PlaceInv, IdleHands, OnlyOnce
  <1>2. CASE DispatchMalformed
    <2>1. nextSeq \in Seqnos /\ nextSeq' = nextSeq + 1 /\ nextSeq # None
      BY <1>2 DEF DispatchMalformed, Seqnos, None
    <2>2. nextSeq \notin Range(raw) \cup AfterRaw
      BY <1>k DEF AllSent
    <2>3. UNCHANGED <<raw, fmsg, handling, requests, tasks, out, fpc, mpc>>
      BY <1>2 DEF DispatchMalformed, mainVars, filterVars
    <2>4. nextSeq \notin Range(delivered)
      BY <2>2 DEF AfterRaw, AfterFilter, AfterRequests, AfterHandling, AfterTasks
    <2>5. Range(delivered') = Range(delivered) \cup {nextSeq} /\ Distinct(delivered')
      BY <1>k, <1>2, <2>1, <2>4, Enqueue DEF DispatchMalformed
    <2>6. OnePlace'
      BY <1>k, <2>2, <2>3, <2>5 DEF OnePlace, AfterRaw, AfterFilter, AfterRequests,
         AfterHandling, AfterTasks
    <2>7. AllSent'
      BY <1>k, <2>1, <2>3, <2>5 DEF AllSent, AfterRaw, AfterFilter, AfterRequests,
         AfterHandling, AfterTasks
    <2>8. QED
      BY <1>t, <1>k, <2>3, <2>5, <2>6, <2>7 DEF PlaceInv, IdleHands, OnlyOnce
  <1>3. CASE DispatchOut
    <2>1. PICK s \in Seqnos \cup {None} :
             /\ s = Head(out) /\ s \in Range(out) /\ Distinct(out')
             /\ Range(out') \subseteq Range(out) /\ (s # None => s \notin Range(out'))
      BY <1>k, <1>3, Dequeue DEF DispatchOut, None
    <2>2. UNCHANGED <<nextSeq, raw, fmsg, handling, requests, tasks, fpc, mpc>>
      BY <1>3 DEF DispatchOut, clientVars, mainVars, filterVars
    <2>3. /\ Distinct(delivered') /\ Range(delivered') \subseteq Range(delivered) \cup {s}
          /\ s = None => delivered' = delivered
      <3>1. CASE s = None
        BY <1>k, <1>3, <2>1, <3>1 DEF DispatchOut
      <3>2. CASE s # None
        <4>1. s \in Seqnos /\ delivered' = Append(delivered, s) /\ s \notin Range(delivered)
          BY <1>k, <1>3, <2>1, <3>2 DEF DispatchOut, OnePlace
        <4>2. QED
          BY <1>k, <3>2, <4>1, Enqueue
      <3>3. QED
        BY <3>1, <3>2
    <2>4. /\ Range(out') \subseteq Range(out) /\ (s # None => s \notin Range(out'))
          /\ s \in Range(out) /\ Range(delivered') \subseteq Range(delivered) \cup {s}
      BY <2>1, <2>3
    <2>5. OnePlace'
      BY <1>k, <2>2, <2>4 DEF OnePlace, AfterRaw, AfterFilter, AfterRequests,
         AfterHandling, AfterTasks
    <2>6. AllSent'
      BY <1>k, <2>2, <2>4 DEF AllSent, AfterRaw, AfterFilter, AfterRequests,
         AfterHandling, AfterTasks
    <2>7. QED
      BY <1>t, <1>k, <2>1, <2>2, <2>3, <2>5, <2>6 DEF PlaceInv, IdleHands, OnlyOnce
  <1>4. CASE Disconnect
    <2>1. Range(out') = {} /\ Distinct(out')
      BY <1>4 DEF Disconnect, Range, Distinct
    <2>2. UNCHANGED <<nextSeq, raw, fmsg, handling, requests, tasks, delivered, fpc, mpc>>
      BY <1>4 DEF Disconnect, mainVars, filterVars
    <2>3. OnePlace' /\ AllSent'
      BY <1>k, <2>1, <2>2 DEF OnePlace, AllSent, AfterRaw, AfterFilter, AfterRequests,
         AfterHandling, AfterTasks
    <2>4. QED
      BY <1>t, <1>k, <2>1, <2>2, <2>3 DEF PlaceInv, IdleHands, OnlyOnce
  <1>5. QED
    BY <1>1, <1>2, <1>3, <1>4 DEF Dispatcher

\* The filter moves the oldest broadcast message to the main loop's queue.
LEMMA FilterPlace == PlaceInv /\ Filter => PlaceInv'
  <1> SUFFICES ASSUME PlaceInv, Filter PROVE PlaceInv'
    OBVIOUS
  <1>t. TypeInv'
    BY FilterType DEF PlaceInv
  <1>k. /\ TypeInv /\ IdleHands /\ OnePlace /\ OnlyOnce /\ AllSent
        /\ raw \in Seq(Seqnos) /\ requests \in Seq(Seqnos)
        /\ Distinct(raw) /\ Distinct(requests)
    BY DEF PlaceInv, TypeInv, Shape, OnlyOnce
  <1>0. None \in 0 .. nextSeq - 1
    BY <1>k, PipelineAssumption DEF TypeInv, Shape, None
  <1>1. CASE FilterRecv
    <2>0. raw # <<>> /\ raw' = Tail(raw)
      BY <1>1 DEF FilterRecv
    <2>1. PICK s \in Seqnos :
             /\ s = Head(raw) /\ s \in Range(raw) /\ Distinct(raw') /\ s # None
             /\ Range(raw') \subseteq Range(raw) /\ s \notin Range(raw')
      <3>1. Head(raw) \in Seqnos /\ Head(raw) # 0
        BY <1>k, <2>0, HeadTail, NoneIsNoSeq
      <3>2. QED
        BY <1>k, <2>0, <3>1, Dequeue DEF None
    <2>2. fmsg' = s /\ fmsg = None /\ fpc' = "fire"
      BY <1>k, <1>1, <2>1 DEF FilterRecv, IdleHands
    <2>3. UNCHANGED <<nextSeq, handling, requests, tasks, out, delivered, mpc>>
      BY <1>1 DEF FilterRecv, clientVars, mainVars, outVars
    <2>4. s \in Range(raw) /\ Range(raw') \subseteq Range(raw) /\ s \notin Range(raw') /\ s # None
      BY <2>1
    <2>5. OnePlace'
      BY <1>k, <2>2, <2>3, <2>4 DEF OnePlace, AfterRaw, AfterFilter, AfterRequests,
         AfterHandling, AfterTasks
    <2>6. AllSent'
      BY <1>k, <2>2, <2>3, <2>4 DEF AllSent, AfterRaw, AfterFilter, AfterRequests,
         AfterHandling, AfterTasks
    <2>7. QED
      BY <1>t, <1>k, <2>1, <2>2, <2>3, <2>5, <2>6 DEF PlaceInv, IdleHands, OnlyOnce
  <1>2. CASE FilterLagged \/ FilterClosed \/ FilterSetFlag \/ FilterCallbacks \/ FilterInsertPending
    <2>1. UNCHANGED <<nextSeq, raw, fmsg, handling, requests, tasks, out, delivered, mpc>>
      BY <1>2 DEF FilterLagged, FilterClosed, FilterSetFlag, FilterCallbacks,
         FilterInsertPending, clientVars, mainVars, outVars
    <2>2. fpc' \in {"recv", "done"} => fpc \in {"recv", "done"}
      BY <1>k, <1>2 DEF FilterLagged, FilterClosed, FilterSetFlag, FilterCallbacks,
         FilterInsertPending
    <2>3. OnePlace' /\ AllSent' /\ OnlyOnce'
      BY <1>k, <2>1 DEF OnePlace, AllSent, OnlyOnce, AfterRaw, AfterFilter, AfterRequests,
         AfterHandling, AfterTasks
    <2>4. QED
      BY <1>t, <1>k, <2>1, <2>2, <2>3 DEF PlaceInv, IdleHands
  <1>3. CASE FilterDiscardCancel
    <2>1. UNCHANGED <<nextSeq, raw, handling, requests, tasks, out, delivered, mpc>> /\ fmsg' = None
      BY <1>3 DEF FilterDiscardCancel, clientVars, mainVars, outVars
    <2>2. OnePlace'
      BY <1>k, <2>1 DEF OnePlace, AfterRaw, AfterFilter, AfterRequests, AfterHandling, AfterTasks
    <2>3. AllSent'
      BY <1>k, <1>0, <2>1 DEF AllSent, AfterRaw, AfterFilter, AfterRequests, AfterHandling,
         AfterTasks
    <2>4. QED
      BY <1>t, <1>k, <2>1, <2>2, <2>3 DEF PlaceInv, IdleHands, OnlyOnce
  <1>4. CASE FilterSend
    <2>1. UNCHANGED <<nextSeq, raw, handling, tasks, out, delivered, mpc>> /\ fmsg' = None
      BY <1>4 DEF FilterSend, clientVars, outVars
    <2>2. fmsg \in Seqnos /\ fmsg # None
      BY <1>k, <1>4 DEF FilterSend, TypeInv, WorkInHand, Shape
    <2>3. fmsg \notin Range(requests)
      BY <1>k, <2>2 DEF OnePlace, AfterFilter
    <2>4. Distinct(requests') /\ Range(requests') = Range(requests) \cup {fmsg}
      BY <1>k, <1>4, <2>2, <2>3, Enqueue DEF FilterSend
    <2>5. OnePlace'
      BY <1>k, <2>1, <2>2, <2>4 DEF OnePlace, AfterRaw, AfterFilter, AfterRequests,
         AfterHandling, AfterTasks
    <2>6. AllSent'
      BY <1>k, <1>0, <2>1, <2>4 DEF AllSent, AfterRaw, AfterFilter, AfterRequests, AfterHandling,
         AfterTasks
    <2>7. QED
      BY <1>t, <1>k, <2>1, <2>4, <2>5, <2>6 DEF PlaceInv, IdleHands, OnlyOnce
  <1>5. QED
    BY <1>1, <1>2, <1>3, <1>4 DEF Filter

\* The main loop takes requests in hand one by one and answers each once, or
\* leaves it to one task.
LEMMA MainPlace == PlaceInv /\ Main => PlaceInv'
  <1> SUFFICES ASSUME PlaceInv, Main PROVE PlaceInv'
    OBVIOUS
  <1>t. TypeInv'
    BY MainType DEF PlaceInv
  <1>k. /\ TypeInv /\ Shape /\ IdleHands /\ OnePlace /\ OnlyOnce /\ AllSent
        /\ requests \in Seq(Seqnos) /\ Distinct(requests)
    BY DEF PlaceInv, TypeInv, Shape, OnlyOnce
  <1>0. None \in 0 .. nextSeq - 1
    BY <1>k, PipelineAssumption DEF Shape, None
  <1>h. ASSUME requests # <<>>, requests' = Tail(requests)
        PROVE  /\ Head(requests) \in Seqnos /\ Head(requests) \in Range(requests)
               /\ Distinct(requests') /\ Head(requests) # None
               /\ Range(requests') \subseteq Range(requests)
               /\ Head(requests) \notin Range(requests')
    <2>1. Head(requests) \in Seqnos /\ Head(requests) # 0
      BY <1>k, <1>h, HeadTail, NoneIsNoSeq
    <2>2. QED
      BY <1>k, <1>h, <2>1, Dequeue DEF None
  <1>1. CASE HandleCanceled
    <2>1. PICK s \in Seqnos : /\ Respond(s) /\ s \in Range(requests) /\ s # None
                             /\ s \notin Range(requests') /\ Distinct(requests')
                             /\ Range(requests') \subseteq Range(requests)
      BY <1>1, <1>h DEF HandleCanceled
    <2>2. UNCHANGED <<nextSeq, raw, fmsg, handling, tasks, fpc, mpc>>
      BY <1>1 DEF HandleCanceled, clientVars, filterVars
    <2>3. s \notin AfterTasks
      BY <1>k, <2>1 DEF OnePlace, AfterRequests, AfterHandling
    <2>4. Range(out') \subseteq Range(out) \cup {s} /\ Distinct(out') /\ delivered' = delivered
      BY <1>k, <2>1, <2>3, RespondPlace
    <2>5. OnePlace'
      BY <1>k, <2>1, <2>2, <2>4 DEF OnePlace, AfterRaw, AfterFilter, AfterRequests,
         AfterHandling, AfterTasks
    <2>6. AllSent'
      BY <1>k, <2>1, <2>2, <2>4 DEF AllSent, AfterRaw, AfterFilter, AfterRequests,
         AfterHandling, AfterTasks
    <2>7. QED
      BY <1>t, <1>k, <2>1, <2>2, <2>4, <2>5, <2>6 DEF PlaceInv, IdleHands, OnlyOnce
  <1>2. CASE HandleRequest
    <2>1. PICK s \in Seqnos : /\ handling' = s /\ s \in Range(requests) /\ s # None
                             /\ s \notin Range(requests') /\ Distinct(requests')
                             /\ Range(requests') \subseteq Range(requests)
      BY <1>2, <1>h DEF HandleRequest
    <2>2. /\ UNCHANGED <<nextSeq, raw, fmsg, tasks, out, delivered, fpc>>
          /\ handling = None /\ mpc' = "checked"
      BY <1>k, <1>2 DEF HandleRequest, IdleHands, clientVars, filterVars, outVars
    <2>3. OnePlace'
      BY <1>k, <2>1, <2>2 DEF OnePlace, AfterRaw, AfterFilter, AfterRequests,
         AfterHandling, AfterTasks
    <2>4. AllSent'
      BY <1>k, <2>1, <2>2 DEF AllSent, AfterRaw, AfterFilter, AfterRequests,
         AfterHandling, AfterTasks
    <2>5. QED
      BY <1>t, <1>k, <2>1, <2>2, <2>3, <2>4 DEF PlaceInv, IdleHands, OnlyOnce
  <1>3. CASE HandleRegister \/ MainClosed
    <2>1. UNCHANGED <<nextSeq, raw, fmsg, handling, requests, tasks, out, delivered, fpc>>
      BY <1>3 DEF HandleRegister, MainClosed, clientVars, filterVars, outVars
    <2>2. mpc' \in {"recv", "done"} => mpc \in {"recv", "done"}
      BY <1>3 DEF HandleRegister, MainClosed
    <2>3. OnePlace' /\ AllSent' /\ OnlyOnce'
      BY <1>k, <2>1 DEF OnePlace, AllSent, OnlyOnce, AfterRaw, AfterFilter, AfterRequests,
         AfterHandling, AfterTasks
    <2>4. QED
      BY <1>t, <1>k, <2>1, <2>2, <2>3 DEF PlaceInv, IdleHands
  <1>4. CASE HandleUnknown \/ HandleSync
    <2>1. /\ UNCHANGED <<nextSeq, raw, fmsg, requests, tasks, fpc>>
          /\ handling' = None /\ mpc' = "recv" /\ Respond(handling)
      BY <1>4 DEF HandleUnknown, HandleSync, clientVars, filterVars
    <2>2. handling \in Seqnos /\ handling # None
      BY <1>k, <1>4 DEF HandleUnknown, HandleSync, TypeInv, Shape, WorkInHand
    <2>3. handling \notin AfterTasks
      BY <1>k, <2>2 DEF OnePlace, AfterHandling
    <2>4. /\ Range(out') \subseteq Range(out) \cup {handling}
          /\ Distinct(out') /\ delivered' = delivered
      BY <1>k, <2>1, <2>2, <2>3, RespondPlace
    <2>5. OnePlace'
      BY <1>k, <2>1, <2>4 DEF OnePlace, AfterRaw, AfterFilter, AfterRequests,
         AfterHandling, AfterTasks
    <2>6. AllSent'
      BY <1>k, <1>0, <2>1, <2>4 DEF AllSent, AfterRaw, AfterFilter, AfterRequests,
         AfterHandling, AfterTasks
    <2>7. QED
      BY <1>t, <1>k, <2>1, <2>4, <2>5, <2>6 DEF PlaceInv, IdleHands, OnlyOnce
  <1>5. CASE HandleAsync
    <2>1. /\ UNCHANGED <<nextSeq, raw, fmsg, requests, out, delivered, fpc>>
          /\ handling' = None /\ mpc' = "recv" /\ tasks' = tasks \cup {handling}
      BY <1>5 DEF HandleAsync, clientVars, filterVars, outVars
    <2>2. OnePlace'
      BY <1>k, <2>1 DEF OnePlace, AfterRaw, AfterFilter, AfterRequests, AfterHandling, AfterTasks
    <2>3. AllSent'
      BY <1>k, <1>0, <2>1 DEF AllSent, AfterRaw, AfterFilter, AfterRequests,
         AfterHandling, AfterTasks
    <2>4. QED
      BY <1>t, <1>k, <2>1, <2>2, <2>3 DEF PlaceInv, IdleHands, OnlyOnce
  <1>6. QED
    BY <1>1, <1>2, <1>3, <1>4, <1>5 DEF Main

\* Every step keeps every request at one place.
LEMMA PlaceStep == PlaceInv /\ [Next]_vars => PlaceInv'
  <1> SUFFICES ASSUME PlaceInv, [Next]_vars PROVE PlaceInv'
    OBVIOUS
  <1>t. TypeInv'
    BY TypeStep DEF PlaceInv
  <1>k. /\ Shape /\ IdleHands /\ OnePlace /\ OnlyOnce /\ AllSent
        /\ out \in Seq(Seqnos \cup {None}) /\ Distinct(out)
    BY DEF PlaceInv, TypeInv, Shape, OnlyOnce
  <1>0. None \in 0 .. nextSeq - 1
    BY <1>k, PipelineAssumption DEF Shape, None
  <1>1. CASE EmitEvent
    <2>1. UNCHANGED <<nextSeq, raw, fmsg, handling, requests, tasks, delivered, fpc, mpc>>
      BY <1>1 DEF EmitEvent, clientVars, filterVars, mainVars
    <2>2. Distinct(out') /\ Range(out') = Range(out) \cup {None}
      BY <1>k, <1>1, Enqueue DEF EmitEvent, None
    <2>3. OnePlace'
      BY <1>k, <2>1, <2>2 DEF OnePlace, AfterRaw, AfterFilter, AfterRequests,
         AfterHandling, AfterTasks
    <2>4. AllSent'
      BY <1>k, <1>0, <2>1, <2>2 DEF AllSent, AfterRaw, AfterFilter, AfterRequests,
         AfterHandling, AfterTasks
    <2>5. QED
      BY <1>t, <1>k, <2>1, <2>2, <2>3, <2>4 DEF PlaceInv, IdleHands, OnlyOnce
  <1>2. ASSUME NEW s \in Seqnos, TaskRespond(s) PROVE PlaceInv'
    <2>1. /\ UNCHANGED <<nextSeq, raw, fmsg, handling, requests, fpc, mpc>>
          /\ s \in tasks /\ tasks' = tasks \ {s} /\ Respond(s) /\ s # None
      BY <1>2 DEF TaskRespond, clientVars, filterVars, Seqnos, None
    <2>2. s \notin AfterTasks
      BY <1>k, <2>1 DEF OnePlace
    <2>3. Range(out') \subseteq Range(out) \cup {s} /\ Distinct(out') /\ delivered' = delivered
      BY <1>k, <2>1, <2>2, RespondPlace
    <2>4. OnePlace'
      BY <1>k, <2>1, <2>3 DEF OnePlace, AfterRaw, AfterFilter, AfterRequests,
         AfterHandling, AfterTasks
    <2>5. AllSent'
      BY <1>k, <2>1, <2>3 DEF AllSent, AfterRaw, AfterFilter, AfterRequests,
         AfterHandling, AfterTasks
    <2>6. QED
      BY <1>t, <1>k, <2>1, <2>3, <2>4, <2>5 DEF PlaceInv, IdleHands, OnlyOnce
  <1>3. CASE UNCHANGED vars
    <2>1. UNCHANGED <<nextSeq, raw, fmsg, handling, requests, tasks, out, delivered, fpc, mpc>>
      BY <1>3 DEF vars, clientVars, filterVars, mainVars, outVars
    <2>2. OnePlace' /\ AllSent' /\ OnlyOnce' /\ IdleHands'
      BY <1>k, <2>1 DEF OnePlace, AllSent, OnlyOnce, IdleHands, AfterRaw, AfterFilter,
         AfterRequests, AfterHandling, AfterTasks
    <2>3. QED
      BY <1>t, <2>2 DEF PlaceInv
  <1>4. QED
    BY <1>1, <1>2, <1>3, DispatcherPlace, FilterPlace, MainPlace DEF Next, Finished

\* Whatever is cancelled, dropped or answered by a task, the client never gets
\* two responses to one request: a request is at one place at a time, and only
\* moves towards the client.
THEOREM NoDoubleResponse == Spec => []AtMostOneResponse
  <1>1. PlaceInv => AtMostOneResponse
    <2> SUFFICES ASSUME PlaceInv PROVE AtMostOneResponse
      OBVIOUS
    <2>1. delivered \in Seq(Seqnos) /\ Distinct(delivered)
      BY DEF PlaceInv, TypeInv, Shape, OnlyOnce
    <2>2. /\ DOMAIN delivered = 1 .. Len(delivered)
          /\ \A i \in 1 .. Len(delivered) : delivered[i] # 0
      BY <2>1, RangeOfSeq, NoneIsNoSeq
    <2>3. QED
      BY <2>1, <2>2 DEF AtMostOneResponse, Distinct
  <1>2. QED
    BY <1>1, InitPlace, PlaceStep, PTL DEF Spec

-----------------------------------------------------------------------------
(* What follows works on the places a request can be in (PlaceInv has it in   *)
(* one at a time). Movement says what each step does to them; the invariants  *)
(* follow from it and no longer look at queues.                               *)

Unread == Range(raw)
AtFilter == {fmsg} \ {None}
Queued == Range(requests)
AtMain == {handling} \ {None}
Outgoing == Range(out) \ {None}
Received == Range(delivered)

PastFilter == Queued \cup AtMain \cup tasks \cup Outgoing \cup Received
Pipeline == Unread \cup AtFilter \cup PastFilter
Sent == 1 .. nextSeq - 1

\* The client has sent the seqs below nextSeq.
LEMMA SentAreSeqnos ==
    ASSUME PlaceInv
    PROVE  /\ nextSeq \in Nat /\ nextSeq > 0 /\ Sent \subseteq Seqnos \ {nextSeq}
           /\ \A s \in Sent : s \in Nat /\ s < nextSeq /\ s # None
  <1>1. nextSeq \in 1 .. MaxSeq + 1
    BY DEF PlaceInv, TypeInv, Shape
  <1>2. QED
    BY <1>1, PipelineAssumption DEF Sent, Seqnos, None

\* What PlaceInv says of the places.
Apart ==
    /\ Pipeline \subseteq Sent
    /\ Unread \cap (AtFilter \cup PastFilter) = {}
    /\ AtFilter \cap PastFilter = {}
    /\ Queued \cap (AtMain \cup tasks \cup Outgoing \cup Received) = {}
    /\ AtMain \cap (tasks \cup Outgoing \cup Received) = {}
    /\ tasks \cap (Outgoing \cup Received) = {}
    /\ Outgoing \cap Received = {}

LEMMA PlacesApart ==
    ASSUME PlaceInv
    PROVE  Apart
  <1>1. /\ raw \in Seq(Seqnos) /\ requests \in Seq(Seqnos) /\ delivered \in Seq(Seqnos)
        /\ tasks \subseteq Seqnos /\ nextSeq \in 1 .. MaxSeq + 1
    BY DEF PlaceInv, TypeInv, Shape
  <1>2. None \notin Range(raw) \cup Range(requests) \cup Range(delivered) \cup tasks
    BY <1>1, RangeOfSeq, NoneIsNoSeq
  <1>3. Pipeline \subseteq (0 .. nextSeq - 1) \ {None}
    BY <1>2 DEF PlaceInv, AllSent, AfterRaw, AfterFilter, AfterRequests, AfterHandling,
       AfterTasks, Pipeline, PastFilter, Unread, AtFilter, Queued, AtMain, Outgoing, Received
  <1>4. (0 .. nextSeq - 1) \ {None} \subseteq Sent
    BY <1>1, PipelineAssumption DEF Sent, None
  <1>5. QED
    BY <1>2, <1>3, <1>4 DEF PlaceInv, OnePlace, AfterRaw, AfterFilter, AfterRequests,
       AfterHandling, AfterTasks, Apart, Pipeline, PastFilter, Unread, AtFilter, Queued,
       AtMain, Outgoing, Received

-----------------------------------------------------------------------------
(* What a step does to the places.                                           *)

NewRequest ==
    /\ nextSeq \in Seqnos /\ nextSeq' = nextSeq + 1
    /\ \A s \in Seqnos \ {nextSeq} : req'[s] = req[s]
    /\ req'[nextSeq].kind = "cancel" => req'[nextSeq].target \in 0 .. nextSeq - 1

MoveSend ==
    /\ NewRequest
    /\ \/ Unread' = Unread \cup {nextSeq} /\ missed' = missed
       \/ \E h \in Unread : /\ Unread' = (Unread \ {h}) \cup {nextSeq}
                            /\ missed' = missed \cup {h}
    /\ UNCHANGED <<AtFilter, Queued, AtMain, tasks, Outgoing, Received, dropped>>

MoveReject ==
    /\ NewRequest /\ req'[nextSeq].kind = "malformed"
    /\ Received' = Received \cup {nextSeq}
    /\ UNCHANGED <<Unread, AtFilter, Queued, AtMain, tasks, Outgoing, missed, dropped>>

MoveOut ==
    /\ \E s \in Outgoing : /\ out # <<>> /\ s = Head(out)
                            /\ Outgoing' = Outgoing \ {s} /\ Received' = Received \cup {s}
    /\ UNCHANGED <<Unread, AtFilter, Queued, AtMain, tasks, missed, dropped, nextSeq, req>>

MoveLost ==
    /\ Outgoing' = {} /\ dropped' = dropped \cup Outgoing
    /\ UNCHANGED <<Unread, AtFilter, Queued, AtMain, tasks, Received, missed, nextSeq, req>>

MoveRecv ==
    /\ \E s \in Unread : /\ raw # <<>> /\ s = Head(raw)
                          /\ Unread' = Unread \ {s} /\ AtFilter' = {s} /\ AtFilter = {}
    /\ UNCHANGED <<Queued, AtMain, tasks, Outgoing, Received, missed, dropped, nextSeq, req>>

MoveCancel ==
    /\ \E s \in Sent : AtFilter = {s} /\ Kind(s) = "cancel"
    /\ AtFilter' = {}
    /\ UNCHANGED <<Unread, Queued, AtMain, tasks, Outgoing, Received, missed, dropped, nextSeq, req>>

MoveQueue ==
    /\ AtFilter' = {} /\ Queued' = Queued \cup AtFilter
    /\ \A s \in AtFilter : Kind(s) # "cancel"
    /\ UNCHANGED <<Unread, AtMain, tasks, Outgoing, Received, missed, dropped, nextSeq, req>>

MoveHandle ==
    /\ \E s \in Queued : /\ requests # <<>> /\ s = Head(requests)
                          /\ Queued' = Queued \ {s} /\ AtMain' = {s} /\ AtMain = {}
    /\ UNCHANGED <<Unread, AtFilter, tasks, Outgoing, Received, missed, dropped, nextSeq, req>>

Reply(s) ==
    /\ \/ Outgoing' = Outgoing \cup {s} /\ dropped' = dropped
       \/ Outgoing' = Outgoing /\ dropped' = dropped \cup {s}
    /\ UNCHANGED <<Unread, AtFilter, Received, missed, nextSeq, req>>

MoveReply ==
    \/ /\ \E s \in Queued : /\ requests # <<>> /\ s = Head(requests)
                             /\ Queued' = Queued \ {s} /\ Reply(s)
       /\ AtMain = {} /\ UNCHANGED <<AtMain, tasks>>
    \/ /\ AtMain' = {} /\ \E s : AtMain = {s} /\ Reply(s)
       /\ UNCHANGED <<Queued, tasks>>
    \/ /\ \E s \in tasks : tasks' = tasks \ {s} /\ Reply(s)
       /\ UNCHANGED <<Queued, AtMain>>

MoveAsync ==
    /\ AtMain' = {} /\ tasks' = tasks \cup AtMain
    /\ \A s \in AtMain : Kind(s) \in AsyncKinds
    /\ UNCHANGED <<Unread, AtFilter, Queued, Outgoing, Received, missed, dropped, nextSeq, req>>

MoveNone ==
    UNCHANGED <<Unread, AtFilter, Queued, AtMain, tasks, Outgoing, Received, missed, dropped,
                nextSeq, req>>

\* What the filter forwards is no cancel request.
ForwardsNoCancel == fpc = "send" => Kind(fmsg) # "cancel"

\* The queues of the model, as Movement needs them.
LEMMA QueueFacts ==
    ASSUME PlaceInv
    PROVE  /\ raw \in Seq(Seqnos) /\ Distinct(raw)
           /\ requests \in Seq(Seqnos) /\ Distinct(requests)
           /\ out \in Seq(Seqnos \cup {None}) /\ Distinct(out)
           /\ delivered \in Seq(Seqnos) /\ Distinct(delivered)
           /\ nextSeq \in 1 .. MaxSeq + 1 /\ nextSeq \in Nat
           /\ req \in [Seqnos -> [kind : AllKinds \cup {"none"}, target : 0 .. MaxSeq]]
  BY PipelineAssumption DEF PlaceInv, TypeInv, Shape, OnlyOnce

\* Taking the head of a queue of requests.
LEMMA TakeRequest ==
    ASSUME NEW q \in Seq(Seqnos), Distinct(q), q # <<>>
    PROVE  /\ Head(q) \in Range(q) /\ Head(q) \in Seqnos /\ Head(q) # None
           /\ Range(Tail(q)) = Range(q) \ {Head(q)} /\ Tail(q) \in Seq(Seqnos)
  <1>1. /\ Head(q) \in Seqnos /\ Head(q) \in Range(q) /\ Tail(q) \in Seq(Seqnos)
        /\ Range(q) = Range(Tail(q)) \cup {Head(q)}
        /\ Head(q) # 0 => Head(q) \notin Range(Tail(q))
    BY Dequeue, HeadTail
  <1>2. QED
    BY <1>1, NoneIsNoSeq

LEMMA DispatcherMoves ==
    ASSUME PlaceInv
    PROVE  /\ DispatchRequest => MoveSend
           /\ DispatchMalformed => MoveReject
           /\ DispatchOut => MoveOut \/ MoveNone
           /\ Disconnect => MoveLost
  <1>q. /\ raw \in Seq(Seqnos) /\ Distinct(raw)
        /\ out \in Seq(Seqnos \cup {None}) /\ Distinct(out)
        /\ delivered \in Seq(Seqnos) /\ nextSeq \in Nat
        /\ req \in [Seqnos -> [kind : AllKinds \cup {"none"}, target : 0 .. MaxSeq]]
    BY QueueFacts
  <1>1. ASSUME DispatchRequest PROVE MoveSend
    <2>1. PICK k \in Kinds \ {"malformed"} : \E t \in Targets(k) :
              req' = [req EXCEPT ![nextSeq] = [kind |-> k, target |-> t]]
      BY <1>1 DEF DispatchRequest
    <2>2. PICK t \in Targets(k) : req' = [req EXCEPT ![nextSeq] = [kind |-> k, target |-> t]]
      BY <2>1
    <2>3. nextSeq \in Seqnos /\ nextSeq' = nextSeq + 1
      BY <1>1 DEF DispatchRequest
    <2>4. NewRequest
      BY <1>q, <2>2, <2>3 DEF NewRequest, Targets
    <2>5. UNCHANGED <<AtFilter, Queued, AtMain, tasks, Outgoing, Received, dropped>>
      BY <1>1 DEF DispatchRequest, mainVars, outVars, AtFilter, Queued, AtMain, Outgoing, Received
    <2>6. CASE Len(raw) < BroadcastCap /\ raw' = Append(raw, nextSeq) /\ missed' = missed
      <3>1. Range(raw') = Range(raw) \cup {nextSeq}
        BY <1>q, <2>3, <2>6, RangeAppend
      <3>2. QED
        BY <2>4, <2>5, <2>6, <3>1 DEF MoveSend, Unread
    <2>7. CASE /\ Len(raw) = BroadcastCap /\ raw' = Append(Tail(raw), nextSeq)
               /\ missed' = missed \cup {Head(raw)}
      <3>1. raw # <<>>
        BY <1>q, <2>7, PipelineAssumption
      <3>2. /\ Head(raw) \in Range(raw) /\ Tail(raw) \in Seq(Seqnos)
            /\ Range(Tail(raw)) = Range(raw) \ {Head(raw)}
        BY <1>q, <3>1, TakeRequest
      <3>a. ASSUME NEW q \in Seq(Seqnos) PROVE Range(Append(q, nextSeq)) = Range(q) \cup {nextSeq}
        BY <2>3, RangeAppend
      <3>3. Range(raw') = Range(Tail(raw)) \cup {nextSeq}
        BY <2>7, <3>2, <3>a
      <3>4. QED
        BY <2>4, <2>5, <2>7, <3>2, <3>3 DEF MoveSend, Unread
    <2>8. QED
      BY <1>1, <2>6, <2>7 DEF DispatchRequest
  <1>2. ASSUME DispatchMalformed PROVE MoveReject
    <2>1. nextSeq \in Seqnos /\ nextSeq' = nextSeq + 1
          /\ req' = [req EXCEPT ![nextSeq] = [kind |-> "malformed", target |-> None]]
      BY <1>2 DEF DispatchMalformed
    <2>2. NewRequest /\ req'[nextSeq].kind = "malformed"
      BY <1>q, <2>1 DEF NewRequest
    <2>3. Range(delivered') = Range(delivered) \cup {nextSeq}
      BY <1>q, <1>2, <2>1, RangeAppend DEF DispatchMalformed
    <2>4. UNCHANGED <<Unread, AtFilter, Queued, AtMain, tasks, Outgoing, missed, dropped>>
      BY <1>2 DEF DispatchMalformed, filterVars, mainVars, Unread, AtFilter, Queued, AtMain, Outgoing
    <2>5. QED
      BY <2>2, <2>3, <2>4 DEF MoveReject, Received
  <1>3. ASSUME DispatchOut PROVE MoveOut \/ MoveNone
    <2>1. out # <<>> /\ out' = Tail(out)
      BY <1>3 DEF DispatchOut
    <2>2. UNCHANGED <<Unread, AtFilter, Queued, AtMain, tasks, missed, dropped, nextSeq, req>>
      BY <1>3 DEF DispatchOut, clientVars, filterVars, mainVars, Unread, AtFilter, Queued, AtMain
    <2>3. /\ Range(out) = Range(out') \cup {Head(out)}
          /\ Head(out) # 0 => Head(out) \notin Range(out')
          /\ Head(out) \in Seqnos \cup {None}
      BY <1>q, <2>1, Dequeue
    <2>4. CASE Head(out) = None
      <3>1. UNCHANGED <<Outgoing, Received>>
        BY <1>3, <2>3, <2>4 DEF DispatchOut, Outgoing, Received
      <3>2. QED
        BY <2>2, <3>1 DEF MoveNone
    <2>5. CASE Head(out) # None
      <3>1. Range(delivered') = Range(delivered) \cup {Head(out)}
        BY <1>q, <1>3, <2>3, <2>5, RangeAppend DEF DispatchOut
      <3>2. Head(out) \in Outgoing /\ Outgoing' = Outgoing \ {Head(out)}
        BY <2>3, <2>5, NoneIsNoSeq DEF Outgoing
      <3>3. QED
        BY <2>1, <2>2, <3>1, <3>2 DEF MoveOut, Received
    <2>6. QED
      BY <2>4, <2>5
  <1>4. ASSUME Disconnect PROVE MoveLost
    <2>1. Outgoing' = {} /\ dropped' = dropped \cup Outgoing
      BY <1>4 DEF Disconnect, Outgoing, Range
    <2>2. UNCHANGED <<Unread, AtFilter, Queued, AtMain, tasks, Received, missed, nextSeq, req>>
      BY <1>4 DEF Disconnect, filterVars, mainVars, Unread, AtFilter, Queued, AtMain, Received
    <2>3. QED
      BY <2>1, <2>2 DEF MoveLost
  <1>5. QED
    BY <1>1, <1>2, <1>3, <1>4

LEMMA FilterMoves ==
    ASSUME PlaceInv, ForwardsNoCancel
    PROVE  /\ FilterRecv => MoveRecv
           /\ FilterDiscardCancel => MoveCancel
           /\ FilterSend => MoveQueue
           /\ FilterLagged \/ FilterClosed \/ FilterSetFlag \/ FilterCallbacks \/ FilterInsertPending
                 => MoveNone
  <1>q. raw \in Seq(Seqnos) /\ Distinct(raw) /\ requests \in Seq(Seqnos)
    BY QueueFacts
  <1>f. /\ fpc \in {"recv", "done"} => AtFilter = {}
        /\ fpc \in {"fire", "send"} => AtFilter = {fmsg} /\ fmsg \in Seqnos
    BY DEF PlaceInv, TypeInv, Shape, WorkInHand, IdleHands, AtFilter
  <1>1. ASSUME FilterRecv PROVE MoveRecv
    <2>1. /\ Head(raw) \in Range(raw) /\ Head(raw) # None
          /\ Range(raw') = Range(raw) \ {Head(raw)} /\ fmsg' = Head(raw) /\ fpc = "recv"
          /\ raw # <<>>
      BY <1>1, <1>q, TakeRequest DEF FilterRecv
    <2>2. UNCHANGED <<Queued, AtMain, tasks, Outgoing, Received, missed, dropped, nextSeq, req>>
      BY <1>1 DEF FilterRecv, clientVars, mainVars, outVars, Queued, AtMain, Outgoing, Received
    <2>3. AtFilter = {} /\ AtFilter' = {Head(raw)}
      BY <1>f, <2>1 DEF AtFilter
    <2>4. QED
      BY <2>1, <2>2, <2>3 DEF MoveRecv, Unread
  <1>2. ASSUME FilterLagged \/ FilterClosed \/ FilterSetFlag \/ FilterCallbacks \/ FilterInsertPending
        PROVE  MoveNone
    BY <1>2 DEF FilterLagged, FilterClosed, FilterSetFlag, FilterCallbacks, FilterInsertPending,
       clientVars, mainVars, outVars, MoveNone, Unread, AtFilter, Queued, AtMain, Outgoing, Received
  <1>3. ASSUME FilterDiscardCancel PROVE MoveCancel
    <2>1. AtFilter = {fmsg} /\ Kind(fmsg) = "cancel" /\ AtFilter' = {}
      BY <1>3, <1>f DEF FilterDiscardCancel, AtFilter
    <2>2. fmsg \in Sent
      BY <2>1, PlacesApart DEF Apart, Pipeline
    <2>3. UNCHANGED <<Unread, Queued, AtMain, tasks, Outgoing, Received, missed, dropped,
                      nextSeq, req>>
      BY <1>3 DEF FilterDiscardCancel, clientVars, mainVars, outVars, Unread, Queued, AtMain,
         Outgoing, Received
    <2>4. QED
      BY <2>1, <2>2, <2>3 DEF MoveCancel
  <1>4. ASSUME FilterSend PROVE MoveQueue
    <2>1. fpc = "send" /\ AtFilter = {fmsg} /\ fmsg \in Seqnos /\ AtFilter' = {}
          /\ Kind(fmsg) # "cancel"
      BY <1>4, <1>f DEF FilterSend, ForwardsNoCancel, AtFilter
    <2>2. Range(requests') = Range(requests) \cup {fmsg}
      BY <1>4, <1>q, <2>1, RangeAppend DEF FilterSend
    <2>3. UNCHANGED <<Unread, AtMain, tasks, Outgoing, Received, missed, dropped, nextSeq, req>>
      BY <1>4 DEF FilterSend, clientVars, outVars, Unread, AtMain, Outgoing, Received
    <2>4. QED
      BY <2>1, <2>2, <2>3 DEF MoveQueue, Queued
  <1>5. QED
    BY <1>1, <1>2, <1>3, <1>4

\* send_response as a movement.
LEMMA RespondMoves ==
    ASSUME PlaceInv, NEW s \in Seqnos, Respond(s)
    PROVE  /\ \/ Outgoing' = Outgoing \cup {s} /\ dropped' = dropped
              \/ Outgoing' = Outgoing /\ dropped' = dropped \cup {s}
           /\ Received' = Received
  <1>1. out \in Seq(Seqnos \cup {None}) /\ s \in Seqnos \cup {None} /\ s # None
    BY QueueFacts, NoneIsNoSeq
  <1>2. CASE out' = Append(out, s) /\ dropped' = dropped
    <2>1. Range(out') = Range(out) \cup {s}
      BY <1>1, <1>2, RangeAppend
    <2>2. QED
      BY <1>1, <1>2, <2>1 DEF Outgoing, Received, Respond
  <1>3. CASE out' = out /\ dropped' = dropped \cup {s}
    BY <1>3 DEF Outgoing, Received, Respond
  <1>4. QED
    BY <1>2, <1>3 DEF Respond

LEMMA MainMoves ==
    ASSUME PlaceInv
    PROVE  /\ HandleRequest => MoveHandle
           /\ HandleCanceled \/ HandleUnknown \/ HandleSync => MoveReply
           /\ HandleAsync => MoveAsync
           /\ HandleRegister \/ MainClosed => MoveNone
  <1>q. requests \in Seq(Seqnos) /\ Distinct(requests)
    BY QueueFacts
  <1>m. /\ mpc \in {"recv", "done"} => AtMain = {}
        /\ mpc \in {"checked", "running"} => AtMain = {handling} /\ handling \in Seqnos
    BY DEF PlaceInv, TypeInv, Shape, WorkInHand, IdleHands, AtMain
  <1>1. ASSUME HandleCanceled PROVE MoveReply
    <2>1. /\ Head(requests) \in Range(requests) /\ Head(requests) \in Seqnos
          /\ Range(requests') = Range(requests) \ {Head(requests)} /\ requests # <<>>
          /\ Respond(Head(requests)) /\ mpc = "recv"
      BY <1>1, <1>q, TakeRequest DEF HandleCanceled
    <2>2. UNCHANGED <<Unread, AtFilter, AtMain, tasks, missed, nextSeq, req>>
      BY <1>1 DEF HandleCanceled, clientVars, filterVars, Unread, AtFilter, AtMain
    <2>3. Reply(Head(requests))
      BY <2>1, <2>2, RespondMoves DEF Reply
    <2>4. QED
      BY <1>m, <2>1, <2>2, <2>3 DEF MoveReply, Queued
  <1>2. ASSUME HandleRequest PROVE MoveHandle
    <2>1. /\ Head(requests) \in Range(requests) /\ Head(requests) # None /\ mpc = "recv"
          /\ Range(requests') = Range(requests) \ {Head(requests)} /\ handling' = Head(requests)
          /\ requests # <<>>
      BY <1>2, <1>q, TakeRequest DEF HandleRequest
    <2>2. UNCHANGED <<Unread, AtFilter, tasks, Outgoing, Received, missed, dropped, nextSeq, req>>
      BY <1>2 DEF HandleRequest, clientVars, filterVars, outVars, Unread, AtFilter, Outgoing, Received
    <2>3. AtMain = {} /\ AtMain' = {Head(requests)}
      BY <1>m, <2>1 DEF AtMain
    <2>4. QED
      BY <2>1, <2>2, <2>3 DEF MoveHandle, Queued
  <1>3. ASSUME HandleRegister \/ MainClosed PROVE MoveNone
    BY <1>3 DEF HandleRegister, MainClosed, clientVars, filterVars, outVars, MoveNone, Unread,
       AtFilter, Queued, AtMain, Outgoing, Received
  <1>4. ASSUME HandleUnknown \/ HandleSync PROVE MoveReply
    <2>1. AtMain = {handling} /\ handling \in Seqnos /\ Respond(handling) /\ AtMain' = {}
      BY <1>4, <1>m DEF HandleUnknown, HandleSync, AtMain
    <2>2. UNCHANGED <<Unread, AtFilter, Queued, tasks, missed, nextSeq, req>>
      BY <1>4 DEF HandleUnknown, HandleSync, clientVars, filterVars, Unread, AtFilter, Queued
    <2>3. Reply(handling)
      BY <2>1, <2>2, RespondMoves DEF Reply
    <2>4. QED
      BY <2>1, <2>2, <2>3 DEF MoveReply
  <1>5. ASSUME HandleAsync PROVE MoveAsync
    <2>1. AtMain = {handling} /\ AtMain' = {} /\ tasks' = tasks \cup {handling}
          /\ Kind(handling) \in AsyncKinds
      BY <1>5, <1>m DEF HandleAsync, AtMain
    <2>2. UNCHANGED <<Unread, AtFilter, Queued, Outgoing, Received, missed, dropped, nextSeq, req>>
      BY <1>5 DEF HandleAsync, clientVars, filterVars, outVars, Unread, AtFilter, Queued,
         Outgoing, Received
    <2>3. QED
      BY <2>1, <2>2 DEF MoveAsync
  <1>6. QED
    BY <1>1, <1>2, <1>3, <1>4, <1>5

LEMMA TaskMoves ==
    ASSUME PlaceInv, NEW s \in Seqnos, TaskRespond(s)
    PROVE  MoveReply
  <1>1. UNCHANGED <<Unread, AtFilter, Queued, AtMain, missed, nextSeq, req>>
    BY DEF TaskRespond, clientVars, filterVars, Unread, AtFilter, Queued, AtMain
  <1>2. s \in tasks /\ tasks' = tasks \ {s} /\ Respond(s)
    BY DEF TaskRespond
  <1>3. Reply(s)
    BY <1>1, <1>2, RespondMoves DEF Reply
  <1>4. QED
    BY <1>1, <1>2, <1>3 DEF MoveReply

LEMMA EventMoves ==
    ASSUME PlaceInv, EmitEvent \/ UNCHANGED vars
    PROVE  MoveNone
  <1>1. UNCHANGED <<Unread, AtFilter, Queued, AtMain, tasks, Received, missed, dropped, nextSeq, req>>
    BY DEF EmitEvent, vars, clientVars, filterVars, mainVars, outVars, Unread, AtFilter, Queued,
       AtMain, Received
  <1>2. Outgoing' = Outgoing
    <2>1. CASE EmitEvent
      <3>1. out \in Seq(Seqnos \cup {None}) /\ None \in Seqnos \cup {None} /\ out' = Append(out, None)
        BY <2>1, QueueFacts DEF EmitEvent
      <3>2. Range(out') = Range(out) \cup {None}
        BY <3>1, RangeAppend
      <3>3. QED
        BY <3>2 DEF Outgoing
    <2>2. CASE UNCHANGED vars
      BY <2>2 DEF vars, outVars, Outgoing
    <2>3. QED
      BY <2>1, <2>2
  <1>3. QED
    BY <1>1, <1>2 DEF MoveNone

\* Every step moves at most one request, except that the client's leaving loses
\* all that are on their way out.
LEMMA Movement ==
    ASSUME PlaceInv, ForwardsNoCancel, [Next]_vars
    PROVE  \/ MoveSend \/ MoveReject \/ MoveOut \/ MoveLost \/ MoveRecv \/ MoveCancel \/ MoveQueue
           \/ MoveHandle \/ MoveReply \/ MoveAsync \/ MoveNone
  BY DispatcherMoves, FilterMoves, MainMoves, TaskMoves, EventMoves
     DEF Next, Finished, Dispatcher, Filter, Main

-----------------------------------------------------------------------------
(* No request vanishes.                                                      *)

\* A request that is lost was lost once, and is nowhere else; a request past the
\* filter is no cancel; and every other request is somewhere.
Accounted ==
    /\ missed \cup dropped \subseteq Sent /\ missed \cap dropped = {}
    /\ (missed \cup dropped) \cap Pipeline = {}
    /\ \A s \in PastFilter \cup dropped : Kind(s) # "cancel"
    /\ \A s \in Sent : Kind(s) # "cancel" => s \in Pipeline \cup missed \cup dropped

SettleInv == PlaceInv /\ ForwardsNoCancel /\ Accounted

LEMMA InitSettle == Init => SettleInv
  <1> SUFFICES ASSUME Init PROVE SettleInv
    OBVIOUS
  <1>1. PlaceInv /\ ForwardsNoCancel
    BY InitPlace DEF Init, ForwardsNoCancel
  <1>2. Range(<<>>) = {} /\ Sent = {}
    BY DEF Range, Init, Sent
  <1>3. Pipeline = {} /\ PastFilter = {} /\ missed = {} /\ dropped = {}
    BY <1>2 DEF Init, Pipeline, PastFilter, Unread, AtFilter, Queued, AtMain, Outgoing, Received
  <1>4. QED
    BY <1>1, <1>2, <1>3 DEF SettleInv, Accounted

\* FilterInsertPending is the only way to "send".
LEMMA ForwardStep ==
    ASSUME PlaceInv, ForwardsNoCancel, [Next]_vars
    PROVE  ForwardsNoCancel'
  <1>1. CASE UNCHANGED <<fpc, fmsg>>
    <2>1. fmsg \in Sent \/ fmsg = None
      BY PlacesApart DEF Apart, Pipeline, AtFilter
    <2>2. fpc = "send" => fmsg \in Sent
      BY <2>1 DEF PlaceInv, TypeInv, WorkInHand
    <2>3. \A s \in Sent : req'[s] = req[s]
      <3>1. CASE NewRequest
        BY <3>1, SentAreSeqnos DEF NewRequest
      <3>2. CASE req' = req
        BY <3>2
      <3>3. QED
        BY <3>1, <3>2, Movement DEF MoveSend, MoveReject, MoveOut, MoveLost, MoveRecv, MoveCancel,
           MoveQueue, MoveHandle, MoveReply, Reply, MoveAsync, MoveNone
    <2>4. QED
      BY <1>1, <2>2, <2>3 DEF ForwardsNoCancel, Kind
  <1>2. CASE Filter
    BY <1>2 DEF Filter, FilterRecv, FilterLagged, FilterClosed, FilterSetFlag, FilterCallbacks,
       FilterDiscardCancel, FilterInsertPending, FilterSend, ForwardsNoCancel, Kind, clientVars
  <1>3. QED
    BY <1>1, <1>2 DEF Next, Dispatcher, DispatchRequest, DispatchMalformed, DispatchOut, Disconnect,
       Main, HandleCanceled, HandleRequest, HandleRegister, HandleUnknown, HandleSync, HandleAsync,
       MainClosed, TaskRespond, EmitEvent, Finished, vars, filterVars

\* What has been sent stays as it is.
LEMMA RequestsStay ==
    ASSUME PlaceInv, ForwardsNoCancel, [Next]_vars
    PROVE  /\ \A s \in Sent : req'[s] = req[s]
           /\ Sent \subseteq Sent'
           /\ NewRequest \/ UNCHANGED <<nextSeq, req>>
           /\ NewRequest => Sent' = Sent \cup {nextSeq}
  <1>1. NewRequest \/ UNCHANGED <<nextSeq, req>>
    BY Movement DEF MoveSend, MoveReject, MoveOut, MoveLost, MoveRecv, MoveCancel,
       MoveQueue, MoveHandle, MoveReply, Reply, MoveAsync, MoveNone
  <1>2. NewRequest => Sent' = Sent \cup {nextSeq}
    BY SentAreSeqnos DEF NewRequest, Sent
  <1>3. Sent \subseteq Sent'
    BY <1>1, <1>2 DEF Sent
  <1>4. \A s \in Sent : req'[s] = req[s]
    BY <1>1, SentAreSeqnos DEF NewRequest
  <1>5. QED
    BY <1>1, <1>2, <1>3, <1>4

LEMMA AccountedStep ==
    ASSUME SettleInv, [Next]_vars
    PROVE  Accounted'
  <1>k. /\ PlaceInv /\ ForwardsNoCancel /\ Apart /\ Accounted
    BY PlacesApart DEF SettleInv
  <1>r. /\ \A s \in Sent : req'[s] = req[s]
        /\ nextSeq \notin Sent
        /\ NewRequest => Sent' = Sent \cup {nextSeq}
        /\ nextSeq' = nextSeq => Sent' = Sent
    <2>1. \A s \in Sent : req'[s] = req[s]
      BY <1>k, RequestsStay
    <2>2. NewRequest => Sent' = Sent \cup {nextSeq}
      BY <1>k, RequestsStay
    <2>3. nextSeq \notin Sent
      BY <1>k, SentAreSeqnos
    <2>4. nextSeq' = nextSeq => Sent' = Sent
      BY DEF Sent
    <2>5. QED
      BY <2>1, <2>2, <2>3, <2>4
  <1>1. CASE MoveSend
    <2>1. CASE Unread' = Unread \cup {nextSeq} /\ missed' = missed
      BY <1>k, <1>r, <1>1, <2>1 DEF MoveSend, Apart, Accounted, Pipeline, PastFilter, Kind
    <2>2. ASSUME NEW h \in Unread, Unread' = (Unread \ {h}) \cup {nextSeq}, missed' = missed \cup {h}
          PROVE  Accounted'
      BY <1>k, <1>r, <1>1, <2>2 DEF MoveSend, Apart, Accounted, Pipeline, PastFilter, Kind
    <2>3. QED
      BY <1>1, <2>1, <2>2 DEF MoveSend
  <1>2. CASE MoveReject
    <2>1. req'[nextSeq].kind = "malformed"
      BY <1>2 DEF MoveReject
    <2>2. QED
      BY <1>k, <1>r, <1>2, <2>1 DEF MoveReject, Apart, Accounted, Pipeline, PastFilter, Kind
  <1>3. CASE MoveOut
    BY <1>k, <1>r, <1>3 DEF MoveOut, Apart, Accounted, Pipeline, PastFilter, Kind
  <1>4. CASE MoveLost
    BY <1>k, <1>r, <1>4 DEF MoveLost, Apart, Accounted, Pipeline, PastFilter, Kind
  <1>5. CASE MoveRecv
    BY <1>k, <1>r, <1>5 DEF MoveRecv, Apart, Accounted, Pipeline, PastFilter, Kind
  <1>6. CASE MoveCancel
    BY <1>k, <1>r, <1>6 DEF MoveCancel, Apart, Accounted, Pipeline, PastFilter, Kind
  <1>7. CASE MoveQueue
    BY <1>k, <1>r, <1>7 DEF MoveQueue, Apart, Accounted, Pipeline, PastFilter, Kind
  <1>8. CASE MoveHandle
    BY <1>k, <1>r, <1>8 DEF MoveHandle, Apart, Accounted, Pipeline, PastFilter, Kind
  <1>9. CASE MoveReply
    BY <1>k, <1>r, <1>9 DEF MoveReply, Reply, Apart, Accounted, Pipeline, PastFilter, Kind
  <1>10. CASE MoveAsync
    BY <1>k, <1>r, <1>10 DEF MoveAsync, Apart, Accounted, Pipeline, PastFilter, Kind
  <1>11. CASE MoveNone
    BY <1>k, <1>r, <1>11 DEF MoveNone, Apart, Accounted, Pipeline, PastFilter, Kind
  <1>12. QED
    BY <1>k, <1>1, <1>2, <1>3, <1>4, <1>5, <1>6, <1>7, <1>8, <1>9, <1>10, <1>11, Movement

LEMMA SettleStep == SettleInv /\ [Next]_vars => SettleInv'
  BY AccountedStep, ForwardStep, PlaceStep DEF SettleInv

\* No request disappears: every request but a cancel is somewhere in the pipeline,
\* answered, or lost: overwritten in the broadcast, refused by the out channel, or
\* discarded with it when the client goes away.
THEOREM NothingVanishes == Spec => []NoRequestVanishes
  <1>1. SettleInv => NoRequestVanishes
    BY SentAreSeqnos DEF SettleInv, Accounted, NoRequestVanishes, InFlight, Settled, Sent,
       Pipeline, PastFilter, Unread, AtFilter, Queued, AtMain, Outgoing, Received
  <1>2. QED
    BY <1>1, InitSettle, SettleStep, PTL DEF Spec

-----------------------------------------------------------------------------
(* The pipeline implements the request service.                              *)

Discarded == missed \cup dropped \cup Consumed

\* The cancels that the filter has consumed, in terms of the places.
LEMMA ConsumedPlaces ==
    ASSUME PlaceInv
    PROVE  Consumed = {s \in Sent : req[s].kind = "cancel" /\ s \notin Unread \cup missed \cup AtFilter}
  <1>1. \A s \in Sent : s # None
    BY SentAreSeqnos
  <1>2. QED
    BY <1>1 DEF Consumed, Sent, Kind, Unread, AtFilter

\* The state of the service.
LEMMA Mapped ==
    /\ Service!Unsettled = Sent \ (Received \cup Discarded)
    /\ Service!svars = <<nextSeq - 1, Received, Discarded>>
  BY DEF Service!Unsettled, Service!svars, Sent, Received, Discarded

\* Requests on their way are unsettled, and so is a cancel in the filter's hands.
LEMMA OnTheWay ==
    ASSUME SettleInv
    PROVE  /\ Unread \cup AtFilter \cup Queued \cup AtMain \cup tasks \cup Outgoing
                 \subseteq Service!Unsettled
           /\ Received \cap Discarded = {}
  <1>1. Apart /\ Accounted
    BY PlacesApart DEF SettleInv
  <1>2. Consumed = {s \in Sent : req[s].kind = "cancel" /\ s \notin Unread \cup missed \cup AtFilter}
    BY ConsumedPlaces DEF SettleInv
  <1>3. QED
    BY <1>1, <1>2, Mapped DEF Apart, Accounted, Discarded, Pipeline, PastFilter, Kind

LEMMA InitMaps == Init => Service!ServiceInit
  <1> SUFFICES ASSUME Init PROVE Service!ServiceInit
    OBVIOUS
  <1>1. Range(delivered) = {} /\ Consumed = {} /\ nextSeq - 1 = 0 /\ missed \cup dropped = {}
    BY DEF Init, Range, Consumed
  <1>2. QED
    BY <1>1 DEF Service!ServiceInit

\* Each movement is a step of the service, or none.
LEMMA MovementMaps ==
    ASSUME SettleInv, SettleInv', [Next]_vars
    PROVE  [Service!ServiceNext]_(Service!svars)
  <1>k. /\ PlaceInv /\ ForwardsNoCancel /\ Apart /\ Accounted
        /\ Consumed = {s \in Sent : req[s].kind = "cancel" /\ s \notin Unread \cup missed \cup AtFilter}
    BY PlacesApart, ConsumedPlaces DEF SettleInv
  <1>c. Consumed' = {s \in Sent' : req'[s].kind = "cancel" /\ s \notin Unread' \cup missed' \cup AtFilter'}
    <2>1. (PlaceInv => Consumed = {s \in Sent : req[s].kind = "cancel"
                                             /\ s \notin Unread \cup missed \cup AtFilter})'
      BY ConsumedPlaces, PTL
    <2>2. QED
      BY <2>1 DEF SettleInv
  <1>r. /\ \A s \in Sent : req'[s] = req[s]
        /\ nextSeq \notin Sent
        /\ NewRequest => Sent' = Sent \cup {nextSeq}
        /\ nextSeq' = nextSeq => Sent' = Sent
    BY <1>k, RequestsStay, SentAreSeqnos DEF Sent
  <1>w. /\ Unread \cup AtFilter \cup Queued \cup AtMain \cup tasks \cup Outgoing
              \subseteq Service!Unsettled
    BY OnTheWay
  <1> DEFINE Goal == [Service!ServiceNext]_(Service!svars)
  <1>stutter. ASSUME nextSeq' = nextSeq, Received' = Received, Discarded' = Discarded PROVE Goal
    BY <1>stutter DEF Service!svars, Received, Discarded
  <1>answer. ASSUME NEW s \in Service!Unsettled, nextSeq' = nextSeq,
                    Received' = Received \cup {s}, Discarded' = Discarded
             PROVE  Goal
    <2>1. Service!Answer(s)
      BY <1>answer DEF Service!Answer, Received, Discarded
    <2>2. QED
      BY <2>1 DEF Service!ServiceNext
  <1>discard. ASSUME NEW S \in SUBSET Service!Unsettled, nextSeq' = nextSeq,
                     Received' = Received, Discarded' = Discarded \cup S
              PROVE  Goal
    <2>1. CASE S = {}
      BY <1>stutter, <1>discard, <2>1
    <2>2. CASE S # {}
      <3>1. Service!Discard(S)
        BY <1>discard, <2>2 DEF Service!Discard, Received, Discarded
      <3>2. QED
        BY <3>1 DEF Service!ServiceNext
    <2>3. QED
      BY <2>1, <2>2
  <1>submit. ASSUME NewRequest
             PROVE  nextSeq - 1 < MaxSeq /\ nextSeq' - 1 = (nextSeq - 1) + 1 /\ nextSeq' - 1 = nextSeq
    BY <1>k, <1>submit, SentAreSeqnos, PipelineAssumption DEF NewRequest, Seqnos
  <1> SUFFICES Goal
    OBVIOUS
  <1> HIDE DEF Goal
  <1>1. CASE MoveSend
    <2>0. NewRequest /\ Received' = Received
      BY <1>1 DEF MoveSend
    <2>1. CASE Unread' = Unread \cup {nextSeq} /\ missed' = missed
      <3>1. Consumed' = Consumed
        BY <1>k, <1>c, <1>r, <1>1, <2>0, <2>1 DEF MoveSend
      <3>2. Discarded' = Discarded
        BY <1>1, <2>1, <3>1 DEF MoveSend, Discarded
      <3>3. Service!Submit
        BY <1>submit, <2>0, <3>2 DEF Service!Submit, Received, Discarded
      <3>4. QED
        BY <3>3 DEF Service!ServiceNext, Goal
    <2>2. ASSUME NEW h \in Unread, Unread' = (Unread \ {h}) \cup {nextSeq}, missed' = missed \cup {h}
          PROVE  Goal
      <3>1. Consumed' = Consumed
        BY <1>k, <1>c, <1>r, <1>1, <2>0, <2>2 DEF MoveSend
      <3>2. Discarded' = Discarded \cup {h}
        BY <1>1, <2>2, <3>1 DEF MoveSend, Discarded
      <3>3. h \in Service!Unsettled
        BY <1>w
      <3>4. Service!SubmitOverflow
        BY <1>submit, <2>0, <3>2, <3>3 DEF Service!SubmitOverflow, Received, Discarded
      <3>5. QED
        BY <3>4 DEF Service!ServiceNext, Goal
    <2>3. QED
      BY <1>1, <2>1, <2>2 DEF MoveSend
  <1>2. CASE MoveReject
    <2>1. NewRequest /\ Received' = Received \cup {nextSeq} /\ req'[nextSeq].kind # "cancel"
      BY <1>2 DEF MoveReject
    <2>2. Consumed' = Consumed
      BY <1>k, <1>c, <1>r, <1>2, <2>1 DEF MoveReject
    <2>3. Discarded' = Discarded
      BY <1>2, <2>2 DEF MoveReject, Discarded
    <2>4. Service!Reject
      BY <1>submit, <2>1, <2>3 DEF Service!Reject, Received, Discarded
    <2>5. QED
      BY <2>4 DEF Service!ServiceNext, Goal
  <1>3. CASE MoveOut
    <2>1. Consumed' = Consumed
      BY <1>k, <1>c, <1>r, <1>3 DEF MoveOut
    <2>2. Discarded' = Discarded /\ nextSeq' = nextSeq
      BY <1>3, <2>1 DEF MoveOut, Discarded
    <2>3. PICK s \in Outgoing : Received' = Received \cup {s}
      BY <1>3 DEF MoveOut
    <2>4. QED
      BY <1>answer, <1>w, <2>2, <2>3
  <1>4. CASE MoveLost
    <2>1. Consumed' = Consumed
      BY <1>k, <1>c, <1>r, <1>4 DEF MoveLost
    <2>2. Discarded' = Discarded \cup Outgoing /\ nextSeq' = nextSeq /\ Received' = Received
      BY <1>4, <2>1 DEF MoveLost, Discarded
    <2>3. QED
      BY <1>discard, <1>w, <2>2
  <1>5. CASE MoveRecv
    <2>1. Consumed' = Consumed
      BY <1>k, <1>c, <1>r, <1>5 DEF MoveRecv
    <2>2. QED
      BY <1>stutter, <1>5, <2>1 DEF MoveRecv, Discarded
  <1>6. CASE MoveCancel
    <2>1. Consumed' = Consumed \cup AtFilter
      BY <1>k, <1>c, <1>r, <1>6 DEF MoveCancel, Kind, Apart, Accounted, Pipeline
    <2>2. Discarded' = Discarded \cup AtFilter /\ nextSeq' = nextSeq /\ Received' = Received
      BY <1>6, <2>1 DEF MoveCancel, Discarded
    <2>3. QED
      BY <1>discard, <1>w, <2>2
  <1>7. CASE MoveQueue
    <2>1. Consumed' = Consumed
      BY <1>k, <1>c, <1>r, <1>7 DEF MoveQueue, Kind
    <2>2. QED
      BY <1>stutter, <1>7, <2>1 DEF MoveQueue, Discarded
  <1>8. CASE MoveHandle \/ MoveAsync \/ MoveNone
    <2>1. UNCHANGED <<Unread, AtFilter, Received, missed, dropped, nextSeq, req>>
      BY <1>8 DEF MoveHandle, MoveAsync, MoveNone
    <2>2. Consumed' = Consumed
      BY <1>k, <1>c, <1>r, <2>1
    <2>3. QED
      BY <1>stutter, <2>1, <2>2 DEF Discarded
  <1>9. CASE MoveReply
    <2>1. PICK s \in Queued \cup AtMain \cup tasks : Reply(s)
      BY <1>9 DEF MoveReply
    <2>2. UNCHANGED <<Unread, AtFilter, Received, missed, nextSeq, req>>
      BY <2>1 DEF Reply
    <2>3. Consumed' = Consumed
      BY <1>k, <1>c, <1>r, <2>2
    <2>4. CASE dropped' = dropped
      BY <1>stutter, <2>2, <2>3, <2>4 DEF Discarded
    <2>5. CASE dropped' = dropped \cup {s}
      <3>1. {s} \in SUBSET Service!Unsettled
        BY <1>w
      <3>2. Discarded' = Discarded \cup {s}
        BY <2>2, <2>3, <2>5 DEF Discarded
      <3>3. QED
        BY <1>discard, <2>2, <3>1, <3>2
    <2>6. QED
      BY <2>1, <2>4, <2>5 DEF Reply
  <1>10. QED
    BY <1>k, <1>1, <1>2, <1>3, <1>4, <1>5, <1>6, <1>7, <1>8, <1>9, Movement

\* The pipeline implements the request service: seqs are submitted in order, each is
\* answered at most once or discarded, and what is discarded is never answered.
THEOREM PipelineImplementsService == Spec => ImplementsService
  <1>1. SettleInv /\ SettleInv' /\ [Next]_vars => [Service!ServiceNext]_(Service!svars)
    BY MovementMaps
  <1>2. QED
    BY <1>1, InitMaps, InitSettle, SettleStep, PTL
       DEF Spec, ImplementsService, Service!ServiceSpec

-----------------------------------------------------------------------------
(* Requests stay in line.                                                    *)

\* Requests that the main loop answers itself.
Syncs == {s \in Sent : req[s].kind \notin AsyncKinds \cup {"malformed"}}

Before(S, T) == \A s \in S, t \in T : s < t

\* The order within the queues.
QueuesInLine ==
    /\ Increasing(raw, Seqnos) /\ Increasing(requests, Seqnos)
    /\ Increasing(out, Syncs) /\ Increasing(delivered, Syncs)

\* The order between the places: what was sent earlier is further on its way, but
\* for the requests whose answer is left to a task.
PlacesInLine ==
    /\ Before(AtFilter, Unread)
    /\ Before(Queued, AtFilter \cup Unread)
    /\ Before(AtMain, Queued \cup AtFilter \cup Unread)
    /\ Before(Outgoing \cap Syncs, AtMain \cup Queued \cup AtFilter \cup Unread)
    /\ Before(Received \cap Syncs,
              (Outgoing \cap Syncs) \cup AtMain \cup Queued \cup AtFilter \cup Unread)
    /\ tasks \cap Syncs = {}

LineInv == SettleInv /\ QueuesInLine /\ PlacesInLine

LEMMA InitLine == Init => LineInv
  <1> SUFFICES ASSUME Init PROVE LineInv
    OBVIOUS
  <1>1. Range(<<>>) = {} /\ Len(<<>>) = 0
    BY DEF Range
  <1>2. \A S : Increasing(<<>>, S)
    BY <1>1 DEF Increasing
  <1>3. QueuesInLine
    BY <1>2 DEF Init, QueuesInLine
  <1>4. PlacesInLine
    BY <1>1 DEF Init, PlacesInLine, Before, AtFilter, Queued, AtMain, Outgoing, Received
  <1>5. QED
    BY <1>3, <1>4, InitSettle DEF LineInv

\* The heads of the queues come first.
LEMMA HeadsFirst ==
    ASSUME LineInv
    PROVE  /\ raw # <<>> => \A t \in Unread \ {Head(raw)} : Head(raw) < t
           /\ requests # <<>> => \A t \in Queued \ {Head(requests)} : Head(requests) < t
           /\ out # <<>> /\ Head(out) \in Syncs =>
                  \A t \in (Outgoing \cap Syncs) \ {Head(out)} : Head(out) < t
  <1>q. /\ raw \in Seq(Seqnos) /\ requests \in Seq(Seqnos) /\ out \in Seq(Seqnos \cup {None})
        /\ Increasing(raw, Seqnos) /\ Increasing(requests, Seqnos) /\ Increasing(out, Syncs)
    BY QueueFacts DEF LineInv, SettleInv, QueuesInLine
  <1>1. ASSUME NEW q \in Seq(Seqnos), q # <<>>, Increasing(q, Seqnos)
        PROVE  \A t \in Range(q) \ {Head(q)} : Head(q) < t
    <2>1. Head(q) \in Seqnos /\ Range(q) = Range(Tail(q)) \cup {Head(q)} /\ Range(q) \subseteq Seqnos
      BY <1>1, RangeHeadTail, RangeOfSeq
    <2>2. \A t \in Range(Tail(q)) \cap Seqnos : Head(q) < t
      BY <1>1, <2>1, IncreasingTail
    <2>3. QED
      BY <2>1, <2>2
  <1>2. ASSUME out # <<>>, Head(out) \in Syncs
        PROVE  \A t \in (Outgoing \cap Syncs) \ {Head(out)} : Head(out) < t
    <2>1. Range(out) = Range(Tail(out)) \cup {Head(out)}
      BY <1>q, <1>2, RangeHeadTail
    <2>2. \A t \in Range(Tail(out)) \cap Syncs : Head(out) < t
      BY <1>q, <1>2, IncreasingTail
    <2>3. QED
      BY <2>1, <2>2 DEF Outgoing
  <1>3. QED
    BY <1>q, <1>1, <1>2 DEF Unread, Queued

LEMMA PlacesStep ==
    ASSUME LineInv, [Next]_vars
    PROVE  PlacesInLine'
  <1>k. PlaceInv /\ ForwardsNoCancel /\ Apart /\ Accounted /\ PlacesInLine
    BY PlacesApart DEF LineInv, SettleInv
  <1>n. /\ nextSeq \in Nat /\ \A s \in Sent : s \in Nat /\ s < nextSeq
    BY <1>k, SentAreSeqnos
  <1>r. /\ Syncs' \cap Sent = Syncs
        /\ nextSeq' = nextSeq => Syncs' = Syncs
    <2>1. /\ \A s \in Sent : req'[s] = req[s]
          /\ Sent \subseteq Sent' /\ (nextSeq' = nextSeq => Sent' = Sent)
      BY <1>k, RequestsStay DEF Sent
    <2>2. QED
      BY <2>1 DEF Syncs
  <1>p. /\ Unread \subseteq Sent /\ AtFilter \subseteq Sent /\ Queued \subseteq Sent
        /\ AtMain \subseteq Sent /\ tasks \subseteq Sent /\ Outgoing \subseteq Sent
        /\ Received \subseteq Sent /\ Syncs \subseteq Sent
    BY <1>k DEF Apart, Pipeline, PastFilter, Syncs
  <1>1. CASE MoveSend
    <2>1. Unread' \subseteq Unread \cup {nextSeq}
      BY <1>1 DEF MoveSend
    <2>2. UNCHANGED <<AtFilter, Queued, AtMain, tasks, Outgoing, Received>>
      BY <1>1 DEF MoveSend
    <2>3. Outgoing \cap Syncs' = Outgoing \cap Syncs /\ Received \cap Syncs' = Received \cap Syncs
          /\ tasks \cap Syncs' = tasks \cap Syncs
      BY <1>p, <1>r
    <2>4. QED
      BY <1>k, <1>n, <1>p, <2>1, <2>2, <2>3 DEF PlacesInLine, Before
  <1>2. CASE MoveReject
    <2>1. nextSeq \notin Syncs'
      BY <1>2 DEF MoveReject, Syncs
    <2>2. UNCHANGED <<Unread, AtFilter, Queued, AtMain, tasks, Outgoing>>
          /\ Received' = Received \cup {nextSeq}
      BY <1>2 DEF MoveReject
    <2>3. Outgoing \cap Syncs' = Outgoing \cap Syncs /\ Received' \cap Syncs' = Received \cap Syncs
          /\ tasks \cap Syncs' = tasks \cap Syncs
      BY <1>p, <1>r, <2>1, <2>2
    <2>4. QED
      BY <1>k, <2>2, <2>3 DEF PlacesInLine
  <1>3. CASE MoveOut
    BY <1>k, <1>r, <1>3, HeadsFirst DEF MoveOut, PlacesInLine, Before
  <1>4. CASE MoveLost
    BY <1>k, <1>r, <1>4 DEF MoveLost, PlacesInLine, Before
  <1>5. CASE MoveRecv
    BY <1>k, <1>r, <1>5, HeadsFirst DEF MoveRecv, PlacesInLine, Before
  <1>6. CASE MoveCancel
    BY <1>k, <1>r, <1>6 DEF MoveCancel, PlacesInLine, Before
  <1>7. CASE MoveQueue
    BY <1>k, <1>r, <1>7 DEF MoveQueue, PlacesInLine, Before
  <1>8. CASE MoveHandle
    BY <1>k, <1>r, <1>8, HeadsFirst DEF MoveHandle, PlacesInLine, Before
  <1>9. CASE MoveReply
    <2>1. Syncs' = Syncs
      BY <1>r, <1>9 DEF MoveReply, Reply
    <2>2. QED
      BY <1>k, <1>9, <2>1, HeadsFirst DEF MoveReply, Reply, PlacesInLine, Before
  <1>10. CASE MoveAsync
    <2>1. AtMain \cap Syncs = {}
      BY <1>10 DEF MoveAsync, Syncs, Kind
    <2>2. QED
      BY <1>k, <1>r, <1>10, <2>1 DEF MoveAsync, PlacesInLine, Before
  <1>11. CASE MoveNone
    BY <1>k, <1>r, <1>11 DEF MoveNone, PlacesInLine, Before
  <1>12. QED
    BY <1>k, <1>1, <1>2, <1>3, <1>4, <1>5, <1>6, <1>7, <1>8, <1>9, <1>10, <1>11, Movement

\* A queue of requests keeps its order when its head is taken and when a request
\* is appended that was sent after all in it.
LEMMA RequestQueueStep ==
    ASSUME NEW q \in Seq(Seqnos), Increasing(q, Seqnos)
    PROVE  /\ q # <<>> => Increasing(Tail(q), Seqnos)
           /\ \A e \in Seqnos : (\A x \in Range(q) : x < e) => Increasing(Append(q, e), Seqnos)
  BY IncreasingTail, IncreasingAppend

\* The same for the two queues of responses; a response of another kind does not matter.
LEMMA ResponseQueueStep ==
    ASSUME NEW q \in Seq(Seqnos \cup {None}), NEW Of, Increasing(q, Of)
    PROVE  /\ q # <<>> => Increasing(Tail(q), Of)
           /\ \A e \in Seqnos \cup {None} :
                 (e \in Of => \A x \in Range(q) \cap Of : x < e) => Increasing(Append(q, e), Of)
  BY IncreasingTail, IncreasingAppend

LEMMA RawStep ==
    ASSUME LineInv, [Next]_vars
    PROVE  Increasing(raw', Seqnos)
  <1>q. /\ raw \in Seq(Seqnos) /\ Increasing(raw, Seqnos) /\ PlaceInv
    BY QueueFacts DEF LineInv, SettleInv, QueuesInLine
  <1>1. CASE raw' = raw
    BY <1>q, <1>1
  <1>2. CASE raw # <<>> /\ raw' = Tail(raw)
    BY <1>q, <1>2, RequestQueueStep
  <1>3. CASE DispatchRequest
    <2>1. nextSeq \in Seqnos /\ \A x \in Range(raw) : x < nextSeq
      <3>1. Range(raw) \subseteq Sent
        BY <1>q, PlacesApart DEF Apart, Pipeline, Unread
      <3>2. QED
        BY <1>q, <1>3, <3>1, SentAreSeqnos DEF DispatchRequest
    <2>2. CASE raw' = Append(raw, nextSeq)
      BY <1>q, <2>1, <2>2, RequestQueueStep
    <2>3. CASE Len(raw) = BroadcastCap /\ raw' = Append(Tail(raw), nextSeq)
      <3>1. raw # <<>>
        BY <1>q, <2>3, PipelineAssumption
      <3>2. /\ Tail(raw) \in Seq(Seqnos) /\ Range(Tail(raw)) \subseteq Range(raw)
            /\ Increasing(Tail(raw), Seqnos)
        BY <1>q, <3>1, RangeHeadTail, RequestQueueStep
      <3>3. QED
        BY <2>1, <2>3, <3>2, RequestQueueStep
    <2>4. QED
      BY <1>3, <2>2, <2>3 DEF DispatchRequest
  <1>4. QED
    BY <1>1, <1>2, <1>3 DEF Next, Dispatcher, DispatchMalformed, DispatchOut, Disconnect, Filter,
       FilterRecv, FilterLagged, FilterClosed, FilterSetFlag, FilterCallbacks,
       FilterDiscardCancel, FilterInsertPending, FilterSend, Main, HandleCanceled,
       HandleRequest, HandleRegister, HandleUnknown, HandleSync, HandleAsync, MainClosed,
       TaskRespond, EmitEvent, Finished, vars, filterVars

LEMMA RequestsStep ==
    ASSUME LineInv, [Next]_vars
    PROVE  Increasing(requests', Seqnos)
  <1>q. /\ requests \in Seq(Seqnos) /\ Increasing(requests, Seqnos) /\ PlaceInv /\ PlacesInLine
    BY QueueFacts DEF LineInv, SettleInv, QueuesInLine
  <1>1. CASE requests' = requests
    BY <1>q, <1>1
  <1>2. CASE requests # <<>> /\ requests' = Tail(requests)
    BY <1>q, <1>2, RequestQueueStep
  <1>3. CASE FilterSend
    <2>1. fmsg \in Seqnos /\ fmsg # None
      BY <1>q, <1>3 DEF FilterSend, PlaceInv, TypeInv, Shape, WorkInHand
    <2>2. \A x \in Range(requests) : x < fmsg
      BY <1>q, <2>1 DEF PlacesInLine, Before, Queued, AtFilter
    <2>3. QED
      BY <1>q, <1>3, <2>1, <2>2, RequestQueueStep DEF FilterSend
  <1>4. QED
    BY <1>1, <1>2, <1>3 DEF Next, Dispatcher, DispatchRequest, DispatchMalformed, DispatchOut,
       Disconnect, Filter, FilterRecv, FilterLagged, FilterClosed, FilterSetFlag, FilterCallbacks,
       FilterDiscardCancel, FilterInsertPending, Main, HandleCanceled,
       HandleRequest, HandleRegister, HandleUnknown, HandleSync, HandleAsync, MainClosed,
       TaskRespond, EmitEvent, Finished, vars, mainVars

\* What is on its way out is of the same kinds after the step.
LEMMA SyncsStep ==
    ASSUME LineInv, [Next]_vars
    PROVE  Syncs' \cap Sent = Syncs
  <1>1. /\ \A s \in Sent : req'[s] = req[s]
        /\ Sent \subseteq Sent'
    BY RequestsStay DEF LineInv, SettleInv
  <1>2. QED
    BY <1>1 DEF Syncs

LEMMA OutStep ==
    ASSUME LineInv, [Next]_vars
    PROVE  Increasing(out', Syncs')
  <1>q. /\ out \in Seq(Seqnos \cup {None}) /\ Increasing(out, Syncs)
        /\ PlaceInv /\ Apart /\ PlacesInLine
    BY QueueFacts, PlacesApart DEF LineInv, SettleInv, QueuesInLine
  <1>o. Range(out) \subseteq Sent \cup {None}
    BY <1>q DEF Apart, Pipeline, PastFilter, Outgoing
  <1>s. /\ Syncs' \cap Sent = Syncs /\ None \notin Syncs' /\ Syncs \subseteq Sent
    <2>1. Syncs' \cap Sent = Syncs
      BY SyncsStep
    <2>2. Syncs' \subseteq Sent' /\ Syncs \subseteq Sent
      BY DEF Syncs
    <2>3. None \notin Sent'
      BY DEF Sent, None
    <2>4. QED
      BY <2>1, <2>2, <2>3
  <1>i. Range(out) \cap Syncs' = Range(out) \cap Syncs
    BY <1>o, <1>s
  <1>n. Increasing(out, Syncs')
    <2>1. ASSUME NEW Of, Range(out) \cap Of \subseteq Syncs PROVE Increasing(out, Of)
      BY <1>q, <2>1, IncreasingOf
    <2>2. QED
      BY <1>i, <2>1
  <1>a. ASSUME NEW e \in Seqnos, e \in Sent, e \in Syncs => \A x \in Range(out) \cap Syncs : x < e,
               Respond(e)
        PROVE  Increasing(out', Syncs')
    <2>1. ASSUME NEW Of, Increasing(out, Of), e \in Of => \A x \in Range(out) \cap Of : x < e
          PROVE  Increasing(Append(out, e), Of)
      BY <1>q, <2>1, ResponseQueueStep
    <2>2. e \in Syncs' => \A x \in Range(out) \cap Syncs' : x < e
      BY <1>a, <1>i, <1>s
    <2>3. Increasing(Append(out, e), Syncs')
      BY <1>n, <2>1, <2>2
    <2>4. QED
      BY <1>a, <1>n, <2>3 DEF Respond
  <1>1. CASE out' = out
    BY <1>n, <1>1
  <1>2. CASE DispatchOut
    <2>1. ASSUME NEW Of, Increasing(out, Of) PROVE out # <<>> => Increasing(Tail(out), Of)
      BY <1>q, <2>1, ResponseQueueStep
    <2>2. QED
      BY <1>2, <1>n, <2>1 DEF DispatchOut
  <1>3. CASE Disconnect
    <2>1. Len(out') = 0
      BY <1>3 DEF Disconnect
    <2>2. QED
      BY <2>1 DEF Increasing
  <1>4. CASE EmitEvent
    <2>1. ASSUME NEW Of, Increasing(out, Of), None \notin Of PROVE Increasing(Append(out, None), Of)
      BY <1>q, <2>1, ResponseQueueStep
    <2>2. QED
      BY <1>4, <1>n, <1>s, <2>1 DEF EmitEvent
  <1>5. CASE HandleCanceled
    <2>1. requests \in Seq(Seqnos) /\ Distinct(requests) /\ requests # <<>>
          /\ Respond(Head(requests))
      BY <1>5, <1>q, QueueFacts DEF HandleCanceled
    <2>2. Head(requests) \in Queued /\ Head(requests) \in Seqnos
      BY <2>1, TakeRequest DEF Queued
    <2>3. Head(requests) \in Sent
      BY <1>q, <2>2 DEF Apart, Pipeline, PastFilter
    <2>4. \A x \in Range(out) \cap Syncs : x < Head(requests)
      BY <1>q, <1>s, <2>2 DEF PlacesInLine, Before, Outgoing, Sent, None
    <2>5. QED
      BY <1>a, <2>1, <2>2, <2>3, <2>4
  <1>6. CASE HandleUnknown \/ HandleSync
    <2>1. handling \in Seqnos /\ handling \in AtMain /\ Respond(handling)
      BY <1>6, <1>q DEF HandleUnknown, HandleSync, PlaceInv, TypeInv, Shape, WorkInHand, AtMain
    <2>2. handling \in Sent
      BY <1>q, <2>1 DEF Apart, Pipeline, PastFilter
    <2>3. \A x \in Range(out) \cap Syncs : x < handling
      BY <1>q, <1>s, <2>1 DEF PlacesInLine, Before, Outgoing, Sent, None
    <2>4. QED
      BY <1>a, <2>1, <2>2, <2>3
  <1>7. ASSUME NEW s \in Seqnos, TaskRespond(s) PROVE Increasing(out', Syncs')
    <2>1. s \in tasks /\ Respond(s)
      BY <1>7 DEF TaskRespond
    <2>2. s \in Sent /\ s \notin Syncs
      BY <1>q, <2>1 DEF Apart, Pipeline, PastFilter, PlacesInLine
    <2>3. QED
      BY <1>a, <2>1, <2>2
  <1>8. QED
    BY <1>1, <1>2, <1>3, <1>4, <1>5, <1>6, <1>7 DEF Next, Dispatcher, DispatchRequest,
       DispatchMalformed, Filter, FilterRecv, FilterLagged, FilterClosed, FilterSetFlag,
       FilterCallbacks, FilterDiscardCancel, FilterInsertPending, FilterSend, Main,
       HandleRequest, HandleRegister, HandleAsync, MainClosed, Finished, vars, outVars

LEMMA DeliveredStep ==
    ASSUME LineInv, [Next]_vars
    PROVE  Increasing(delivered', Syncs')
  <1>q. /\ delivered \in Seq(Seqnos) /\ delivered \in Seq(Seqnos \cup {None})
        /\ Increasing(delivered, Syncs) /\ PlaceInv /\ Apart /\ PlacesInLine
    BY QueueFacts, PlacesApart DEF LineInv, SettleInv, QueuesInLine
  <1>o. Range(delivered) \subseteq Sent
    BY <1>q DEF Apart, Pipeline, PastFilter, Received
  <1>s. Syncs' \cap Sent = Syncs
    BY SyncsStep
  <1>i. Range(delivered) \cap Syncs' = Range(delivered) \cap Syncs
    BY <1>o, <1>s
  <1>n. Increasing(delivered, Syncs')
    <2>1. ASSUME NEW Of, Range(delivered) \cap Of \subseteq Syncs PROVE Increasing(delivered, Of)
      BY <1>q, <2>1, IncreasingOf
    <2>2. QED
      BY <1>i, <2>1
  <1>a. ASSUME NEW e \in Seqnos, e \in Syncs' => \A x \in Range(delivered) \cap Syncs : x < e,
               delivered' = Append(delivered, e)
        PROVE  Increasing(delivered', Syncs')
    <2>1. ASSUME NEW Of, Increasing(delivered, Of), e \in Of => \A x \in Range(delivered) \cap Of : x < e
          PROVE  Increasing(Append(delivered, e), Of)
      BY <1>q, <2>1, ResponseQueueStep
    <2>2. e \in Syncs' => \A x \in Range(delivered) \cap Syncs' : x < e
      BY <1>a, <1>i
    <2>3. QED
      BY <1>a, <1>n, <2>1, <2>2
  <1>1. CASE delivered' = delivered
    BY <1>n, <1>1
  <1>2. CASE DispatchMalformed
    <2>1. nextSeq \in Seqnos /\ delivered' = Append(delivered, nextSeq)
      BY <1>2 DEF DispatchMalformed
    <2>2. req'[nextSeq].kind = "malformed"
      BY <1>q, <1>2, <2>1, QueueFacts DEF DispatchMalformed
    <2>3. nextSeq \notin Syncs'
      BY <2>2 DEF Syncs
    <2>4. QED
      BY <1>a, <2>1, <2>3
  <1>3. CASE DispatchOut /\ delivered' # delivered
    <2>1. out # <<>> /\ Head(out) # None /\ delivered' = Append(delivered, Head(out))
      BY <1>3 DEF DispatchOut
    <2>2. Head(out) \in Outgoing /\ Head(out) \in Seqnos
      <3>1. Head(out) \in Seqnos \cup {None} /\ Head(out) \in Range(out)
        BY <1>q, <2>1, QueueFacts, Dequeue
      <3>2. QED
        BY <2>1, <3>1 DEF Outgoing
    <2>3. Head(out) \in Sent
      BY <1>q, <2>2 DEF Apart, Pipeline, PastFilter
    <2>4. Head(out) \in Syncs' => \A x \in Range(delivered) \cap Syncs : x < Head(out)
      BY <1>q, <1>s, <2>2, <2>3 DEF PlacesInLine, Before, Received
    <2>5. QED
      BY <1>a, <2>1, <2>2, <2>4
  <1>4. QED
    BY <1>1, <1>2, <1>3 DEF Next, Dispatcher, DispatchRequest,
       Disconnect, Filter, FilterRecv, FilterLagged, FilterClosed, FilterSetFlag,
       FilterCallbacks, FilterDiscardCancel, FilterInsertPending, FilterSend, Main, Respond,
       HandleCanceled, HandleUnknown, HandleSync, TaskRespond, EmitEvent,
       HandleRequest, HandleRegister, HandleAsync, MainClosed, Finished, vars, outVars

LEMMA LineStep == LineInv /\ [Next]_vars => LineInv'
  <1> SUFFICES ASSUME LineInv, [Next]_vars PROVE LineInv'
    OBVIOUS
  <1>1. SettleInv'
    BY SettleStep DEF LineInv
  <1>2. QueuesInLine'
    BY RawStep, RequestsStep, OutStep, DeliveredStep DEF QueuesInLine
  <1>3. QED
    BY <1>1, <1>2, PlacesStep DEF LineInv

\* Requests answered by the main loop itself are answered in the order in which they
\* were sent, whatever is cancelled, lost or left to tasks.
THEOREM ResponsesInOrder == Spec => []SyncResponsesInOrder
  <1>1. LineInv => SyncResponsesInOrder
    <2> SUFFICES ASSUME LineInv PROVE SyncResponsesInOrder
      OBVIOUS
    <2>1. delivered \in Seq(Seqnos) /\ Increasing(delivered, Syncs) /\ Received \subseteq Sent
      BY QueueFacts, PlacesApart DEF LineInv, SettleInv, QueuesInLine, Apart, Pipeline, PastFilter
    <2>2. DOMAIN delivered = 1 .. Len(delivered) /\ \A i \in DOMAIN delivered : delivered[i] \in Sent
      BY <2>1 DEF Received, Range
    <2>3. \A i \in DOMAIN delivered :
              Kind(delivered[i]) \notin AsyncKinds \cup {"malformed"} => delivered[i] \in Syncs
      BY <2>2 DEF Syncs, Kind
    <2>4. QED
      BY <2>1, <2>2, <2>3 DEF SyncResponsesInOrder, Increasing
  <1>2. QED
    BY <1>1, InitLine, LineStep, PTL DEF Spec

-----------------------------------------------------------------------------
(* Tokens.                                                                   *)

Held == AtFilter \cup Queued \cup AtMain

\* A request that the filter or the main loop has, or that is between them, has one
\* receiver; current_cancellation holds the one of the request being executed, or
\* that of an unknown request which is long gone.
TokenInv ==
    /\ \A s \in Held : token[s].receivers = 1
    /\ mpc = "running" => current = handling
    /\ mpc # "running" => current \notin Unread \cup Held
    /\ current \in Sent \cup {None}

\* What the operations on a token do to its count and its flag.
LEMMA TokenFields ==
    /\ Subscribe(NewToken).receivers = 1
    /\ \A t \in Token :
          /\ SetFlag(t).receivers = t.receivers /\ SetFlag(t).flag = TRUE
          /\ RunCallbacks(t).receivers = t.receivers /\ RunCallbacks(t).flag = t.flag
          /\ AddCallback(t).receivers = t.receivers /\ AddCallback(t).flag = t.flag
          /\ DropReceiver(t).flag = t.flag
  <1>1. (0 + 1) % U16 = 1
    BY DEF U16
  <1>2. Subscribe(NewToken).receivers = 1
    BY <1>1 DEF Subscribe, NewToken
  <1>3. ASSUME NEW t \in Token
        PROVE  /\ SetFlag(t).receivers = t.receivers /\ SetFlag(t).flag = TRUE
               /\ RunCallbacks(t).receivers = t.receivers /\ RunCallbacks(t).flag = t.flag
               /\ AddCallback(t).receivers = t.receivers /\ AddCallback(t).flag = t.flag
               /\ DropReceiver(t).flag = t.flag
    BY DEF Token, SetFlag, RunCallbacks, AddCallback, DropReceiver
  <1>4. QED
    BY <1>2, <1>3

\* Whoever drops a receiver is done with the request, and no flag is taken back.
LEMMA TokensKept ==
    ASSUME LineInv, TokenInv, [Next]_vars
    PROVE  /\ \A s \in Held' : token'[s].receivers = 1
           /\ \A s \in Queued \cup AtMain : token[s].flag => token'[s].flag
  <1>k. PlaceInv /\ ForwardsNoCancel /\ Apart
    BY PlacesApart DEF LineInv, SettleInv
  <1>t. token \in [Seqnos -> Token] /\ current \in Seqnos \cup {None}
    BY <1>k DEF PlaceInv, TypeInv, Shape
  <1>h. Held \subseteq Seqnos /\ Unread \subseteq Seqnos
    BY <1>k, SentAreSeqnos DEF Apart, Held, Pipeline, PastFilter
  <1>f. /\ fpc \in {"fire", "send"} => AtFilter = {fmsg} /\ fmsg \in Seqnos
        /\ mpc \in {"checked", "running"} => AtMain = {handling} /\ handling \in Seqnos
    BY <1>k DEF PlaceInv, TypeInv, Shape, WorkInHand, AtFilter, AtMain
  <1> DEFINE Kept == /\ \A s \in Held' : token'[s].receivers = 1
                     /\ \A s \in Queued \cup AtMain : token[s].flag => token'[s].flag
  <1>1. ASSUME Held' \subseteq Held,
               \A s \in Held' : token'[s].receivers = token[s].receivers,
               \A s \in Queued \cup AtMain : token[s].flag => token'[s].flag
        PROVE  Kept
    BY <1>1 DEF TokenInv
  <1>2. CASE FilterRecv
    <2>1. /\ Head(raw) \in Unread /\ raw # <<>> /\ AtFilter' = {Head(raw)}
          /\ Queued' = Queued /\ AtMain' = AtMain
      BY <1>2, <1>k, FilterMoves DEF MoveRecv
    <2>2. token' = [token EXCEPT ![Head(raw)] = Subscribe(NewToken)]
      BY <1>2 DEF FilterRecv
    <2>3. token'[Head(raw)].receivers = 1
      BY <1>t, <1>h, <2>1, <2>2, TokenFields
    <2>4. \A s \in Queued \cup AtMain : token'[s] = token[s]
      BY <1>t, <1>h, <1>k, <2>1, <2>2 DEF Apart, PastFilter, Held
    <2>5. QED
      BY <2>1, <2>3, <2>4 DEF Held, TokenInv
  <1>3. CASE FilterSetFlag
    <2>1. PICK t \in firing : token' = [token EXCEPT ![t] = SetFlag(@)]
      BY <1>3 DEF FilterSetFlag
    <2>2. t \in Seqnos
      BY <1>k DEF PlaceInv, TypeInv, Shape
    <2>3. \A s \in Seqnos : token'[s].receivers = token[s].receivers /\ (token[s].flag => token'[s].flag)
      BY <1>t, <2>1, <2>2, TokenFields
    <2>4. Held' = Held
      BY <1>3, <1>k, FilterMoves DEF MoveNone, Held
    <2>5. QED
      BY <1>1, <1>h, <2>3, <2>4 DEF Held
  <1>4. CASE FilterCallbacks
    <2>1. ringing \in Seqnos /\ token' = [token EXCEPT ![ringing] = RunCallbacks(@)]
      BY <1>4, <1>k DEF FilterCallbacks, PlaceInv, TypeInv, Shape
    <2>2. \A s \in Seqnos : token'[s].receivers = token[s].receivers /\ (token[s].flag => token'[s].flag)
      BY <1>t, <2>1, TokenFields
    <2>3. Held' = Held
      BY <1>4, <1>k, FilterMoves DEF MoveNone, Held
    <2>4. QED
      BY <1>1, <1>h, <2>2, <2>3 DEF Held
  <1>5. CASE FilterDiscardCancel
    <2>1. token' = [token EXCEPT ![fmsg] = DropReceiver(@)] /\ AtFilter = {fmsg} /\ fmsg \in Seqnos
      BY <1>5, <1>f DEF FilterDiscardCancel
    <2>2. Held' = Queued \cup AtMain /\ fmsg \notin Queued \cup AtMain
      BY <1>5, <1>k, <2>1, FilterMoves DEF MoveCancel, Held, Apart, PastFilter
    <2>3. \A s \in Queued \cup AtMain : token'[s] = token[s]
      BY <1>t, <1>h, <2>1, <2>2 DEF Held
    <2>4. QED
      BY <1>1, <2>2, <2>3 DEF Held
  <1>6. CASE HandleCanceled
    <2>1. /\ requests # <<>> /\ token' = [token EXCEPT ![Head(requests)] = DropReceiver(@)]
          /\ Range(requests') = Range(requests) \ {Head(requests)}
          /\ Head(requests) \in Queued /\ UNCHANGED <<fmsg, handling>>
      BY <1>6, <1>k, QueueFacts, TakeRequest DEF HandleCanceled, filterVars, Queued
    <2>2. Held' = Held \ {Head(requests)}
      BY <1>k, <2>1 DEF Held, AtFilter, AtMain, Queued, Apart, PastFilter
    <2>3. /\ \A s \in Held \ {Head(requests)} : token'[s] = token[s]
          /\ \A s \in Held : token'[s].flag = token[s].flag
      BY <1>t, <1>h, <2>1, TokenFields DEF Held
    <2>4. QED
      BY <1>1, <2>2, <2>3 DEF Held
  <1>7. CASE HandleRegister
    <2>1. Held' = Held /\ mpc = "checked" /\ current \notin Held /\ handling \in Seqnos
      BY <1>7, <1>f, <1>k, MainMoves DEF HandleRegister, TokenInv, MoveNone, Held
    <2> DEFINE tok == IF HasPython THEN [token EXCEPT ![handling] = AddCallback(@)] ELSE token
    <2>2. tok \in [Seqnos -> Token]
      BY <1>t, <2>1, TokenOperations
    <2>3. \A s \in Seqnos : tok[s].receivers = token[s].receivers /\ tok[s].flag = token[s].flag
      BY <1>t, <2>1, TokenFields
    <2>4. token' = ReplaceCurrent(tok)
      BY <1>7 DEF HandleRegister
    <2> HIDE DEF tok
    <2>5. \A s \in Held : token'[s] = tok[s]
      BY <1>h, <2>1, <2>2, <2>4 DEF ReplaceCurrent
    <2>6. QED
      BY <1>1, <1>h, <2>1, <2>3, <2>5 DEF Held
  <1>8. CASE HandleSync \/ HandleAsync
    <2>1. mpc = "running" /\ AtMain = {handling} /\ handling \in Seqnos /\ token' = ReplaceCurrent(token)
          /\ current = handling /\ handling # None /\ AtMain' = {} /\ UNCHANGED <<requests, fmsg>>
      BY <1>8, <1>f, NoneIsNoSeq DEF HandleSync, HandleAsync, TokenInv, filterVars, AtMain
    <2>2. token' = [token EXCEPT ![handling] = DropReceiver(@)]
      BY <2>1 DEF ReplaceCurrent
    <2>3. Held' = Held \ {handling}
      BY <1>k, <2>1 DEF Held, AtFilter, Queued, Apart, PastFilter
    <2>4. /\ \A s \in Held \ {handling} : token'[s] = token[s]
          /\ \A s \in Held : token'[s].flag = token[s].flag
      BY <1>t, <1>h, <2>1, <2>2, TokenFields DEF Held
    <2>5. QED
      BY <1>1, <2>3, <2>4 DEF Held
  <1>9. ASSUME token' = token, Held' \subseteq Held PROVE Kept
    BY <1>1, <1>9
  <1> HIDE DEF Kept
  <1>10. CASE Dispatcher
    <2>1. token' = token /\ UNCHANGED <<fmsg, requests, handling>>
      BY <1>10 DEF Dispatcher, DispatchRequest, DispatchMalformed, DispatchOut, Disconnect, mainVars, filterVars
    <2>2. Held' = Held
      BY <2>1 DEF Held, AtFilter, Queued, AtMain
    <2>3. QED
      BY <1>9, <2>1, <2>2 DEF Kept
  <1>11. CASE FilterLagged \/ FilterClosed \/ FilterInsertPending
    <2>1. token' = token
      BY <1>11 DEF FilterLagged, FilterClosed, FilterInsertPending
    <2>2. Held' = Held
      BY <1>11, <1>k, FilterMoves DEF Held, MoveNone
    <2>3. QED
      BY <1>9, <2>1, <2>2 DEF Kept
  <1>12. CASE FilterSend
    <2>1. token' = token
      BY <1>12 DEF FilterSend
    <2>2. Held' = Held
      BY <1>12, <1>k, FilterMoves DEF Held, MoveQueue
    <2>3. QED
      BY <1>9, <2>1, <2>2 DEF Kept
  <1>13. CASE HandleRequest
    <2>1. token' = token
      BY <1>13 DEF HandleRequest
    <2>2. Held' \subseteq Held
      BY <1>13, <1>k, MainMoves DEF Held, MoveHandle
    <2>3. QED
      BY <1>9, <2>1, <2>2 DEF Kept
  <1>14. CASE HandleUnknown
    <2>1. token' = token /\ UNCHANGED <<fmsg, requests>> /\ handling' = None
      BY <1>14 DEF HandleUnknown, filterVars
    <2>2. Held' \subseteq Held
      BY <2>1 DEF Held, AtFilter, Queued, AtMain
    <2>3. QED
      BY <1>9, <2>1, <2>2 DEF Kept
  <1>15. CASE MainClosed \/ EmitEvent \/ (\E s \in Seqnos : TaskRespond(s)) \/ UNCHANGED vars
    <2>1. token' = token /\ UNCHANGED <<fmsg, requests, handling>>
      BY <1>15 DEF MainClosed, EmitEvent, TaskRespond, vars, filterVars, mainVars
    <2>2. Held' = Held
      BY <2>1 DEF Held, AtFilter, Queued, AtMain
    <2>3. QED
      BY <1>9, <2>1, <2>2 DEF Kept
  <1>16. Kept
    BY <1>2, <1>3, <1>4, <1>5, <1>6, <1>7, <1>8, <1>10, <1>11, <1>12, <1>13, <1>14, <1>15
       DEF Kept, Next, Filter, Main, Finished
  <1>17. QED
    BY <1>16 DEF Kept

LEMMA CurrentKept ==
    ASSUME LineInv, TokenInv, [Next]_vars
    PROVE  /\ mpc' = "running" => current' = handling'
           /\ mpc' # "running" => current' \notin Unread' \cup Held'
           /\ current' \in Sent' \cup {None}
  <1>k. PlaceInv /\ ForwardsNoCancel /\ Apart /\ PlaceInv'
    BY PlacesApart, PlaceStep DEF LineInv, SettleInv
  <1>m. /\ mpc \in {"checked", "running"} => AtMain = {handling} /\ handling \in Sent
        /\ None \notin Unread' \cup Held'
    <2>1. mpc \in {"checked", "running"} => AtMain = {handling}
      BY <1>k DEF PlaceInv, TypeInv, WorkInHand, AtMain
    <2>2. AtMain \subseteq Sent
      BY <1>k DEF Apart, Pipeline, PastFilter
    <2>3. Apart'
      BY <1>k, PlacesApart, PTL
    <2>4. (\A s \in Sent : s # None)'
      BY DEF Sent, None
    <2>5. QED
      BY <2>1, <2>2, <2>3, <2>4 DEF Apart, Held, Pipeline, PastFilter
  <1>s. Sent \subseteq Sent' /\ nextSeq \notin Sent /\ nextSeq # None
    <2>1. Sent \subseteq Sent' /\ nextSeq \notin Sent
      BY <1>k, RequestsStay, SentAreSeqnos
    <2>2. nextSeq # None
      BY <1>k, SentAreSeqnos DEF None
    <2>3. QED
      BY <2>1, <2>2
  <1>1. CASE Dispatcher
    <2>1. UNCHANGED <<mpc, current, handling, Held>> /\ Unread' \subseteq Unread \cup {nextSeq}
      <3>1. UNCHANGED <<mpc, current, handling, fmsg, requests>>
        BY <1>1 DEF Dispatcher, DispatchRequest, DispatchMalformed, DispatchOut, Disconnect,
           mainVars, filterVars
      <3>2. Unread' \subseteq Unread \cup {nextSeq}
        BY <1>1, <1>k, DispatcherMoves DEF Dispatcher, MoveSend, MoveReject, MoveOut, MoveLost, MoveNone
      <3>3. QED
        BY <3>1, <3>2 DEF Held, AtFilter, AtMain, Queued
    <2>2. QED
      BY <1>s, <2>1 DEF TokenInv
  <1>2. CASE Filter
    <2>1. UNCHANGED <<mpc, current, handling>>
      BY <1>2 DEF Filter, FilterRecv, FilterLagged, FilterClosed, FilterSetFlag, FilterCallbacks,
         FilterDiscardCancel, FilterInsertPending, FilterSend, mainVars
    <2>2. Unread' \cup Held' \subseteq Unread \cup Held
      BY <1>2, <1>k, FilterMoves DEF Filter, MoveRecv, MoveCancel, MoveQueue, MoveNone, Held
    <2>3. QED
      BY <1>s, <2>1, <2>2 DEF TokenInv
  <1>3. CASE HandleCanceled \/ HandleRequest \/ MainClosed
    <2>1. UNCHANGED <<current, raw, fmsg>> /\ mpc # "running" /\ mpc' # "running"
      BY <1>3 DEF HandleCanceled, HandleRequest, MainClosed, filterVars
    <2>2. Unread' \cup Held' \subseteq Unread \cup Held
      BY <1>3, <1>k, MainMoves DEF MoveReply, Reply, MoveHandle, MoveNone, Held
    <2>3. QED
      BY <1>s, <2>1, <2>2 DEF TokenInv
  <1>4. CASE HandleRegister
    BY <1>4, <1>m, <1>s DEF HandleRegister
  <1>5. CASE HandleUnknown
    <2>1. /\ current' = handling /\ mpc' = "recv" /\ UNCHANGED <<raw, fmsg, requests>>
          /\ handling' = None /\ AtMain = {handling} /\ handling \in Sent
      BY <1>5, <1>m DEF HandleUnknown, TokenInv, filterVars
    <2>2. handling \notin Unread \cup AtFilter \cup Queued
      BY <1>k, <2>1 DEF Apart, PastFilter
    <2>3. Unread' \cup Held' \subseteq Unread \cup AtFilter \cup Queued
      BY <2>1 DEF Unread, Held, AtFilter, Queued, AtMain
    <2>4. QED
      BY <1>s, <2>1, <2>2, <2>3
  <1>6. CASE HandleSync \/ HandleAsync
    BY <1>6, <1>m DEF HandleSync, HandleAsync
  <1>7. CASE EmitEvent \/ (\E s \in Seqnos : TaskRespond(s)) \/ UNCHANGED vars
    <2>1. UNCHANGED <<mpc, current, handling, raw, fmsg, requests>>
      BY <1>7 DEF EmitEvent, TaskRespond, vars, mainVars, filterVars
    <2>2. UNCHANGED <<Unread, Held>>
      BY <2>1 DEF Unread, Held, AtFilter, Queued, AtMain
    <2>3. QED
      BY <1>s, <2>1, <2>2 DEF TokenInv
  <1>8. QED
    BY <1>1, <1>2, <1>3, <1>4, <1>5, <1>6, <1>7 DEF Next, Main, Finished

LEMMA TokenStep ==
    ASSUME LineInv, TokenInv, [Next]_vars
    PROVE  TokenInv'
  BY TokensKept, CurrentKept DEF TokenInv

\* Every token has at most one receiver, and current_cancellation holds a real one.
CountInv ==
    /\ \A s \in Seqnos : token[s].receivers \in 0 .. 1
    /\ current # None => token[current].receivers = 1

\* Dropping the only receiver leaves none.
LEMMA DropsOne ==
    ASSUME NEW t \in Token, t.receivers = 1
    PROVE  DropReceiver(t).receivers = 0
  <1>1. (1 + (U16 - 1)) % U16 = 0
    BY DEF U16
  <1>2. QED
    BY <1>1 DEF DropReceiver, Token

LEMMA CountStep ==
    ASSUME LineInv, TokenInv, CountInv, [Next]_vars
    PROVE  CountInv'
  <1>k. PlaceInv /\ ForwardsNoCancel /\ Apart
    BY PlacesApart DEF LineInv, SettleInv
  <1>t. token \in [Seqnos -> Token] /\ current \in Seqnos \cup {None} /\ None \notin Seqnos
    BY <1>k, NoneIsNoSeq DEF PlaceInv, TypeInv, Shape
  <1>f. /\ fpc \in {"fire", "send"} => AtFilter = {fmsg} /\ fmsg \in Seqnos
        /\ mpc \in {"checked", "running"} => AtMain = {handling} /\ handling \in Seqnos
    BY <1>k DEF PlaceInv, TypeInv, Shape, WorkInHand, AtFilter, AtMain
  <1>r. \A tok \in [Seqnos -> Token] :
            /\ \A s \in Seqnos : tok[s].receivers \in 0 .. 1
            /\ current # None => tok[current].receivers = 1
            => \A s \in Seqnos : /\ ReplaceCurrent(tok)[s].receivers \in 0 .. 1
                                 /\ s # current => ReplaceCurrent(tok)[s] = tok[s]
    <2> SUFFICES ASSUME NEW tok \in [Seqnos -> Token],
                        \A s \in Seqnos : tok[s].receivers \in 0 .. 1,
                        current # None => tok[current].receivers = 1,
                        NEW s \in Seqnos
                 PROVE  /\ ReplaceCurrent(tok)[s].receivers \in 0 .. 1
                        /\ s # current => ReplaceCurrent(tok)[s] = tok[s]
      OBVIOUS
    <2>1. CASE current = None
      BY <2>1 DEF ReplaceCurrent
    <2>2. CASE current # None
      <3>1. DropReceiver(tok[current]).receivers = 0
        BY <2>2, <1>t, DropsOne
      <3>2. ReplaceCurrent(tok) = [tok EXCEPT ![current] = DropReceiver(tok[current])]
        BY <2>2 DEF ReplaceCurrent
      <3>3. CASE s = current
        BY <3>1, <3>2, <3>3
      <3>4. CASE s # current
        BY <3>2, <3>4
      <3>5. QED
        BY <3>3, <3>4
    <2>3. QED
      BY <2>1, <2>2
  <1>1. CASE FilterRecv
    <2>1. /\ Head(raw) \in Seqnos /\ UNCHANGED current
          /\ token' = [token EXCEPT ![Head(raw)] = Subscribe(NewToken)]
      BY <1>1, <1>k, HeadTail DEF FilterRecv, PlaceInv, TypeInv, Shape, mainVars
    <2>2. \A s \in Seqnos : token'[s].receivers = 1 \/ token'[s] = token[s]
      BY <1>t, <2>1, TokenFields
    <2>3. QED
      BY <1>t, <2>1, <2>2 DEF CountInv
  <1>2. CASE FilterSetFlag \/ FilterCallbacks
    <2>1. UNCHANGED current /\ \A s \in Seqnos : token'[s].receivers = token[s].receivers
      <3>1. CASE FilterSetFlag
        <4>1. PICK r \in firing : token' = [token EXCEPT ![r] = SetFlag(@)]
          BY <3>1 DEF FilterSetFlag
        <4>2. r \in Seqnos /\ UNCHANGED current
          BY <1>k, <3>1 DEF FilterSetFlag, mainVars, PlaceInv, TypeInv, Shape
        <4>3. QED
          BY <1>t, <4>1, <4>2, TokenFields
      <3>2. CASE FilterCallbacks
        <4>1. token' = [token EXCEPT ![ringing] = RunCallbacks(@)] /\ UNCHANGED current
          BY <3>2 DEF FilterCallbacks, mainVars
        <4>2. QED
          BY <1>t, <4>1, TokenFields
      <3>3. QED
        BY <1>2, <3>1, <3>2
    <2>2. QED
      BY <1>t, <2>1 DEF CountInv
  <1>3. CASE FilterDiscardCancel
    <2>1. /\ token' = [token EXCEPT ![fmsg] = DropReceiver(token[fmsg])] /\ UNCHANGED current
          /\ fpc = "fire" /\ mainVars' = mainVars
      BY <1>3 DEF FilterDiscardCancel, mainVars
    <2>2. /\ fmsg \in Held /\ fmsg \in Seqnos /\ token[fmsg].receivers = 1
      BY <1>f, <2>1 DEF TokenInv, Held
    <2>3. DropReceiver(token[fmsg]).receivers = 0
      BY <1>t, <2>2, DropsOne
    <2>4. current # fmsg
      <3>1. CASE mpc = "running"
        BY <1>f, <1>k, <2>1, <2>2, <3>1 DEF TokenInv, Apart, PastFilter, Held
      <3>2. CASE mpc # "running"
        BY <2>2, <3>2 DEF TokenInv
      <3>3. QED
        BY <3>1, <3>2
    <2>5. QED
      BY <1>t, <2>1, <2>2, <2>3, <2>4 DEF CountInv
  <1>4. CASE HandleCanceled
    <2> DEFINE s == Head(requests)
    <2>1. /\ token' = [token EXCEPT ![s] = DropReceiver(token[s])] /\ UNCHANGED current
          /\ requests # <<>> /\ mpc = "recv"
      BY <1>4 DEF HandleCanceled
    <2>2. s \in Queued /\ s \in Seqnos
      BY <1>k, <2>1, QueueFacts, TakeRequest, HeadTail DEF Queued, PlaceInv, TypeInv, Shape
    <2>3. token[s].receivers = 1 /\ current # s
      BY <2>1, <2>2 DEF TokenInv, Held
    <2>4. DropReceiver(token[s]).receivers = 0
      BY <1>t, <2>2, <2>3, DropsOne
    <2> HIDE DEF s
    <2>5. QED
      BY <1>t, <2>1, <2>2, <2>3, <2>4 DEF CountInv
  <1>5. CASE HandleRegister
    <2> DEFINE tok == IF HasPython THEN [token EXCEPT ![handling] = AddCallback(@)] ELSE token
    <2>1. mpc = "checked" /\ token' = ReplaceCurrent(tok) /\ current' = handling
      BY <1>5 DEF HandleRegister
    <2>2. handling \in Held /\ handling \in Seqnos /\ token[handling].receivers = 1
      BY <1>f, <2>1 DEF TokenInv, Held
    <2>3. tok \in [Seqnos -> Token] /\ \A s \in Seqnos : tok[s].receivers = token[s].receivers
      BY <1>t, <2>2, TokenFields, TokenOperations
    <2>4. current # handling
      BY <2>1, <2>2 DEF TokenInv
    <2> HIDE DEF tok
    <2>5. \A s \in Seqnos : /\ ReplaceCurrent(tok)[s].receivers \in 0 .. 1
                            /\ s # current => ReplaceCurrent(tok)[s] = tok[s]
      BY <1>t, <1>r, <2>3 DEF CountInv
    <2>6. QED
      BY <2>1, <2>2, <2>3, <2>4, <2>5 DEF CountInv
  <1>6. CASE HandleSync \/ HandleAsync
    <2>1. token' = ReplaceCurrent(token) /\ current' = None
      BY <1>6 DEF HandleSync, HandleAsync
    <2>2. QED
      BY <1>t, <1>r, <2>1 DEF CountInv
  <1>7. CASE UNCHANGED <<token, current>>
    BY <1>7 DEF CountInv
  <1>8. QED
    BY <1>1, <1>2, <1>3, <1>4, <1>5, <1>6, <1>7
    DEF Next, Dispatcher, DispatchRequest, DispatchMalformed, DispatchOut, Disconnect, Filter,
       FilterLagged, FilterClosed, FilterInsertPending, FilterSend, Main, HandleRequest,
       HandleUnknown, MainClosed, TaskRespond, EmitEvent, Finished, vars, mainVars

-----------------------------------------------------------------------------
(* Cancellation reaches whom it should.                                      *)

Flagged == {s \in Seqnos : token[s].flag}

\* The filter knows the requests that can still be cancelled: those whose receiver
\* is alive are in its collections, or have been taken out to be cancelled.
FilterKnows ==
    /\ fpc # "fire" => firing = {}
    /\ \A s \in Held : Kind(s) \in CancellableKinds => s \in cancellable
    /\ Queued \cup AtMain \subseteq pending \cup firing \cup Flagged
    /\ fpc = "send" => fmsg \in pending

\* What the request in the filter's hands cancels is flagged or about to be.
FilterCancels ==
    \A t \in AtFilter :
        /\ Kind(t) \in CancelingKinds =>
               \A s \in Queued \cup AtMain :
                   Kind(s) \in CancellableKinds => s \in firing \cup Flagged
        /\ Kind(t) = "cancel" /\ req[t].target \in Queued \cup AtMain =>
               req[t].target \in firing \cup Flagged

\* A cancel names an earlier request, and has been consumed before later ones.
CancelsInLine ==
    /\ Before(Consumed, AtFilter \cup Unread)
    /\ \A c \in Sent : Kind(c) = "cancel" => req[c].target < c

CancelInv ==
    /\ LineInv /\ TokenInv /\ FilterKnows /\ FilterCancels /\ CancelsInLine
    /\ ResumeCancelsInspections /\ CancelReachesTarget

LEMMA InitCancel == Init => CancelInv
  <1> SUFFICES ASSUME Init PROVE CancelInv
    OBVIOUS
  <1>1. Range(<<>>) = {} /\ Sent = {} /\ 1 .. nextSeq - 1 = {}
    BY DEF Range, Init, Sent
  <1>2. Held = {} /\ AtFilter = {} /\ Queued = {} /\ AtMain = {} /\ Unread = {} /\ Consumed = {}
        /\ Awaiting = {}
    BY <1>1 DEF Init, Held, AtFilter, Queued, AtMain, Unread, Consumed, Awaiting
  <1>3. TokenInv
    BY <1>2 DEF Init, TokenInv
  <1>4. FilterKnows /\ FilterCancels /\ CancelsInLine
    BY <1>1, <1>2 DEF Init, FilterKnows, FilterCancels, CancelsInLine, Before
  <1>5. ResumeCancelsInspections /\ CancelReachesTarget
    BY <1>1, <1>2 DEF ResumeCancelsInspections, CancelReachesTarget
  <1>6. QED
    BY <1>3, <1>4, <1>5, InitLine DEF CancelInv

\* The state of the pipeline always has its types, and the count of a token is that of
\* its one receiver: every drop finds the receiver it drops, so the u16 never wraps.
THEOREM TypeCorrect == Spec => []TypeOK
  <1> DEFINE Inv == LineInv /\ TokenInv /\ CountInv
  <1>1. Init => Inv
    <2> SUFFICES ASSUME Init PROVE Inv
      OBVIOUS
    <2>1. LineInv /\ TokenInv
      BY InitCancel DEF CancelInv
    <2>2. \A s \in Seqnos : token[s].receivers = 0
      BY DEF Init, NewToken
    <2>3. QED
      BY <2>1, <2>2 DEF Init, CountInv
  <1>2. Inv /\ [Next]_vars => Inv'
    BY LineStep, TokenStep, CountStep
  <1>3. Inv => TypeOK
    BY DEF LineInv, SettleInv, PlaceInv, TypeInv, TypeOK, CountInv
  <1>4. QED
    BY <1>1, <1>2, <1>3, PTL DEF Spec

\* The properties in terms of the places.
LEMMA PlacedProperties ==
    ASSUME PlaceInv
    PROVE  /\ Awaiting = Queued \cup AtMain
           /\ ResumeCancelsInspections <=>
                 \A s, t \in Queued \cup AtMain :
                     /\ s < t /\ req[s].kind \in CancellableKinds /\ req[t].kind \in CancelingKinds
                     => s \in Flagged
           /\ CancelReachesTarget <=>
                 \A c \in Consumed : req[c].target \in Queued \cup AtMain => req[c].target \in Flagged
  <1>1. Queued \cup AtMain \subseteq Seqnos
    BY PlacesApart, SentAreSeqnos DEF Apart, Pipeline, PastFilter
  <1>2. Awaiting = Queued \cup AtMain
    <2>1. None \notin Queued
      BY <1>1, NoneIsNoSeq
    <2>2. QED
      BY <2>1 DEF Awaiting, Queued, AtMain
  <1>3. \A s \in Queued \cup AtMain : s \in Flagged <=> token[s].flag
    BY <1>1 DEF Flagged
  <1>4. QED
    BY <1>2, <1>3 DEF ResumeCancelsInspections, CancelReachesTarget, Consumed, Kind

\* The same in the next state.
LEMMA PlacedPropertiesPrime ==
    ASSUME PlaceInv',
           \A s, t \in Queued' \cup AtMain' :
               /\ s < t /\ req'[s].kind \in CancellableKinds /\ req'[t].kind \in CancelingKinds
               => s \in Flagged',
           \A c \in Consumed' : req'[c].target \in Queued' \cup AtMain' => req'[c].target \in Flagged'
    PROVE  ResumeCancelsInspections' /\ CancelReachesTarget'
  <1>1. (PlaceInv =>
           /\ ResumeCancelsInspections <=>
                 \A s, t \in Queued \cup AtMain :
                     /\ s < t /\ req[s].kind \in CancellableKinds /\ req[t].kind \in CancelingKinds
                     => s \in Flagged
           /\ CancelReachesTarget <=>
                 \A c \in Consumed : req[c].target \in Queued \cup AtMain => req[c].target \in Flagged)'
    BY PlacedProperties, PTL
  <1>2. QED
    BY <1>1

\* Only the filter consumes cancels.
LEMMA ConsumedStep ==
    ASSUME SettleInv, SettleInv', [Next]_vars
    PROVE  /\ Consumed' \subseteq Consumed \cup AtFilter
           /\ ~FilterDiscardCancel => Consumed' \subseteq Consumed
  <1>k. /\ PlaceInv /\ ForwardsNoCancel /\ Apart
        /\ Consumed = {s \in Sent : req[s].kind = "cancel" /\ s \notin Unread \cup missed \cup AtFilter}
    BY PlacesApart, ConsumedPlaces DEF SettleInv
  <1>c. Consumed' = {s \in Sent' : req'[s].kind = "cancel" /\ s \notin Unread' \cup missed' \cup AtFilter'}
    <2>1. (PlaceInv => Consumed = {s \in Sent : req[s].kind = "cancel"
                                             /\ s \notin Unread \cup missed \cup AtFilter})'
      BY ConsumedPlaces, PTL
    <2>2. QED
      BY <2>1 DEF SettleInv
  <1>r. /\ \A s \in Sent : req'[s] = req[s]
        /\ NewRequest => Sent' = Sent \cup {nextSeq}
        /\ nextSeq' = nextSeq => Sent' = Sent
    BY <1>k, RequestsStay, SentAreSeqnos DEF Sent
  <1>1. CASE MoveSend
    BY <1>1, <1>k, <1>c, <1>r DEF MoveSend
  <1>2. CASE MoveReject
    <2>1. req'[nextSeq].kind # "cancel"
      BY <1>2 DEF MoveReject
    <2>2. QED
      BY <1>2, <1>k, <1>c, <1>r, <2>1 DEF MoveReject
  <1>3. CASE MoveOut \/ MoveLost \/ MoveHandle \/ MoveAsync \/ MoveNone \/ MoveReply
    <2>1. UNCHANGED <<Unread, AtFilter, missed, nextSeq, req>>
      BY <1>3 DEF MoveOut, MoveLost, MoveHandle, MoveAsync, MoveNone, MoveReply, Reply
    <2>2. QED
      BY <1>k, <1>c, <1>r, <2>1
  <1>4. CASE MoveRecv
    BY <1>4, <1>k, <1>c, <1>r DEF MoveRecv
  <1>5. CASE MoveQueue
    BY <1>5, <1>k, <1>c, <1>r DEF MoveQueue, Kind
  <1>6. CASE FilterDiscardCancel
    BY <1>6, <1>k, <1>c, <1>r, FilterMoves DEF MoveCancel
  <1>7. QED
    BY <1>k, <1>1, <1>2, <1>3, <1>4, <1>5, <1>6, DispatcherMoves, FilterMoves, MainMoves, TaskMoves,
       EventMoves DEF Next, Finished, Dispatcher, Filter, Main

LEMMA CancelsInLineStep ==
    ASSUME CancelInv, [Next]_vars
    PROVE  CancelsInLine'
  <1>k. /\ SettleInv /\ SettleInv' /\ PlaceInv /\ ForwardsNoCancel /\ PlacesInLine /\ Apart
        /\ CancelsInLine
    BY SettleStep, PlacesApart DEF CancelInv, LineInv, SettleInv
  <1>n. nextSeq \in Nat /\ \A s \in Sent : s \in Nat /\ s < nextSeq
    BY <1>k, SentAreSeqnos
  <1>c. /\ Consumed \subseteq Sent
        /\ Consumed' \subseteq Consumed \cup AtFilter
        /\ ~FilterDiscardCancel => Consumed' \subseteq Consumed
    BY <1>k, ConsumedStep DEF Consumed, Sent
  <1>1. Before(Consumed', AtFilter' \cup Unread')
    <2>1. CASE FilterDiscardCancel
      <3>1. AtFilter' = {} /\ Unread' = Unread
        BY <1>k, <2>1, FilterMoves DEF MoveCancel
      <3>2. QED
        BY <1>k, <1>c, <3>1 DEF CancelsInLine, PlacesInLine, Before
    <2>2. CASE ~FilterDiscardCancel
      <3>1. AtFilter' \cup Unread' \subseteq AtFilter \cup Unread \cup {nextSeq}
        BY <1>k, Movement DEF MoveSend, MoveReject, MoveOut, MoveLost, MoveRecv, MoveCancel,
           MoveQueue, MoveHandle, MoveReply, Reply, MoveAsync, MoveNone
      <3>2. QED
        BY <1>k, <1>n, <1>c, <2>2, <3>1 DEF CancelsInLine, Before
    <2>3. QED
      BY <2>1, <2>2
  <1>2. \A c \in Sent' : req'[c].kind = "cancel" => req'[c].target < c
    <2>1. /\ \A s \in Sent : req'[s] = req[s]
          /\ NewRequest => Sent' = Sent \cup {nextSeq}
          /\ NewRequest \/ UNCHANGED <<nextSeq, req>>
      BY <1>k, RequestsStay
    <2>2. ASSUME NewRequest, req'[nextSeq].kind = "cancel" PROVE req'[nextSeq].target < nextSeq
      BY <1>n, <2>2 DEF NewRequest
    <2>3. UNCHANGED nextSeq => Sent' = Sent
      BY DEF Sent
    <2>4. QED
      BY <1>k, <2>1, <2>2, <2>3 DEF CancelsInLine, Kind
  <1>3. QED
    BY <1>1, <1>2 DEF CancelsInLine, Kind

\* The rest of the invariant follows from the following.
CancelRest == FilterKnows /\ FilterCancels /\ ResumeCancelsInspections /\ CancelReachesTarget

\* Steps outside the filter only take requests out of the main loop's reach.
LEMMA OtherCancel ==
    ASSUME CancelInv, LineInv', [Next]_vars, ~Filter
    PROVE  CancelRest'
  <1>k. /\ LineInv /\ TokenInv /\ SettleInv /\ SettleInv' /\ PlaceInv /\ ForwardsNoCancel /\ Apart
        /\ PlaceInv' /\ FilterKnows /\ FilterCancels
        /\ ResumeCancelsInspections /\ CancelReachesTarget
    BY PlacesApart DEF CancelInv, LineInv, SettleInv
  <1>1. UNCHANGED <<fpc, fmsg, firing, pending, cancellable>>
    BY DEF Next, Dispatcher, DispatchRequest, DispatchMalformed, DispatchOut, Disconnect, Main,
       HandleCanceled, HandleRequest, HandleRegister, HandleUnknown, HandleSync, HandleAsync,
       MainClosed, TaskRespond, EmitEvent, Finished, vars, filterVars
  <1>2. AtFilter' = AtFilter /\ (Queued \cup AtMain)' \subseteq Queued \cup AtMain
    <2>1. AtFilter' = AtFilter
      BY <1>1 DEF AtFilter
    <2>2. CASE MoveQueue
      BY <2>1, <2>2 DEF MoveQueue
    <2>3. QED
      BY <1>k, <2>1, <2>2, Movement DEF MoveSend, MoveReject, MoveOut, MoveLost, MoveRecv, MoveCancel,
         MoveHandle, MoveReply, Reply, MoveAsync, MoveNone
  <1>3. \A s \in Queued \cup AtMain : s \in Flagged => s \in Flagged'
    BY <1>k, TokensKept DEF Flagged
  <1>4. Consumed' \subseteq Consumed /\ Consumed \subseteq Sent
    BY <1>k, ConsumedStep DEF Filter, Consumed, Sent
  <1>5. /\ \A s \in Sent : req'[s] = req[s]
        /\ AtFilter \subseteq Sent /\ Queued \cup AtMain \subseteq Sent
    BY <1>k, RequestsStay DEF Apart, Pipeline, PastFilter
  <1>6. FilterKnows'
    BY <1>k, <1>1, <1>2, <1>3, <1>5 DEF FilterKnows, Held, Kind
  <1>7. FilterCancels'
    BY <1>k, <1>1, <1>2, <1>3, <1>5 DEF FilterCancels, Kind
  <1>8. \A s, t \in Queued' \cup AtMain' :
            /\ s < t /\ req'[s].kind \in CancellableKinds /\ req'[t].kind \in CancelingKinds
            => s \in Flagged'
    BY <1>k, <1>2, <1>3, <1>5, PlacedProperties
  <1>9. \A c \in Consumed' : req'[c].target \in Queued' \cup AtMain' => req'[c].target \in Flagged'
    BY <1>k, <1>2, <1>3, <1>4, <1>5, PlacedProperties
  <1>10. ResumeCancelsInspections' /\ CancelReachesTarget'
    BY <1>k, <1>8, <1>9, PlacedPropertiesPrime
  <1>11. QED
    BY <1>6, <1>7, <1>10 DEF CancelRest

\* recv: what has a receiver is retained, and what is to be cancelled is taken out.
LEMMA RecvCancel ==
    ASSUME CancelInv, LineInv', FilterRecv
    PROVE  CancelRest'
  <1>k. /\ LineInv /\ TokenInv /\ SettleInv /\ SettleInv' /\ PlaceInv /\ ForwardsNoCancel /\ Apart
        /\ PlaceInv' /\ FilterKnows /\ [Next]_vars
    BY PlacesApart DEF CancelInv, LineInv, SettleInv, Next, Filter
  <1>1. PICK s \in Unread : /\ s = Head(raw) /\ AtFilter = {} /\ AtFilter' = {s}
                            /\ UNCHANGED <<Queued, AtMain, req>>
    BY <1>k, FilterMoves DEF MoveRecv
  <1>2. /\ fpc = "recv" /\ fpc' = "fire" /\ fmsg' = s
        /\ \/ FilterRecvCancel(s) \/ FilterRecvCancellable(s)
           \/ FilterRecvCanceling(s) \/ FilterRecvOther(s)
    BY <1>1 DEF FilterRecv
  <1>3. \A S : S \cap (Queued \cup AtMain) \subseteq Retained(S)
    BY <1>k DEF TokenInv, Held, Retained, HasReceivers
  <1>4. \A r \in Queued \cup AtMain : r \in Flagged => r \in Flagged'
    BY <1>k, TokensKept DEF Flagged
  <1>5. /\ Retained(cancellable) \subseteq cancellable'
        /\ Retained(pending) \subseteq pending' \cup firing'
        /\ Kind(s) \in CancellableKinds => s \in cancellable'
        /\ Kind(s) \in CancelingKinds => firing' = Retained(cancellable)
        /\ Kind(s) = "cancel" => firing' = Retained(pending) \cap {req[s].target}
    BY <1>2 DEF FilterRecvCancel, FilterRecvCancellable, FilterRecvCanceling, FilterRecvOther,
       CancellableKinds, CancelingKinds
  <1>6. /\ Queued \cup AtMain \subseteq pending \cup Flagged
        /\ \A r \in Queued \cup AtMain : Kind(r) \in CancellableKinds => r \in cancellable
    BY <1>k, <1>2 DEF FilterKnows, Held
  <1>7. FilterKnows'
    <2>1. \A r \in Held' : req'[r].kind \in CancellableKinds => r \in cancellable'
      BY <1>1, <1>3, <1>5, <1>6 DEF Held, Kind
    <2>2. (Queued \cup AtMain)' \subseteq (pending \cup firing \cup Flagged)'
      BY <1>1, <1>3, <1>4, <1>5, <1>6
    <2>3. QED
      BY <1>2, <2>1, <2>2 DEF FilterKnows, Kind
  <1>8. FilterCancels'
    <2>1. ASSUME Kind(s) \in CancelingKinds, NEW r \in Queued \cup AtMain,
                 Kind(r) \in CancellableKinds
          PROVE  r \in firing'
      BY <1>3, <1>5, <1>6, <2>1
    <2>2. ASSUME Kind(s) = "cancel", req[s].target \in Queued \cup AtMain
          PROVE  req[s].target \in firing' \cup Flagged'
      BY <1>3, <1>4, <1>5, <1>6, <2>2
    <2>3. QED
      BY <1>1, <2>1, <2>2 DEF FilterCancels, Kind
  <1>9. Consumed' \subseteq Consumed
    <2>1. ~FilterDiscardCancel
      BY <1>2 DEF FilterDiscardCancel
    <2>2. QED
      BY <1>k, <2>1, ConsumedStep
  <1>10. ResumeCancelsInspections' /\ CancelReachesTarget'
    <2>1. \A r, t \in Queued' \cup AtMain' :
              /\ r < t /\ req'[r].kind \in CancellableKinds /\ req'[t].kind \in CancelingKinds
              => r \in Flagged'
      BY <1>k, <1>1, <1>4, PlacedProperties DEF CancelInv
    <2>2. \A c \in Consumed' :
              req'[c].target \in Queued' \cup AtMain' => req'[c].target \in Flagged'
      BY <1>k, <1>1, <1>4, <1>9, PlacedProperties DEF CancelInv
    <2>3. QED
      BY <1>k, <2>1, <2>2, PlacedPropertiesPrime
  <1>11. QED
    BY <1>7, <1>8, <1>10 DEF CancelRest

\* What send() takes from the list to cancel it flags; the rest moves nothing.
LEMMA FireCancel ==
    ASSUME CancelInv, LineInv',
           FilterLagged \/ FilterClosed \/ FilterSetFlag \/ FilterCallbacks \/ FilterInsertPending
    PROVE  CancelRest'
  <1>k. /\ LineInv /\ TokenInv /\ SettleInv /\ SettleInv' /\ PlaceInv /\ ForwardsNoCancel /\ Apart
        /\ PlaceInv' /\ FilterKnows /\ FilterCancels /\ [Next]_vars
    BY PlacesApart DEF CancelInv, LineInv, SettleInv, Next, Filter
  <1>1. /\ UNCHANGED <<AtFilter, Queued, AtMain, req>>
        /\ cancellable' = cancellable /\ fmsg' = fmsg /\ pending \subseteq pending'
    BY <1>k, FilterMoves DEF MoveNone, FilterLagged, FilterClosed, FilterSetFlag, FilterCallbacks,
       FilterInsertPending
  <1>2. \A r \in Queued \cup AtMain : r \in Flagged => r \in Flagged'
    BY <1>k, TokensKept DEF Flagged
  <1>3. firing \subseteq firing' \cup Flagged'
    <2>1. CASE FilterSetFlag
      <3>1. PICK t \in firing : /\ token' = [token EXCEPT ![t] = SetFlag(@)]
                                /\ firing' = firing \ {t}
        BY <2>1 DEF FilterSetFlag
      <3>2. t \in Seqnos /\ token \in [Seqnos -> Token]
        BY <1>k DEF PlaceInv, TypeInv, Shape
      <3>3. token'[t].flag
        BY <3>1, <3>2, TokenFields
      <3>4. QED
        BY <3>1, <3>2, <3>3 DEF Flagged
    <2>2. CASE ~FilterSetFlag
      BY <2>2 DEF FilterLagged, FilterClosed, FilterCallbacks, FilterInsertPending
    <2>3. QED
      BY <2>1, <2>2
  <1>4. /\ fpc' # "fire" => firing' = {}
        /\ fpc' = "send" => fmsg' \in pending'
    BY <1>k DEF FilterKnows, FilterLagged, FilterClosed, FilterSetFlag, FilterCallbacks,
       FilterInsertPending
  <1>5. FilterKnows'
    BY <1>k, <1>1, <1>2, <1>3, <1>4 DEF FilterKnows, Held, Kind
  <1>6. FilterCancels'
    BY <1>k, <1>1, <1>2, <1>3 DEF FilterCancels, Kind
  <1>7. Consumed' \subseteq Consumed
    <2>1. Consumed' \subseteq Consumed \cup AtFilter
      BY <1>k, ConsumedStep
    <2>2. Consumed' \cap AtFilter' = {}
      BY DEF Consumed, AtFilter
    <2>3. QED
      BY <1>1, <2>1, <2>2
  <1>8. ResumeCancelsInspections' /\ CancelReachesTarget'
    <2>1. \A r, t \in Queued' \cup AtMain' :
              /\ r < t /\ req'[r].kind \in CancellableKinds /\ req'[t].kind \in CancelingKinds
              => r \in Flagged'
      BY <1>k, <1>1, <1>2, PlacedProperties DEF CancelInv
    <2>2. \A c \in Consumed' :
              req'[c].target \in Queued' \cup AtMain' => req'[c].target \in Flagged'
      BY <1>k, <1>1, <1>2, <1>7, PlacedProperties DEF CancelInv
    <2>3. QED
      BY <1>k, <2>1, <2>2, PlacedPropertiesPrime
  <1>9. QED
    BY <1>5, <1>6, <1>8 DEF CancelRest

\* A cancel request is discarded when its target has been cancelled.
LEMMA DiscardCancel ==
    ASSUME CancelInv, LineInv', FilterDiscardCancel
    PROVE  CancelRest'
  <1>k. /\ LineInv /\ TokenInv /\ SettleInv /\ SettleInv' /\ PlaceInv /\ ForwardsNoCancel /\ Apart
        /\ PlaceInv' /\ FilterKnows /\ FilterCancels /\ [Next]_vars
    BY PlacesApart DEF CancelInv, LineInv, SettleInv, Next, Filter
  <1>1. /\ UNCHANGED <<Queued, AtMain, req, pending, cancellable, firing>>
        /\ AtFilter' = {} /\ firing = {} /\ fpc' = "recv"
        /\ \A c \in AtFilter : Kind(c) = "cancel"
    BY <1>k, FilterMoves DEF MoveCancel, FilterDiscardCancel
  <1>2. \A r \in Queued \cup AtMain : r \in Flagged => r \in Flagged'
    BY <1>k, TokensKept DEF Flagged
  <1>3. FilterKnows' /\ FilterCancels'
    BY <1>k, <1>1, <1>2 DEF FilterKnows, FilterCancels, Held, Kind
  <1>4. Consumed' \subseteq Consumed \cup AtFilter
    BY <1>k, ConsumedStep
  <1>5. \A r, t \in Queued' \cup AtMain' :
            /\ r < t /\ req'[r].kind \in CancellableKinds /\ req'[t].kind \in CancelingKinds
            => r \in Flagged'
    BY <1>k, <1>1, <1>2, PlacedProperties DEF CancelInv
  <1>6. \A c \in Consumed' :
            req'[c].target \in Queued' \cup AtMain' => req'[c].target \in Flagged'
    <2>1. \A c \in AtFilter : req[c].target \in Queued \cup AtMain => req[c].target \in Flagged
      BY <1>k, <1>1 DEF FilterCancels
    <2>2. QED
      BY <1>k, <1>1, <1>2, <1>4, <2>1, PlacedProperties DEF CancelInv
  <1>7. QED
    BY <1>k, <1>3, <1>5, <1>6, PlacedPropertiesPrime DEF CancelRest

\* A request is forwarded when all that it cancels has been cancelled; no cancel
\* request that has been discarded names it.
LEMMA SendCancel ==
    ASSUME CancelInv, LineInv', FilterSend
    PROVE  CancelRest'
  <1>k. /\ LineInv /\ TokenInv /\ SettleInv /\ SettleInv' /\ PlaceInv /\ ForwardsNoCancel /\ Apart
        /\ PlaceInv' /\ FilterKnows /\ FilterCancels /\ CancelsInLine /\ PlacesInLine /\ [Next]_vars
    BY PlacesApart DEF CancelInv, LineInv, SettleInv, Next, Filter
  <1>1. /\ UNCHANGED <<AtMain, req, nextSeq, pending, cancellable, firing, token>>
        /\ AtFilter' = {} /\ Queued' = Queued \cup AtFilter
        /\ fpc = "send" /\ firing = {} /\ fpc' = "recv" /\ AtFilter = {fmsg}
    BY <1>k, FilterMoves DEF MoveQueue, FilterSend, FilterKnows, PlaceInv, TypeInv, WorkInHand,
       AtFilter
  <1>2. Flagged' = Flagged
    BY <1>1 DEF Flagged
  <1>s. Held \subseteq Sent /\ Consumed \subseteq Sent /\ \A s \in Sent : s \in Nat
    BY <1>k, SentAreSeqnos DEF Apart, Pipeline, PastFilter, Held, Consumed, Sent
  <1>3. FilterKnows' /\ FilterCancels'
    BY <1>k, <1>1, <1>2 DEF FilterKnows, FilterCancels, Held, Kind
  <1>4. Consumed' \subseteq Consumed
    <2>1. ~FilterDiscardCancel
      BY <1>1 DEF FilterDiscardCancel
    <2>2. QED
      BY <1>k, <2>1, ConsumedStep
  <1>5. \A r, t \in Queued' \cup AtMain' :
            /\ r < t /\ req'[r].kind \in CancellableKinds /\ req'[t].kind \in CancelingKinds
            => r \in Flagged'
    <2> SUFFICES ASSUME NEW r \in Queued \cup AtMain \cup AtFilter,
                        NEW t \in Queued \cup AtMain \cup AtFilter,
                        r < t, Kind(r) \in CancellableKinds, Kind(t) \in CancelingKinds
                 PROVE  r \in Flagged
      BY <1>1, <1>2 DEF Kind
    <2>1. CASE t \in AtFilter
      <3>1. r \in Queued \cup AtMain
        BY <1>1, <1>s, <2>1 DEF Held
      <3>2. QED
        BY <1>k, <1>1, <2>1, <3>1 DEF FilterCancels
    <2>2. CASE r \in AtFilter /\ t \in Queued \cup AtMain
      <3>1. t < r
        BY <1>k, <2>2 DEF PlacesInLine, Before
      <3>2. QED
        BY <1>s, <3>1, <2>2 DEF Held
    <2>3. CASE r \in Queued \cup AtMain /\ t \in Queued \cup AtMain
      BY <1>k, <2>3, PlacedProperties DEF CancelInv, Kind
    <2>4. QED
      BY <2>1, <2>2, <2>3
  <1>6. \A c \in Consumed' :
            req'[c].target \in Queued' \cup AtMain' => req'[c].target \in Flagged'
    <2> SUFFICES ASSUME NEW c \in Consumed, req[c].target \in Queued \cup AtMain \cup AtFilter
                 PROVE  req[c].target \in Flagged
      BY <1>1, <1>2, <1>4
    <2>1. ASSUME req[c].target \in AtFilter PROVE FALSE
      <3>1. c < req[c].target
        BY <1>k, <2>1 DEF CancelsInLine, Before
      <3>2. req[c].target < c
        BY <1>k, <1>s DEF CancelsInLine, Consumed, Kind
      <3>3. c \in Nat /\ req[c].target \in Nat
        BY <1>s, <2>1 DEF Held
      <3>4. QED
        BY <3>1, <3>2, <3>3
    <2>2. QED
      BY <1>k, <2>1, PlacedProperties DEF CancelInv
  <1>7. QED
    BY <1>k, <1>3, <1>5, <1>6, PlacedPropertiesPrime DEF CancelRest

LEMMA CancelStep == CancelInv /\ [Next]_vars => CancelInv'
  <1> SUFFICES ASSUME CancelInv, [Next]_vars PROVE CancelInv'
    OBVIOUS
  <1>1. LineInv' /\ TokenInv' /\ CancelsInLine'
    BY LineStep, TokenStep, CancelsInLineStep DEF CancelInv
  <1>2. CancelRest'
    BY <1>1, OtherCancel, RecvCancel, FireCancel, DiscardCancel, SendCancel DEF Filter
  <1>3. QED
    BY <1>1, <1>2 DEF CancelInv, CancelRest

\* When a resuming request has been forwarded, the inspections before it that still
\* have to be executed are cancelled: cancellable_requests, pruned by receiver_count,
\* still had them, and they were cancelled before the request was sent on.
THEOREM ResumeCancels == Spec => []ResumeCancelsInspections
  <1>1. CancelInv => ResumeCancelsInspections
    BY DEF CancelInv
  <1>2. QED
    BY <1>1, InitCancel, CancelStep, PTL DEF Spec

\* A cancel request that the filter is done with has cancelled its target, unless
\* that was out of handle_request by then.
THEOREM CancelsReachTheirTarget == Spec => []CancelReachesTarget
  <1>1. CancelInv => CancelReachesTarget
    BY DEF CancelInv
  <1>2. QED
    BY <1>1, InitCancel, CancelStep, PTL DEF Spec

\* handle_request starts no inspection while a resuming request sent after it waits
\* in the queue: is_cancelled() is read when the request is taken from its head.
THEOREM NoInspectionAfterResume == Spec => NoStaleInspectionStarts
  <1> DEFINE Fresh == \A s \in Seqnos :
                        /\ mpc = "recv" /\ mpc' = "checked" /\ handling' = s
                        /\ Kind(s) \in CancellableKinds
                        => \A t \in Range(requests') : Kind(t) \notin CancelingKinds
  <1>1. CancelInv /\ [Next]_vars => [Fresh]_vars
    <2> SUFFICES ASSUME CancelInv, [Next]_vars, NEW s \in Seqnos,
                        mpc = "recv", mpc' = "checked", handling' = s,
                        Kind(s) \in CancellableKinds,
                        NEW t \in Range(requests'), Kind(t) \in CancelingKinds
                 PROVE  FALSE
      OBVIOUS
    <2>k. LineInv /\ PlaceInv
      BY DEF CancelInv, LineInv, SettleInv
    <2>1. HandleRequest
      BY DEF Next, Dispatcher, DispatchRequest, DispatchMalformed, DispatchOut, Disconnect, Filter,
         FilterRecv, FilterLagged, FilterClosed, FilterSetFlag, FilterCallbacks,
         FilterDiscardCancel, FilterInsertPending, FilterSend, Main, HandleCanceled, HandleRegister,
         HandleUnknown, HandleSync, HandleAsync, MainClosed, TaskRespond, EmitEvent, Finished, vars,
         mainVars
    <2>2. requests # <<>> /\ s = Head(requests) /\ requests' = Tail(requests) /\ ~token[s].flag
      BY <2>1 DEF HandleRequest, IsCancelled
    <2>3. s \in Queued /\ t \in Queued /\ t # s
      BY <2>k, <2>2, QueueFacts, TakeRequest DEF Queued
    <2>4. s < t
      BY <2>k, <2>2, <2>3, HeadsFirst
    <2>5. s \in Flagged
      BY <2>k, <2>3, <2>4, PlacedProperties DEF CancelInv, Kind
    <2>6. QED
      BY <2>2, <2>5 DEF Flagged
  <1>2. QED
    BY <1>1, InitCancel, CancelStep, PTL DEF Spec, NoStaleInspectionStarts
=============================================================================
