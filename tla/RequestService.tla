--------------------------- MODULE RequestService ---------------------------
(***************************************************************************)
(* What the adapter promises a DAP client about requests, with none of the  *)
(* channels, threads and tokens that implement it.  Requests are submitted  *)
(* in seq order.  Each is then settled once and for all: it is answered, or *)
(* it is discarded without an answer.  A settled request never changes.     *)
(***************************************************************************)
EXTENDS Naturals

CONSTANT MaxSeq

VARIABLES
    submitted,   \* number of requests the client has sent
    answered,    \* requests whose response the client has received
    discarded    \* requests that will never be answered

svars == <<submitted, answered, discarded>>

Unsettled == (1 .. submitted) \ (answered \cup discarded)

ServiceInit == submitted = 0 /\ answered = {} /\ discarded = {}

\* The client sends its next request.
Submit ==
    /\ submitted < MaxSeq
    /\ submitted' = submitted + 1
    /\ UNCHANGED <<answered, discarded>>

\* The client's next message makes the adapter give up unsettled ones: a
\* bounded buffer overflows.
SubmitOverflow ==
    /\ submitted < MaxSeq
    /\ submitted' = submitted + 1
    /\ \E s \in Unsettled : discarded' = discarded \cup {s}
    /\ UNCHANGED answered

\* The client's next message is malformed and is rejected on the spot.
Reject ==
    /\ submitted < MaxSeq
    /\ submitted' = submitted + 1
    /\ answered' = answered \cup {submitted'}
    /\ UNCHANGED discarded

Answer(s) ==
    /\ s \in Unsettled
    /\ answered' = answered \cup {s}
    /\ UNCHANGED <<submitted, discarded>>

\* Requests are given up, several at a time when the client goes away.
Discard(S) ==
    /\ S # {} /\ S \subseteq Unsettled
    /\ discarded' = discarded \cup S
    /\ UNCHANGED <<submitted, answered>>

ServiceNext ==
    \/ Submit \/ SubmitOverflow \/ Reject
    \/ \E s \in Unsettled : Answer(s)
    \/ \E S \in SUBSET Unsettled : Discard(S)

ServiceSpec == ServiceInit /\ [][ServiceNext]_svars
=============================================================================
