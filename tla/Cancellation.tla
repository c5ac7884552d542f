---------------------------- MODULE Cancellation ----------------------------
(***************************************************************************)
(* The cancellation token of src/codelldb/src/cancellation.rs: a Sender and *)
(* its Receivers share one Inner (flag, receiver_count, callbacks).  The    *)
(* operators below are the operations on that shared record; the modules    *)
(* that use tokens decide which thread performs them and when.              *)
(***************************************************************************)
EXTENDS Naturals

\* receiver_count is an AtomicU16, so it wraps.
U16 == 65536

(***************************************************************************)
(* flag, receivers and callbacks are the fields of Inner (every registered  *)
(* callback is the same Python interrupt, so only their number matters).    *)
(* called counts the callback invocations and sent says that Sender::send   *)
(* has returned: both are history, read by properties only.                 *)
(***************************************************************************)
Token ==
    [flag : BOOLEAN, receivers : 0 .. U16 - 1,
     callbacks : Nat, called : Nat, sent : BOOLEAN]

\* Sender::new
NewToken ==
    [flag |-> FALSE, receivers |-> 0, callbacks |-> 0, called |-> 0, sent |-> FALSE]

\* Sender::subscribe (and Clone for Receiver)
Subscribe(t) == [t EXCEPT !.receivers = (@ + 1) % U16]

\* Mutant of DropReceiver: the count is decremented twice, and wraps.
DropReceiverTwice(t) == [t EXCEPT !.receivers = (@ + (U16 - 2)) % U16]

\* Drop for Receiver
DropReceiver(t) == [t EXCEPT !.receivers = (@ + (U16 - 1)) % U16]

\* Sender::send, first half: the flag is stored before the lock is taken.
SetFlag(t) == [t EXCEPT !.flag = TRUE]

\* Sender::send, second half: under the lock, every callback is called.
RunCallbacks(t) == [t EXCEPT !.called = @ + t.callbacks, !.sent = TRUE]

\* Receiver::add_callback: pushed under the lock, never called retroactively.
AddCallback(t) == [t EXCEPT !.callbacks = @ + 1]

\* Receiver::is_cancelled
IsCancelled(t) == t.flag

\* What Vec::retain and HashMap::retain keep: a receiver is still alive.
HasReceivers(t) == t.receivers > 0
=============================================================================
