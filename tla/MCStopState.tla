---------------------------- MODULE MCStopState ----------------------------
(* Lists that LLDB returns: a local variable shadowed by another of its name. *)
(* Functions are only compared, so that they may be permuted.                 *)
EXTENDS StopState, TLC

MCLocals == <<"x", "y", "x">>
MCMembers == <<"c">>
FnSymmetry == Permutations(Fns)
=============================================================================
