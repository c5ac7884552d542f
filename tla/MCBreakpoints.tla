--------------------------- MODULE MCBreakpoints ---------------------------
(* Option sets and symmetry for model checking Breakpoints.                 *)
EXTENDS Breakpoints

\* Keys are compared and nothing else.
KeySymmetry == Permutations(Keys)

\* Nothing but the place of the breakpoint matters.
PlainOptions == {Plain}

\* One option for each way a hit can be decided.
HitOptions ==
    {[Plain EXCEPT !.hit = [op |-> o, n |-> 2]] : o \in Operators \ {"none"}}
        \cup {[Plain EXCEPT !.py = TRUE], [Plain EXCEPT !.log = TRUE],
              [Plain EXCEPT !.native = TRUE], [Plain EXCEPT !.hit = ModZero]}
=============================================================================
