--------------------------- MODULE SequenceFacts ---------------------------
(***************************************************************************)
(* Facts about queues that the proofs share: what taking the head and       *)
(* appending do to the elements of a sequence and to their being distinct.  *)
(* Induction over numbers is at the end.                                    *)
(***************************************************************************)
EXTENDS Naturals, Sequences, Functions, WellFoundedInduction, TLAPS

\* No value but zero, which stands for "nothing", occurs twice.
Distinct(q) == \A i, j \in 1 .. Len(q) : q[i] = q[j] /\ q[i] # 0 => i = j

\* The elements of a sequence over S are in S.
LEMMA RangeOfSeq ==
    ASSUME NEW S, NEW s \in Seq(S)
    PROVE  Range(s) \subseteq S /\ \A i \in 1 .. Len(s) : s[i] \in S
  <1>1. \A i \in 1 .. Len(s) : s[i] \in S
    OBVIOUS
  <1>2. DOMAIN s = 1 .. Len(s)
    OBVIOUS
  <1>3. QED
    BY <1>1, <1>2 DEF Range

\* What Append adds to the range of a sequence.
LEMMA RangeAppend ==
    ASSUME NEW S, NEW s \in Seq(S), NEW e \in S
    PROVE  Range(Append(s, e)) = Range(s) \cup {e}
  <1>1. Range(Append(s, e)) \subseteq Range(s) \cup {e}
    BY DEF Range
  <1>2. Range(s) \cup {e} \subseteq Range(Append(s, e))
    <2>1. Append(s, e)[Len(s) + 1] = e /\ Len(s) + 1 \in DOMAIN Append(s, e)
      OBVIOUS
    <2>2. \A i \in DOMAIN s : i \in DOMAIN Append(s, e) /\ Append(s, e)[i] = s[i]
      OBVIOUS
    <2>3. QED
      BY <2>1, <2>2 DEF Range
  <1>3. QED
    BY <1>1, <1>2

\* A non-empty sequence consists of its head and its tail.
LEMMA RangeHeadTail ==
    ASSUME NEW S, NEW s \in Seq(S), s # <<>>
    PROVE  /\ Head(s) \in S /\ Tail(s) \in Seq(S)
           /\ Len(Tail(s)) = Len(s) - 1
           /\ Range(s) = Range(Tail(s)) \cup {Head(s)}
  <1>1. /\ Head(s) = s[1] /\ 1 \in DOMAIN s /\ Head(s) \in S
        /\ Tail(s) \in Seq(S) /\ Len(Tail(s)) = Len(s) - 1
        /\ \A i \in DOMAIN Tail(s) : i + 1 \in DOMAIN s /\ Tail(s)[i] = s[i + 1]
        /\ \A i \in DOMAIN s : i = 1 \/ (i - 1 \in DOMAIN Tail(s) /\ Tail(s)[i - 1] = s[i])
    OBVIOUS
  <1>2. Range(s) \subseteq Range(Tail(s)) \cup {Head(s)}
    <2> SUFFICES ASSUME NEW i \in DOMAIN s
                 PROVE  s[i] \in Range(Tail(s)) \cup {Head(s)}
      BY DEF Range
    <2>1. CASE i = 1
      BY <1>1, <2>1
    <2>2. CASE i - 1 \in DOMAIN Tail(s) /\ Tail(s)[i - 1] = s[i]
      BY <2>2 DEF Range
    <2>3. QED
      BY <1>1, <2>1, <2>2
  <1>3. Range(Tail(s)) \cup {Head(s)} \subseteq Range(s)
    <2>1. Head(s) \in Range(s)
      BY <1>1 DEF Range
    <2>2. ASSUME NEW i \in DOMAIN Tail(s) PROVE Tail(s)[i] \in Range(s)
      BY <1>1 DEF Range
    <2>3. QED
      BY <2>1, <2>2 DEF Range
  <1>4. QED
    BY <1>1, <1>2, <1>3

\* Appending a value that does not occur keeps a sequence distinct.
LEMMA DistinctAppend ==
    ASSUME NEW S, NEW s \in Seq(S), NEW e \in S, Distinct(s), e \notin Range(s) \ {0}
    PROVE  Distinct(Append(s, e))
  <1>1. /\ Len(Append(s, e)) = Len(s) + 1 /\ Len(s) \in Nat
        /\ \A i \in 1 .. Len(s) : Append(s, e)[i] = s[i] /\ s[i] \in Range(s)
        /\ Append(s, e)[Len(s) + 1] = e
    BY DEF Range
  <1>2. \A i \in 1 .. Len(s) : s[i] = e => e = 0
    BY <1>1
  <1>3. QED
    BY <1>1, <1>2 DEF Distinct

\* The tail of a distinct sequence is distinct and lacks the head.
LEMMA DistinctTail ==
    ASSUME NEW S, NEW s \in Seq(S), s # <<>>, Distinct(s)
    PROVE  Distinct(Tail(s)) /\ Head(s) \notin Range(Tail(s)) \ {0}
  <1>1. /\ Len(s) \in Nat /\ Len(s) > 0 /\ Len(Tail(s)) = Len(s) - 1 /\ Head(s) = s[1]
        /\ DOMAIN Tail(s) = 1 .. Len(s) - 1
        /\ \A i \in 1 .. Len(s) - 1 : Tail(s)[i] = s[i + 1]
    OBVIOUS
  <1>2. Distinct(Tail(s))
    BY <1>1 DEF Distinct
  <1>3. \A i \in 1 .. Len(s) - 1 : Tail(s)[i] = s[1] => s[1] = 0
    BY <1>1 DEF Distinct
  <1>4. QED
    BY <1>1, <1>2, <1>3 DEF Range

\* A later element of a kind is greater than an earlier one of that kind.
Increasing(q, Of) == \A i, j \in 1 .. Len(q) : i < j /\ q[i] \in Of /\ q[j] \in Of => q[i] < q[j]

\* Appending what is greater than all, or of another kind, keeps a sequence increasing.
LEMMA IncreasingAppend ==
    ASSUME NEW S, NEW Of, NEW s \in Seq(S), NEW e \in S, Increasing(s, Of),
           e \in Of => \A x \in Range(s) \cap Of : x < e
    PROVE  Increasing(Append(s, e), Of)
  <1>1. /\ Len(Append(s, e)) = Len(s) + 1 /\ Len(s) \in Nat
        /\ \A i \in 1 .. Len(s) : Append(s, e)[i] = s[i] /\ s[i] \in Range(s)
        /\ Append(s, e)[Len(s) + 1] = e
    BY DEF Range
  <1>2. QED
    BY <1>1 DEF Increasing

\* The head of an increasing sequence is less than the rest, which is increasing.
LEMMA IncreasingTail ==
    ASSUME NEW S, NEW Of, NEW s \in Seq(S), s # <<>>, Increasing(s, Of)
    PROVE  /\ Increasing(Tail(s), Of)
           /\ Head(s) \in Of => \A x \in Range(Tail(s)) \cap Of : Head(s) < x
  <1>1. /\ Len(s) \in Nat /\ Len(s) > 0 /\ Len(Tail(s)) = Len(s) - 1 /\ Head(s) = s[1]
        /\ DOMAIN Tail(s) = 1 .. Len(s) - 1
        /\ \A i \in 1 .. Len(s) - 1 : Tail(s)[i] = s[i + 1]
    OBVIOUS
  <1>2. Increasing(Tail(s), Of)
    BY <1>1 DEF Increasing
  <1>3. \A i \in 1 .. Len(s) - 1 : s[1] \in Of /\ Tail(s)[i] \in Of => s[1] < Tail(s)[i]
    BY <1>1 DEF Increasing
  <1>4. QED
    BY <1>1, <1>2, <1>3 DEF Range

\* Only the kind of the elements matters.
LEMMA IncreasingOf ==
    ASSUME NEW S, NEW Of, NEW Of2, NEW s \in Seq(S), Increasing(s, Of),
           Range(s) \cap Of2 \subseteq Of
    PROVE  Increasing(s, Of2)
  <1>1. \A i \in 1 .. Len(s) : s[i] \in Range(s)
    BY DEF Range
  <1>2. QED
    BY <1>1 DEF Increasing
-----------------------------------------------------------------------------
(* Induction, as a fact about sets of numbers.                               *)

LEMMA LeastExists ==
    ASSUME NEW S \in SUBSET Nat, S # {}
    PROVE  \E i \in S : \A j \in S : i <= j
  <1> DEFINE R == OpToRel(<, Nat)
  <1>1. \A x, y \in Nat : <<x, y>> \in R <=> x < y
    BY DEF OpToRel
  <1>2. PICK i \in S : \A j \in S : ~ (<<j, i>> \in R)
    <2>1. IsWellFoundedOn(R, Nat)
      BY NatLessThanWellFounded
    <2> HIDE DEF R
    <2>2. QED
      BY <2>1, WFMin
  <1> HIDE DEF R
  <1>3. \A j \in S : i <= j
    <2> TAKE j \in S
    <2>1. i \in Nat /\ j \in Nat /\ ~ (j < i)
      BY <1>1, <1>2
    <2>2. QED
      BY <2>1
  <1>4. QED
    BY <1>3

LEMMA Induction ==
    ASSUME NEW S, 0 \in S, \A n \in Nat : n \in S => n + 1 \in S
    PROVE  Nat \subseteq S
  <1> DEFINE T == Nat \ S
  <1>1. SUFFICES ASSUME T # {} PROVE FALSE
    OBVIOUS
  <1>2. PICK i \in T : \A j \in T : i <= j
    <2>1. T \in SUBSET Nat
      OBVIOUS
    <2> HIDE DEF T
    <2>2. QED
      BY <1>1, <2>1, LeastExists
  <1>3. i \in Nat /\ i # 0 /\ i - 1 \in Nat /\ i - 1 \notin T
    BY <1>2
  <1>4. QED
    BY <1>2, <1>3

\* The values of a loop over 1 .. n that starts from c and goes on by step.
Loops(f, V, c, step, n) ==
    f \in [0 .. n -> V] /\ f[0] = c /\ \A i \in 1 .. n : f[i] = step[i][f[i - 1]]

LEMMA LoopValues ==
    ASSUME NEW V, NEW c \in V, NEW step \in [Nat -> [V -> V]], NEW n \in Nat
    PROVE  \E f : Loops(f, V, c, step, n)
  <1> DEFINE S == {m \in Nat : \E f \in [0 .. m -> V] :
                       f[0] = c /\ \A i \in 1 .. m : f[i] = step[i][f[i - 1]]}
  <1>1. 0 \in S
    <2> DEFINE f == [i \in 0 .. 0 |-> c]
    <2>1. f \in [0 .. 0 -> V] /\ f[0] = c /\ \A i \in 1 .. 0 : f[i] = step[i][f[i - 1]]
      OBVIOUS
    <2> HIDE DEF f
    <2>2. QED
      BY <2>1
  <1>2. ASSUME NEW m \in Nat, m \in S PROVE m + 1 \in S
    <2>1. PICK f \in [0 .. m -> V] : f[0] = c /\ \A i \in 1 .. m : f[i] = step[i][f[i - 1]]
      BY <1>2
    <2> DEFINE g == [i \in 0 .. m + 1 |-> IF i = m + 1 THEN step[m + 1][f[m]] ELSE f[i]]
    <2>2. f[m] \in V /\ step[m + 1] \in [V -> V] /\ step[m + 1][f[m]] \in V
      <3>1. m + 1 \in Nat /\ m \in 0 .. m
        OBVIOUS
      <3>2. f[m] \in V /\ step[m + 1] \in [V -> V]
        BY <3>1
      <3>3. QED
        BY <3>2
    <2>3. \A i \in 0 .. m : g[i] = f[i] /\ f[i] \in V
      OBVIOUS
    <2>4. g[m + 1] = step[m + 1][f[m]]
      OBVIOUS
    <2>5. g \in [0 .. m + 1 -> V]
      <3>1. \A i \in 0 .. m + 1 : i = m + 1 \/ i \in 0 .. m
        OBVIOUS
      <3>2. QED
        BY <2>2, <2>3, <3>1
    <2> HIDE DEF g
    <2>6. g[0] = c
      BY <2>1, <2>3
    <2>7. ASSUME NEW i \in 1 .. m + 1 PROVE g[i] = step[i][g[i - 1]]
      <3>1. CASE i = m + 1
        <4>1. i - 1 = m /\ m \in 0 .. m
          BY <3>1
        <4>2. QED
          BY <2>3, <2>4, <3>1, <4>1
      <3>2. CASE i \in 1 .. m
        <4>1. i \in 0 .. m /\ i - 1 \in 0 .. m
          BY <3>2
        <4>2. QED
          BY <2>1, <2>3, <3>2, <4>1
      <3>3. QED
        BY <3>1, <3>2
    <2>8. QED
      BY <2>5, <2>6, <2>7
  <1>3. Nat \subseteq S
    <2> HIDE DEF S
    <2>1. QED
      BY <1>1, <1>2, Induction
  <1>4. QED
    BY <1>3 DEF Loops

\* A function defined by recursion exists if every call lowers a bounded measure.
Recurs(f, D, Base, c, step, next) ==
    \A x \in D : f[x] = IF x \in Base THEN c[x] ELSE step[x][f[next[x]]]

LEMMA RecursionExists ==
    ASSUME NEW D, NEW V, NEW Base, NEW N \in Nat, NEW mu \in [D -> 0 .. N], NEW c \in [D -> V],
           NEW step \in [D -> [V -> V]], NEW next \in [D -> D],
           \A x \in D \ Base : mu[next[x]] < mu[x]
    PROVE  \E f \in [D -> V] : Recurs(f, D, Base, c, step, next)
  <1> DEFINE To(f, x) == IF x \in Base THEN c[x] ELSE step[x][f[next[x]]]
             S == {d \in Nat : \E f \in [D -> V] : \A x \in D : mu[x] < d => f[x] = To(f, x)}
  <1>1. 0 \in S
    <2>1. \A x \in D : ~(mu[x] < 0)
      OBVIOUS
    <2>2. QED
      BY <2>1
  <1>2. ASSUME NEW d \in Nat, d \in S PROVE d + 1 \in S
    <2>1. PICK f \in [D -> V] : \A x \in D : mu[x] < d => f[x] = To(f, x)
      BY <1>2
    <2> DEFINE g == [x \in D |-> To(f, x)]
    <2>2. \A x \in D : c[x] \in V /\ next[x] \in D /\ step[x] \in [V -> V] /\ f[next[x]] \in V
      OBVIOUS
    <2>3. g \in [D -> V]
      BY <2>2
    <2>4. ASSUME NEW x \in D, mu[x] < d + 1 PROVE g[x] = To(g, x)
      <3>1. CASE x \in Base
        BY <3>1
      <3>2. CASE x \notin Base
        <4>1. next[x] \in D /\ mu[next[x]] \in Nat /\ mu[x] \in Nat /\ mu[next[x]] < mu[x]
          BY <2>2, <3>2
        <4>2. mu[next[x]] < d
          BY <2>4, <4>1
        <4>3. f[next[x]] = To(f, next[x])
          BY <2>1, <4>1, <4>2
        <4>4. g[next[x]] = To(f, next[x]) /\ g[x] = To(f, x)
          BY <4>1
        <4> HIDE DEF g
        <4>5. QED
          BY <3>2, <4>3, <4>4
      <3>3. QED
        BY <3>1, <3>2
    <2> HIDE DEF g, To
    <2>5. QED
      BY <2>3, <2>4
  <1>3. N + 1 \in S
    <2> HIDE DEF S
    <2>1. Nat \subseteq S
      BY <1>1, <1>2, Induction
    <2>2. QED
      BY <2>1
  <1>4. PICK f \in [D -> V] : \A x \in D : mu[x] < N + 1 => f[x] = To(f, x)
    BY <1>3
  <1>5. \A x \in D : mu[x] < N + 1
    OBVIOUS
  <1>6. QED
    BY <1>4, <1>5 DEF Recurs
=============================================================================
