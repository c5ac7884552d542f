------------------------- MODULE BreakpointsProofs -------------------------
(***************************************************************************)
(* Proofs about Breakpoints, for any kinds, keys, filters and options, and  *)
(* any number of breakpoints, hits and events on their way.                 *)
(***************************************************************************)
EXTENDS Breakpoints, SequenceFacts, FiniteSetTheorems, WellFoundedInduction

Origins == TableKinds \cup {"exception", "hint", "console"}
Conditions == [op : Operators, n : Nat]
Info ==
    [kind : TableKinds \cup {"exception"}, name : Filters \cup {""},
     hit : Conditions, log : BOOLEAN, py : BOOLEAN, native : BOOLEAN,
     hit_count : Nat, exclusions : SUBSET Symbols, passed : Nat, stops : Nat]
Events == [type : {"added", "resolved", "removed"}, id : Nat]
Known == 1 .. Len(origin)

\* The shape of the state that TypeOK leaves open.
Shapes ==
    /\ origin \in Seq(Origins) /\ Len(origin) <= MaxIds
    /\ alive \subseteq Known /\ armed \subseteq Known /\ conditioned \subseteq Known
    /\ table \in [Kinds -> UNION {[K -> Nat] : K \in SUBSET Keys}]
    /\ \A k \in Kinds : \A key \in DOMAIN table[k] : table[k][key] \in Known
    /\ infos \in [DOMAIN infos -> Info] /\ DOMAIN infos \subseteq Known
    /\ \A id \in DOMAIN infos : infos[id].hit_count <= MaxHits
    /\ events \in Seq(Events) /\ \A e \in Range(events) : e.id \in Known
    /\ hit \in 0 .. Len(origin) /\ stop \in 0 .. Len(origin)
    /\ panicked \in BOOLEAN
    /\ notified \subseteq [reason : {"new", "changed", "removed"}, id : Known]
    /\ dropped \subseteq Known /\ missing \subseteq Kinds \X Keys /\ stray \subseteq Known

\* Each table and the exception infos name breakpoints made for them.
OwnKind ==
    /\ \A k \in Kinds : \A key \in DOMAIN table[k] : origin[table[k][key]] = k
    /\ \A id \in DOMAIN infos : infos[id].kind = "exception" => origin[id] = "exception"

\* A breakpoint that the session made is tracked as long as LLDB has it, and a hint
\* is gone when the handler that made it returns.
OwnTracked ==
    \A id \in alive : origin[id] # "hint" /\ (origin[id] # "console" => id \in DOMAIN infos)

\* What is reported, or has been announced, as removed is gone.
RemovedAreDead ==
    /\ \A e \in Range(events) : e.type = "removed" => e.id \notin alive
    /\ \A n \in notified : n.reason = "removed" => n.id \notin alive

\* What the client had deleted is gone, and forgotten if its kind is.
DroppedAreDead ==
    \A id \in dropped : /\ id \notin alive
                        /\ origin[id] \in {"source", "exception"} => id \notin DOMAIN infos

\* What breakpoint_infos does not know yet, or knows no better, is on its way.
NewsIsComing ==
    ~Lossy => /\ \A id \in alive \ DOMAIN infos : Event("added", id) \in Range(events)
              /\ \A id \in DOMAIN infos \ alive : Event("removed", id) \in Range(events)

TableInv == Shapes /\ OwnKind /\ TableIsAlive
TrackInv == TableInv /\ OwnTracked /\ RemovedAreDead /\ CallbackIsTracked
BookInv ==
    TrackInv /\ DroppedAreDead /\ NewsIsComing /\ NewOnlyForConsole /\ QuietRemoval /\ NoOrphans

-----------------------------------------------------------------------------
(* Facts about numbers and sequences.                                        *)

\* How many elements of a set precede a position, and whether it is one of them.
Below(S, i) == Cardinality({x \in S : x < i})
One(S, i) == IF i \in S THEN 1 ELSE 0

LEMMA CountBelow ==
    ASSUME NEW n \in Nat, NEW S \in SUBSET (1 .. n)
    PROVE  /\ Cardinality(S) \in Nat
           /\ \A i \in 1 .. n : /\ Below(S, i) \in Nat
                                /\ Below(S, i) + One(S, i) <= Cardinality(S)
           /\ \A i, j \in 1 .. n : i < j => Below(S, i) + One(S, i) <= Below(S, j)
  <1>n. \A x \in S : x \in Nat
    OBVIOUS
  <1>1. ASSUME NEW T \in SUBSET S
        PROVE  /\ IsFiniteSet(T) /\ Cardinality(T) \in Nat
               /\ \A i \in S \ T : Cardinality(T \cup {i}) = Cardinality(T) + 1
    <2>1. IsFiniteSet(1 .. n) /\ T \in SUBSET (1 .. n)
      BY FS_Interval
    <2>2. IsFiniteSet(T)
      BY <2>1, FS_Subset
    <2>3. QED
      BY <2>2, FS_CardinalityType, FS_AddElement
  <1>2. ASSUME NEW T \in SUBSET S, NEW U \in SUBSET T
        PROVE  Cardinality(U) <= Cardinality(T)
    BY <1>1, FS_Subset
  <1>3. ASSUME NEW i \in 1 .. n, NEW T \in SUBSET S, {x \in S : x <= i} \subseteq T
        PROVE  Below(S, i) + One(S, i) <= Cardinality(T)
    <2> DEFINE B == {x \in S : x < i}
    <2>1. B \in SUBSET S /\ B \in SUBSET T /\ i \notin B
      <3>1. \A x \in B : x \in S /\ x <= i /\ x # i
        BY <1>n
      <3>2. B \subseteq {x \in S : x <= i}
        BY <3>1
      <3>3. B \subseteq T
        BY <1>3, <3>2
      <3>4. QED
        BY <3>1, <3>3
    <2>2. CASE i \in S
      <3>1. B \cup {i} \in SUBSET T
        BY <1>3, <2>1, <2>2
      <3>2. Cardinality(B \cup {i}) = Cardinality(B) + 1
        BY <1>1, <2>1, <2>2
      <3>3. Cardinality(B \cup {i}) <= Cardinality(T)
        BY <1>2, <3>1
      <3>4. QED
        BY <2>2, <3>2, <3>3 DEF Below, One
    <2>3. CASE i \notin S
      <3>1. Cardinality(B) <= Cardinality(T) /\ Cardinality(B) \in Nat
        BY <1>1, <1>2, <2>1
      <3>2. QED
        BY <2>3, <3>1 DEF Below, One
    <2>4. QED
      BY <2>2, <2>3
  <1>4. ASSUME NEW i \in 1 .. n
        PROVE  Below(S, i) \in Nat /\ Below(S, i) + One(S, i) <= Cardinality(S)
    <2>1. {x \in S : x < i} \in SUBSET S /\ {x \in S : x <= i} \subseteq S
      OBVIOUS
    <2>2. QED
      BY <1>1, <1>3, <2>1 DEF Below
  <1>5. ASSUME NEW i \in 1 .. n, NEW j \in 1 .. n, i < j
        PROVE  Below(S, i) + One(S, i) <= Below(S, j)
    <2>1. {x \in S : x < j} \in SUBSET S /\ {x \in S : x <= i} \subseteq {x \in S : x < j}
      <3>1. \A x \in S : x <= i => x < j
        BY <1>n, <1>5
      <3>2. QED
        BY <3>1
    <2>2. QED
      BY <1>3, <2>1 DEF Below
  <1>6. QED
    BY <1>1, <1>4, <1>5

\* A set of numbers up to n has a greatest element.
LEMMA GreatestExists ==
    ASSUME NEW n \in Nat, NEW S \in SUBSET (1 .. n), S # {}
    PROVE  \E i \in S : \A j \in S : j <= i
  <1> DEFINE R == OpToRel(<, Nat)
             T == {k \in Nat : n - k \in S}
  <1>1. \A x, y \in Nat : <<x, y>> \in R <=> x < y
    BY DEF OpToRel
  <1>2. T \subseteq Nat /\ T # {}
    <2>1. PICK s \in S : TRUE
      OBVIOUS
    <2>2. n - s \in Nat /\ n - (n - s) = s
      BY <2>1
    <2>3. QED
      BY <2>1, <2>2
  <1>3. PICK x \in T : \A y \in T : ~ (<<y, x>> \in R)
    <2>1. IsWellFoundedOn(R, Nat)
      BY NatLessThanWellFounded
    <2> HIDE DEF R, T
    <2>2. QED
      BY <1>2, <2>1, WFMin
  <1>4. \A j \in S : j <= n - x
    <2> TAKE j \in S
    <2>1. n - j \in Nat /\ n - (n - j) = j /\ j \in Nat
      OBVIOUS
    <2>2. n - j \in T
      BY <2>1
    <2>3. ~ (n - j < x)
      BY <1>1, <1>3, <2>1, <2>2
    <2>4. QED
      BY <2>1, <2>3
  <1>5. n - x \in S
    BY <1>3
  <1>6. QED
    BY <1>4, <1>5

\* LastAt finds a position that has the value.
LEMMA LastFound ==
    ASSUME NEW n \in Nat, NEW s, DOMAIN s = 1 .. n, NEW v \in Range(s)
    PROVE  LastAt(s, v) \in DOMAIN s /\ s[LastAt(s, v)] = v
  <1> DEFINE S == {i \in 1 .. n : s[i] = v}
  <1>1. S # {}
    BY DEF Range
  <1>2. \E i \in S : \A j \in S : j <= i
    BY <1>1, GreatestExists
  <1>3. \E i \in DOMAIN s : s[i] = v /\ \A j \in DOMAIN s : s[j] = v => j <= i
    BY <1>2
  <1>4. QED
    BY <1>3 DEF LastAt

\* A function on 1 .. n is a sequence of length n.
LEMMA FunctionIsSequence ==
    ASSUME NEW S, NEW n \in Nat, NEW f \in [1 .. n -> S]
    PROVE  f \in Seq(S) /\ Len(f) = n
  OBVIOUS

\* The elements of a concatenation.
LEMMA ConcatAt ==
    ASSUME NEW S, NEW s \in Seq(S), NEW t \in Seq(S)
    PROVE  /\ s \o t \in Seq(S) /\ Len(s \o t) = Len(s) + Len(t)
           /\ \A i \in 1 .. Len(s) : (s \o t)[i] = s[i]
           /\ \A i \in 1 .. Len(t) : (s \o t)[Len(s) + i] = t[i]
  OBVIOUS

\* The range of a concatenation.
LEMMA RangeConcat ==
    ASSUME NEW S, NEW s \in Seq(S), NEW t \in Seq(S)
    PROVE  s \o t \in Seq(S) /\ Range(s \o t) = Range(s) \cup Range(t)
  <1>1. /\ s \o t \in Seq(S) /\ DOMAIN (s \o t) = 1 .. Len(s) + Len(t)
        /\ Len(s) \in Nat /\ Len(t) \in Nat
        /\ DOMAIN s = 1 .. Len(s) /\ DOMAIN t = 1 .. Len(t)
        /\ \A i \in 1 .. Len(s) : (s \o t)[i] = s[i]
        /\ \A i \in 1 .. Len(t) : (s \o t)[Len(s) + i] = t[i]
    OBVIOUS
  <1>2. ASSUME NEW i \in DOMAIN (s \o t) PROVE (s \o t)[i] \in Range(s) \cup Range(t)
    <2>1. CASE i <= Len(s)
      BY <1>1, <2>1 DEF Range
    <2>2. CASE i > Len(s)
      <3>1. i - Len(s) \in DOMAIN t /\ i = Len(s) + (i - Len(s))
        BY <1>1, <2>2
      <3>2. (s \o t)[i] = t[i - Len(s)]
        BY <1>1, <3>1
      <3>3. QED
        BY <3>1, <3>2 DEF Range
    <2>3. QED
      BY <1>1, <2>1, <2>2
  <1>3. ASSUME NEW i \in DOMAIN s PROVE s[i] \in Range(s \o t)
    <2>1. i \in DOMAIN (s \o t)
      BY <1>1
    <2>2. QED
      BY <1>1, <2>1 DEF Range
  <1>4. ASSUME NEW i \in DOMAIN t PROVE t[i] \in Range(s \o t)
    <2>1. Len(s) + i \in DOMAIN (s \o t)
      BY <1>1
    <2>2. QED
      BY <1>1, <2>1 DEF Range
  <1>5. QED
    BY <1>1, <1>2, <1>3, <1>4 DEF Range

-----------------------------------------------------------------------------
(* What placing breakpoints does to the books.                               *)

\* The positions of a request of n breakpoints.
Loop(n, fresh, hints) ==
    n \in Nat /\ fresh \in SUBSET (1 .. n) /\ hints \in SUBSET (1 .. n)

\* The breakpoint at each of them.
Numbered(n, ids, fresh, hints) ==
    ids \in [1 .. n -> Nat] /\ \A i \in fresh : ids[i] = NewId(i, fresh, hints)

\* The number of the last breakpoint that the request creates.
Top(fresh, hints) == Len(origin) + Cardinality(fresh) + Cardinality(hints)

\* LLDB's numbers are new, and each is used once.
LEMMA Numbering ==
    ASSUME Shapes, NEW n, NEW fresh, NEW hints, Loop(n, fresh, hints)
    PROVE  /\ Top(fresh, hints) \in Nat /\ Len(origin) \in Nat
           /\ \A i \in fresh : NewId(i, fresh, hints) \in Len(origin) + 1 .. Top(fresh, hints)
           /\ \A h \in hints : HintId(h, fresh, hints) \in Len(origin) + 1 .. Top(fresh, hints)
           /\ \A i, j \in fresh : NewId(i, fresh, hints) = NewId(j, fresh, hints) => i = j
           /\ \A i \in fresh, h \in hints : NewId(i, fresh, hints) # HintId(h, fresh, hints)
  <1>l. n \in Nat /\ fresh \in SUBSET (1 .. n) /\ hints \in SUBSET (1 .. n) /\ Len(origin) \in Nat
    BY DEF Loop, Shapes
  <1>1. \A i \in 1 .. n : /\ Below(fresh, i) \in Nat /\ Below(hints, i) \in Nat
                          /\ One(fresh, i) \in Nat /\ One(hints, i) \in Nat
                          /\ Below(fresh, i) + One(fresh, i) <= Cardinality(fresh)
                          /\ Below(hints, i) + One(hints, i) <= Cardinality(hints)
    BY <1>l, CountBelow DEF One
  <1>2. /\ Cardinality(fresh) \in Nat /\ Cardinality(hints) \in Nat
        /\ \A i, j \in 1 .. n : i < j => /\ Below(fresh, i) + One(fresh, i) <= Below(fresh, j)
                                         /\ Below(hints, i) + One(hints, i) <= Below(hints, j)
    BY <1>l, CountBelow
  <1>3. \A i \in 1 .. n :
            /\ NewId(i, fresh, hints) = Len(origin) + 1 + Below(fresh, i) + Below(hints, i)
            /\ HintId(i, fresh, hints)
                  = Len(origin) + 1 + Below(fresh, i) + Below(hints, i) + One(fresh, i)
    BY DEF NewId, HintId, Below, One
  <1>4. /\ \A i \in fresh : One(fresh, i) = 1 /\ i \in 1 .. n
        /\ \A i \in hints : One(hints, i) = 1 /\ i \in 1 .. n
    BY <1>l DEF One
  <1>5. ASSUME NEW i \in 1 .. n, NEW j \in 1 .. n, i < j
        PROVE  /\ HintId(i, fresh, hints) + One(hints, i) <= NewId(j, fresh, hints)
               /\ HintId(j, fresh, hints) >= NewId(j, fresh, hints)
               /\ NewId(i, fresh, hints) + One(fresh, i) <= NewId(j, fresh, hints)
    <2>1. /\ Below(fresh, i) \in Nat /\ Below(hints, i) \in Nat
          /\ Below(fresh, j) \in Nat /\ Below(hints, j) \in Nat
          /\ One(fresh, i) \in Nat /\ One(hints, i) \in Nat /\ One(fresh, j) \in Nat
      BY <1>1
    <2>m. /\ Below(fresh, i) + One(fresh, i) <= Below(fresh, j)
          /\ Below(hints, i) + One(hints, i) <= Below(hints, j)
      BY <1>2, <1>5
    <2>2. /\ NewId(i, fresh, hints) = Len(origin) + 1 + Below(fresh, i) + Below(hints, i)
          /\ NewId(j, fresh, hints) = Len(origin) + 1 + Below(fresh, j) + Below(hints, j)
          /\ HintId(i, fresh, hints)
                = Len(origin) + 1 + Below(fresh, i) + Below(hints, i) + One(fresh, i)
          /\ HintId(j, fresh, hints)
                = Len(origin) + 1 + Below(fresh, j) + Below(hints, j) + One(fresh, j)
      BY <1>3
    <2>3. \A l, a, b, x, y, c, d, u \in Nat :
              a + c <= x /\ b + d <= y =>
                 /\ (l + 1 + a + b + c) + d <= l + 1 + x + y
                 /\ (l + 1 + x + y + u) >= l + 1 + x + y
                 /\ (l + 1 + a + b) + c <= l + 1 + x + y
      OBVIOUS
    <2>4. /\ (Len(origin) + 1 + Below(fresh, i) + Below(hints, i) + One(fresh, i)) + One(hints, i)
                 <= Len(origin) + 1 + Below(fresh, j) + Below(hints, j)
          /\ (Len(origin) + 1 + Below(fresh, j) + Below(hints, j) + One(fresh, j))
                 >= Len(origin) + 1 + Below(fresh, j) + Below(hints, j)
          /\ (Len(origin) + 1 + Below(fresh, i) + Below(hints, i)) + One(fresh, i)
                 <= Len(origin) + 1 + Below(fresh, j) + Below(hints, j)
      BY <1>l, <2>1, <2>m, <2>3
    <2>5. QED
      BY <2>2, <2>4
  <1>6. ASSUME NEW i \in 1 .. n
        PROVE  /\ NewId(i, fresh, hints) \in Nat
               /\ NewId(i, fresh, hints) >= Len(origin) + 1
               /\ HintId(i, fresh, hints) = NewId(i, fresh, hints) + One(fresh, i)
               /\ NewId(i, fresh, hints) + One(fresh, i) + One(hints, i) <= Top(fresh, hints) + 1
    <2>1. /\ Below(fresh, i) \in Nat /\ Below(hints, i) \in Nat
          /\ One(fresh, i) \in Nat /\ One(hints, i) \in Nat
          /\ Below(fresh, i) + One(fresh, i) <= Cardinality(fresh)
          /\ Below(hints, i) + One(hints, i) <= Cardinality(hints)
          /\ Cardinality(fresh) \in Nat /\ Cardinality(hints) \in Nat
      BY <1>1, <1>2
    <2>2. /\ NewId(i, fresh, hints) = Len(origin) + 1 + Below(fresh, i) + Below(hints, i)
          /\ HintId(i, fresh, hints)
                = Len(origin) + 1 + Below(fresh, i) + Below(hints, i) + One(fresh, i)
      BY <1>3
    <2>3. /\ NewId(i, fresh, hints) \in Nat
          /\ NewId(i, fresh, hints) >= Len(origin) + 1
          /\ HintId(i, fresh, hints) = NewId(i, fresh, hints) + One(fresh, i)
      BY <1>l, <2>1, <2>2
    <2>4. \A l, a, b, c, d, e, f \in Nat :
              a + c <= e /\ b + d <= f => (l + 1 + a + b) + c + d <= (l + e + f) + 1
      OBVIOUS
    <2>5. QED
      BY <1>l, <2>1, <2>2, <2>3, <2>4 DEF Top
  <1>t. Top(fresh, hints) \in Nat
    BY <1>l, <1>2 DEF Top
  <1>7. ASSUME NEW i \in fresh
        PROVE  /\ NewId(i, fresh, hints) \in Len(origin) + 1 .. Top(fresh, hints)
               /\ \A j \in fresh : i < j => NewId(i, fresh, hints) # NewId(j, fresh, hints)
    <2>1. i \in 1 .. n /\ One(fresh, i) = 1 /\ One(hints, i) \in Nat
      BY <1>1, <1>4
    <2>2. NewId(i, fresh, hints) \in Len(origin) + 1 .. Top(fresh, hints)
      BY <1>l, <1>t, <1>6, <2>1
    <2>3. ASSUME NEW j \in fresh, i < j PROVE NewId(i, fresh, hints) # NewId(j, fresh, hints)
      <3>1. NewId(i, fresh, hints) + 1 <= NewId(j, fresh, hints)
        BY <1>4, <1>5, <2>1, <2>3
      <3>2. NewId(i, fresh, hints) \in Nat /\ NewId(j, fresh, hints) \in Nat
        BY <1>4, <1>6
      <3>3. QED
        BY <3>1, <3>2
    <2>4. QED
      BY <2>2, <2>3
  <1>8. ASSUME NEW h \in hints
        PROVE  /\ HintId(h, fresh, hints) \in Len(origin) + 1 .. Top(fresh, hints)
               /\ \A i \in fresh : NewId(i, fresh, hints) # HintId(h, fresh, hints)
    <2>0. h \in 1 .. n /\ One(hints, h) = 1 /\ One(fresh, h) \in Nat
      BY <1>1, <1>4
    <2>1. /\ h \in 1 .. n /\ One(hints, h) = 1 /\ One(fresh, h) \in Nat
          /\ NewId(h, fresh, hints) \in Nat /\ HintId(h, fresh, hints) \in Nat
      BY <2>0, <1>6
    <2>2. HintId(h, fresh, hints) \in Len(origin) + 1 .. Top(fresh, hints)
      BY <1>l, <1>t, <1>6, <2>1
    <2>3. ASSUME NEW i \in fresh PROVE NewId(i, fresh, hints) # HintId(h, fresh, hints)
      <3>1. i \in 1 .. n /\ One(fresh, i) = 1 /\ NewId(i, fresh, hints) \in Nat
        BY <1>4, <1>6
      <3>2. CASE i = h
        BY <1>6, <3>1, <3>2
      <3>3. CASE i < h
        BY <1>5, <2>1, <3>1, <3>3
      <3>4. CASE h < i
        BY <1>5, <2>1, <3>1, <3>4
      <3>5. QED
        BY <1>l, <2>1, <3>1, <3>2, <3>3, <3>4
    <2>4. QED
      BY <2>2, <2>3
  <1>9. QED
    BY <1>l, <1>t, <1>4, <1>7, <1>8

\* make_bp_info yields an info, with its counts at zero.
Placeable == TableKinds \cup {"exception"}
InfoFor(info, kind) ==
    /\ info \in Info /\ info.kind = kind
    /\ info.hit_count = 0 /\ info.passed = 0 /\ info.stops = 0

LEMMA InfoMade ==
    ASSUME NEW id, NEW kind, kind \in Placeable, NEW name \in Filters \cup {""}, NEW o \in Options
    PROVE  InfoFor(MakeBpInfo(id, kind, name, Effective(kind, o)), kind)
  <1>1. o \in [hit : Conditions, log : BOOLEAN, py : BOOLEAN, native : BOOLEAN]
    BY BreakpointsAssumption DEF Conditions
  <1>2. Effective(kind, o) \in [hit : Conditions, log : BOOLEAN, py : BOOLEAN, native : BOOLEAN]
    BY <1>1 DEF Effective, NoHitCondition, Conditions, Operators
  <1>3. QED
    BY <1>2 DEF MakeBpInfo, Info, InfoFor, Placeable

(***************************************************************************)
(* A set request in terms of sets of breakpoints: placed are the ones that  *)
(* were asked for, new those among them that did not exist.                 *)
(***************************************************************************)
OriginsGrow(kind, new) ==
    /\ origin' \in Seq(Origins) /\ Len(origin') >= Len(origin)
    /\ \A id \in Known : origin'[id] = origin[id]
    /\ \A id \in new : id \in Len(origin) + 1 .. Len(origin') /\ origin'[id] = kind

InfosFollow(kind, placed, forgotten) ==
    /\ infos' \in [(DOMAIN infos \ forgotten) \cup placed -> Info]
    /\ \A id \in placed : /\ infos'[id].kind = kind /\ infos'[id].hit_count = 0
                          /\ infos'[id].passed = 0 /\ infos'[id].stops = 0
    /\ \A id \in DOMAIN infos' \ placed : infos'[id] = infos[id]

\* The transient breakpoints of the hints have come and gone.
EventsReport(new, gone) ==
    /\ events' \in Seq(Events)
    /\ \E transient \in SUBSET ((Len(origin) + 1 .. Len(origin')) \ new) :
          Range(events') = Range(events)
                            \cup {Event("added", id) : id \in new \cup transient}
                            \cup {Event("removed", id) : id \in transient \cup gone}

Placed(kind, placed, new, gone, forgotten) ==
    /\ OriginsGrow(kind, new) /\ Len(origin') <= MaxIds
    /\ new \subseteq placed /\ placed \subseteq alive \cup new
    /\ alive' = (alive \cup new) \ gone
    /\ armed' = armed \cup placed
    /\ conditioned \subseteq conditioned' /\ conditioned' \subseteq conditioned \cup placed
    /\ InfosFollow(kind, placed, forgotten)
    /\ EventsReport(new, gone \cap alive)
    /\ dropped' = dropped \cup (gone \cap alive)

\* The breakpoints asked for: a filter names those of an exception request.
Asked(n, kind, reqs) ==
    /\ n \in Nat /\ DOMAIN reqs = 1 .. n
    /\ \A i \in 1 .. n : reqs[i].opts \in Options /\ (kind = "exception" => reqs[i].key \in Filters)

\* The breakpoints that a request creates.
NewIds(ids, fresh) == {ids[i] : i \in fresh}

\* A request lists its breakpoints by position.
LEMMA RequestShape ==
    ASSUME NEW keys, NEW reqs \in Requests(keys)
    PROVE  /\ \E n \in Nat : DOMAIN reqs = 1 .. n
           /\ \A i \in DOMAIN reqs : reqs[i].key \in keys /\ reqs[i].opts \in Options
  <1>1. PICK n \in 0 .. MaxReq : reqs \in [1 .. n -> [key : keys, opts : Options]]
    BY DEF Requests
  <1>2. QED
    BY <1>1, BreakpointsAssumption DEF Requests

LEMMA OriginExtended ==
    ASSUME origin \in Seq(Origins), NEW c \in Seq(Origins)
    PROVE  /\ origin \o c \in Seq(Origins) /\ Len(origin \o c) = Len(origin) + Len(c)
           /\ \A id \in Known : (origin \o c)[id] = origin[id]
           /\ \A j \in 1 .. Len(c) : (origin \o c)[Len(origin) + j] = c[j]
  BY DEF Known

LEMMA OriginsPlaced ==
    ASSUME Shapes, NEW kind, kind \in Placeable, NEW n, NEW ids, NEW fresh, NEW hints,
           Loop(n, fresh, hints), Numbered(n, ids, fresh, hints),
           origin' = origin \o Created(kind, ids, fresh, hints)
    PROVE  /\ OriginsGrow(kind, NewIds(ids, fresh))
           /\ Len(origin') = Top(fresh, hints)
           /\ Len(origin') = Len(origin) + Len(Created(kind, ids, fresh, hints))
  <1> DEFINE c == Created(kind, ids, fresh, hints)
             m == Cardinality(fresh) + Cardinality(hints)
  <1>c. Cardinality(fresh) \in Nat /\ Cardinality(hints) \in Nat
    BY CountBelow DEF Loop
  <1>1. m \in Nat /\ origin \in Seq(Origins) /\ Len(origin) \in Nat
    BY <1>c DEF Shapes
  <1>2. /\ c = [j \in 1 .. m |-> IF \E i \in fresh : ids[i] = Len(origin) + j THEN kind ELSE "hint"]
        /\ c \in [1 .. m -> Origins]
    BY DEF Created, Origins, Placeable
  <1>t. Len(origin) + m = Top(fresh, hints)
    BY <1>1, <1>c DEF Top
  <1> HIDE DEF c, m
  <1>3. c \in Seq(Origins) /\ Len(c) = m
    BY <1>1, <1>2, FunctionIsSequence
  <1>4. /\ origin \o c \in Seq(Origins) /\ Len(origin \o c) = Len(origin) + m
        /\ \A id \in Known : (origin \o c)[id] = origin[id]
        /\ \A j \in 1 .. m : (origin \o c)[Len(origin) + j] = c[j]
    BY <1>1, <1>3, OriginExtended
  <1>5. ASSUME NEW i \in fresh
        PROVE  ids[i] \in Len(origin) + 1 .. Len(origin) + m /\ (origin \o c)[ids[i]] = kind
    <2>1. ids[i] \in Len(origin) + 1 .. Len(origin) + m
      <3>1. ids[i] = NewId(i, fresh, hints)
        BY DEF Numbered
      <3>2. NewId(i, fresh, hints) \in Len(origin) + 1 .. Top(fresh, hints)
        BY Numbering
      <3>3. QED
        BY <1>t, <3>1, <3>2
    <2>2. ids[i] - Len(origin) \in 1 .. m /\ ids[i] = Len(origin) + (ids[i] - Len(origin))
      BY <1>1, <2>1
    <2>3. c[ids[i] - Len(origin)] = kind
      BY <1>2, <2>2
    <2>4. QED
      BY <1>4, <2>1, <2>2, <2>3
  <1>6. origin' = origin \o c /\ Len(c) = Len(Created(kind, ids, fresh, hints))
    BY DEF c
  <1>7. Len(origin') = Len(origin) + m
    BY <1>4, <1>6
  <1>8. OriginsGrow(kind, NewIds(ids, fresh))
    <2>1. Len(origin') >= Len(origin)
      BY <1>1, <1>7
    <2>2. \A id \in NewIds(ids, fresh) : id \in Len(origin) + 1 .. Len(origin') /\ origin'[id] = kind
      BY <1>5, <1>6, <1>7 DEF NewIds
    <2>3. QED
      BY <1>4, <1>6, <2>1, <2>2 DEF OriginsGrow
  <1>9. QED
    BY <1>3, <1>6, <1>7, <1>8, <1>t

LEMMA InfosPlaced ==
    ASSUME Shapes, NEW kind, kind \in Placeable, NEW n, NEW reqs, Asked(n, kind, reqs),
           NEW ids, DOMAIN ids = 1 .. n, NEW forgotten,
           infos' = Tracked(kind, reqs, ids, forgotten)
    PROVE  InfosFollow(kind, Range(ids), forgotten)
  <1>n. n \in Nat
    BY DEF Asked
  <1> DEFINE D == (DOMAIN infos \ forgotten) \cup Range(ids)
             made(id) == MakeBpInfo(id, kind,
                             IF kind = "exception" THEN reqs[LastAt(ids, id)].key ELSE "",
                             Effective(kind, reqs[LastAt(ids, id)].opts))
  <1>1. infos' = [id \in D |-> IF id \in Range(ids) THEN made(id) ELSE infos[id]]
    BY DEF Tracked
  <1>2. ASSUME NEW id \in Range(ids)
        PROVE  InfoFor(made(id), kind)
    <2>1. LastAt(ids, id) \in 1 .. n
      BY <1>n, LastFound
    <2> DEFINE o == reqs[LastAt(ids, id)].opts
               name == IF kind = "exception" THEN reqs[LastAt(ids, id)].key ELSE ""
    <2>2. o \in Options /\ name \in Filters \cup {""}
      BY <2>1 DEF Asked
    <2>3. made(id) = MakeBpInfo(id, kind, name, Effective(kind, o))
      OBVIOUS
    <2> HIDE DEF o, name, made
    <2>4. InfoFor(MakeBpInfo(id, kind, name, Effective(kind, o)), kind)
      BY <2>2, InfoMade
    <2>5. QED
      BY <2>3, <2>4
  <1>3. \A id \in DOMAIN infos : infos[id] \in Info
    BY DEF Shapes
  <1> HIDE DEF made
  <1>4. infos' \in [D -> Info]
    BY <1>1, <1>2, <1>3 DEF InfoFor
  <1>5. QED
    BY <1>1, <1>2, <1>4 DEF InfosFollow, InfoFor

LEMMA EventsPlaced ==
    ASSUME Shapes, NEW n, NEW ids, NEW fresh, NEW hints,
           Loop(n, fresh, hints), Numbered(n, ids, fresh, hints),
           NEW gone, gone \subseteq Known, Len(origin') = Top(fresh, hints),
           NEW added, added \in CreationEvents(ids, fresh, hints),
           NEW removed, removed \in RemovalEvents(gone \cap alive),
           events' = events \o (removed \o added) \/ events' = events \o (added \o removed)
    PROVE  EventsReport(NewIds(ids, fresh), gone \cap alive)
  <1>1. Len(origin) \in Nat /\ Known \subseteq Nat
    BY DEF Shapes, Known
  <1>h. /\ \A h \in hints : HintId(h, fresh, hints) \in Len(origin) + 1 .. Top(fresh, hints)
        /\ \A i \in fresh, h \in hints : NewId(i, fresh, hints) # HintId(h, fresh, hints)
    BY Numbering
  <1> DEFINE new == NewIds(ids, fresh)
             transient == {HintId(i, fresh, hints) : i \in hints}
             A == {Event("added", id) : id \in new \cup transient}
                     \cup {Event("removed", id) : id \in transient}
             R == {Event("removed", id) : id \in gone \cap alive}
  <1>i. \A i \in fresh : ids[i] = NewId(i, fresh, hints) /\ ids[i] \in Nat
    BY DEF Numbered, Loop
  <1>2. transient \in SUBSET ((Len(origin) + 1 .. Top(fresh, hints)) \ new)
    BY <1>h, <1>i DEF NewIds
  <1>3. ASSUME NEW E \in SUBSET Events, NEW q \in Orderings(E)
        PROVE  q \in Seq(Events) /\ Range(q) = E
    <2>1. PICK m \in 0 .. MaxEvents : q \in [1 .. m -> E]
      BY DEF Orderings, SeqOf
    <2>2. m \in Nat /\ q \in [1 .. m -> Events]
      BY <2>1, BreakpointsAssumption
    <2>3. QED
      BY <2>2, FunctionIsSequence DEF Orderings
  <1>4. \A id \in Nat : Event("added", id) \in Events /\ Event("removed", id) \in Events
    BY DEF Event, Events
  <1>5. A \in SUBSET Events /\ R \in SUBSET Events
    <2>1. Len(origin) + 1 .. Top(fresh, hints) \subseteq Nat
      BY <1>1
    <2>2. new \subseteq Nat /\ transient \subseteq Nat /\ gone \cap alive \subseteq Nat
      BY <1>1, <1>2, <1>i, <2>1 DEF NewIds
    <2>3. QED
      BY <1>4, <2>2
  <1>6. added \in Orderings(A) /\ removed \in Orderings(R)
    BY DEF CreationEvents, RemovalEvents, NewIds
  <1> HIDE DEF A, R, new, transient
  <1>7. /\ added \in Seq(Events) /\ Range(added) = A
        /\ removed \in Seq(Events) /\ Range(removed) = R
    BY <1>3, <1>5, <1>6
  <1>8. events' \in Seq(Events) /\ Range(events') = Range(events) \cup A \cup R
    <2>1. events \in Seq(Events)
      BY DEF Shapes
    <2>2. /\ added \o removed \in Seq(Events) /\ Range(added \o removed) = A \cup R
          /\ removed \o added \in Seq(Events) /\ Range(removed \o added) = A \cup R
      BY <1>7, RangeConcat
    <2>3. ASSUME NEW q \in Seq(Events), Range(q) = A \cup R, events' = events \o q
          PROVE  events' \in Seq(Events) /\ Range(events') = Range(events) \cup A \cup R
      BY <2>1, <2>3, RangeConcat
    <2>4. QED
      BY <2>2, <2>3
  <1>9. Range(events') = Range(events)
                    \cup {Event("added", id) : id \in new \cup transient}
                    \cup {Event("removed", id) : id \in transient \cup (gone \cap alive)}
    BY <1>8 DEF A, R
  <1>10. QED
    BY <1>2, <1>8, <1>9 DEF new, EventsReport

\* What Place does, whichever request calls it.
LEMMA PlaceDoes ==
    ASSUME Shapes, NEW kind, kind \in Placeable, NEW n, NEW reqs, Asked(n, kind, reqs),
           NEW ids, NEW fresh, NEW hints, Loop(n, fresh, hints), Numbered(n, ids, fresh, hints),
           \A i \in DOMAIN reqs \ fresh : ids[i] \in alive,
           NEW gone, gone \subseteq Known, NEW forgotten,
           Place(kind, reqs, ids, fresh, hints, gone, forgotten)
    PROVE  Placed(kind, Range(ids), NewIds(ids, fresh), gone, forgotten)
  <1>1. /\ Top(fresh, hints) <= MaxIds
        /\ origin' = origin \o Created(kind, ids, fresh, hints)
        /\ alive' = (alive \cup NewIds(ids, fresh)) \ gone
        /\ armed' = armed \cup Range(ids)
        /\ infos' = Tracked(kind, reqs, ids, forgotten)
        /\ dropped' = dropped \cup (gone \cap alive)
    BY Zenon DEF Place, NewIds, Top
  <1>2. /\ OriginsGrow(kind, NewIds(ids, fresh))
        /\ Len(origin') = Top(fresh, hints)
        /\ Len(origin') = Len(origin) + Len(Created(kind, ids, fresh, hints))
    BY <1>1, OriginsPlaced, Zenon
  <1>d. DOMAIN ids = 1 .. n /\ DOMAIN reqs = 1 .. n /\ fresh \subseteq 1 .. n
    BY DEF Loop, Numbered, Asked
  <1>3. InfosFollow(kind, Range(ids), forgotten)
    BY <1>1, <1>d, InfosPlaced, Zenon
  <1>4. EventsReport(NewIds(ids, fresh), gone \cap alive)
    <2>1. PICK added \in CreationEvents(ids, fresh, hints), removed \in RemovalEvents(gone \cap alive) :
              events' = events \o IF kind = "exception" THEN removed \o added
                                                        ELSE added \o removed
      BY Zenon DEF Place
    <2>2. events' = events \o (removed \o added) \/ events' = events \o (added \o removed)
      BY <2>1
    <2>3. QED
      BY <1>2, <2>2, EventsPlaced, Zenon
  <1>5. NewIds(ids, fresh) \subseteq Range(ids) /\ Range(ids) \subseteq alive \cup NewIds(ids, fresh)
    BY <1>d DEF Range, NewIds
  <1>6. conditioned \subseteq conditioned' /\ conditioned' \subseteq conditioned \cup Range(ids)
    <2>1. conditioned' = conditioned \cup {ids[i] : i \in {j \in DOMAIN reqs : reqs[j].opts.native}}
      BY Zenon DEF Place
    <2>2. QED
      BY <1>d, <2>1 DEF Range
  <1>7. QED
    BY <1>1, <1>2, <1>3, <1>4, <1>5, <1>6 DEF Placed

-----------------------------------------------------------------------------
(* What the set requests preserve.                                           *)

\* A request deletes breakpoints of its own kind, and none that it asks for.
Requested(kind, placed, new, gone, forgotten) ==
    /\ kind \in Placeable
    /\ Placed(kind, placed, new, gone, forgotten)
    /\ gone \subseteq Known /\ \A id \in gone : origin[id] = kind
    /\ gone \cap placed = {}
    /\ \A id \in placed \ new : origin[id] = kind
    /\ forgotten \subseteq gone
    /\ kind \in {"source", "exception"} => forgotten = gone
    /\ UNCHANGED <<runVars, notified>>

\* What was known keeps its origin, and what is new was not known.
LEMMA KnownGrows ==
    ASSUME Shapes, NEW kind, NEW placed, NEW new, NEW gone, NEW forgotten,
           Requested(kind, placed, new, gone, forgotten)
    PROVE  /\ Known \subseteq Known' /\ \A id \in Known : origin'[id] = origin[id]
           /\ \A id \in new : id \in Known' /\ id \notin Known /\ origin'[id] = kind
           /\ \A id \in placed : id \in Known' /\ origin'[id] = kind
           /\ placed \subseteq alive \cup new /\ new \subseteq placed
           /\ alive \subseteq Known /\ alive' = (alive \cup new) \ gone
           /\ Len(origin) \in Nat /\ Len(origin') \in Nat /\ Len(origin') >= Len(origin)
  <1>1. OriginsGrow(kind, new) /\ placed \subseteq alive \cup new /\ new \subseteq placed
        /\ alive' = (alive \cup new) \ gone /\ \A id \in placed \ new : origin[id] = kind
    BY DEF Requested, Placed
  <1>2. Len(origin) \in Nat /\ Len(origin') \in Nat /\ Len(origin') >= Len(origin) /\ alive \subseteq Known
    BY <1>1 DEF OriginsGrow, Shapes
  <1>3. Known \subseteq Known'
    BY <1>2 DEF Known
  <1>4. \A id \in Known : origin'[id] = origin[id]
    BY <1>1 DEF OriginsGrow
  <1>5. \A id \in new : id \in Known' /\ id \notin Known /\ origin'[id] = kind
    BY <1>1, <1>2 DEF OriginsGrow, Known
  <1>6. \A id \in placed : id \in Known' /\ origin'[id] = kind
    BY <1>1, <1>2, <1>3, <1>4, <1>5
  <1>7. QED
    BY <1>1, <1>2, <1>3, <1>4, <1>5, <1>6

\* The events after a request, and those among them that are news.
LEMMA EventsAfter ==
    ASSUME Shapes, NEW kind, NEW placed, NEW new, NEW gone, NEW forgotten,
           Requested(kind, placed, new, gone, forgotten)
    PROVE  /\ events' \in Seq(Events)
           /\ \A e \in Range(events') : e.id \in Known'
           /\ \A e \in Range(events') : e.type = "removed" =>
                 e \in Range(events) \/ e.id \in gone \cap alive \/ e.id \notin Known \cup new
           /\ Range(events) \subseteq Range(events')
           /\ \A id \in gone \cap alive : Event("removed", id) \in Range(events')
  <1>1. EventsReport(new, gone \cap alive)
    BY DEF Requested, Placed
  <1>2. PICK transient \in SUBSET ((Len(origin) + 1 .. Len(origin')) \ new) :
            Range(events') = Range(events)
                            \cup {Event("added", id) : id \in new \cup transient}
                            \cup {Event("removed", id) : id \in transient \cup (gone \cap alive)}
    BY <1>1 DEF EventsReport
  <1>k. /\ Known \subseteq Known' /\ alive \subseteq Known /\ new \subseteq Known'
        /\ Len(origin) \in Nat /\ Len(origin') \in Nat
    BY KnownGrows
  <1>3. \A id \in transient : id \in Known' /\ id \notin Known \cup new
    BY <1>k DEF Known
  <1>4. \A e \in Range(events') : \/ e \in Range(events)
                                  \/ \E id \in new \cup transient : e = Event("added", id)
                                  \/ \E id \in transient \cup (gone \cap alive) : e = Event("removed", id)
    BY <1>2
  <1>5. \A id : /\ Event("added", id).id = id /\ Event("added", id).type # "removed"
                /\ Event("removed", id).id = id
    BY DEF Event
  <1>6. \A e \in Range(events) : e.id \in Known
    BY DEF Shapes
  <1>7. ASSUME NEW e \in Range(events') PROVE e.id \in Known'
    <2>1. CASE e \in Range(events)
      BY <1>k, <1>6, <2>1
    <2>2. ASSUME NEW id \in new \cup transient, e = Event("added", id) PROVE e.id \in Known'
      <3>1. e.id = id
        BY <1>5, <2>2
      <3>2. QED
        BY <1>k, <1>3, <3>1
    <2>3. ASSUME NEW id \in transient \cup (gone \cap alive), e = Event("removed", id)
          PROVE  e.id \in Known'
      <3>1. e.id = id
        BY <1>5, <2>3
      <3>2. QED
        BY <1>k, <1>3, <3>1
    <2>4. QED
      BY <1>4, <2>1, <2>2, <2>3
  <1>8. \A e \in Range(events') : e.type = "removed" =>
                 e \in Range(events) \/ e.id \in gone \cap alive \/ e.id \notin Known \cup new
    BY <1>3, <1>4, <1>5
  <1>9. QED
    BY <1>1, <1>2, <1>7, <1>8 DEF EventsReport

\* The infos after a request.
LEMMA InfosAfter ==
    ASSUME Shapes, NEW kind, NEW placed, NEW new, NEW gone, NEW forgotten,
           Requested(kind, placed, new, gone, forgotten)
    PROVE  /\ infos' \in [DOMAIN infos' -> Info]
           /\ DOMAIN infos' = (DOMAIN infos \ forgotten) \cup placed
           /\ DOMAIN infos' \subseteq Known'
           /\ \A id \in DOMAIN infos' : infos'[id].hit_count <= MaxHits
           /\ \A id \in placed : infos'[id].kind = kind
           /\ \A id \in DOMAIN infos' \ placed : id \in DOMAIN infos /\ infos'[id] = infos[id]
  <1>1. InfosFollow(kind, placed, forgotten)
    BY DEF Requested, Placed
  <1>2. /\ infos' \in [DOMAIN infos' -> Info] /\ DOMAIN infos' = (DOMAIN infos \ forgotten) \cup placed
        /\ \A id \in placed : infos'[id].kind = kind /\ infos'[id].hit_count = 0
        /\ \A id \in DOMAIN infos' \ placed : id \in DOMAIN infos /\ infos'[id] = infos[id]
    BY <1>1 DEF InfosFollow
  <1>3. Known \subseteq Known' /\ placed \subseteq Known'
    BY KnownGrows
  <1>4. DOMAIN infos' \subseteq Known'
    BY <1>2, <1>3 DEF Shapes
  <1>5. \A id \in DOMAIN infos' : infos'[id].hit_count <= MaxHits
    <2>1. \A id \in placed : infos'[id].hit_count <= MaxHits
      BY <1>2, BreakpointsAssumption
    <2>2. \A id \in DOMAIN infos : infos[id].hit_count <= MaxHits
      BY DEF Shapes
    <2>3. QED
      BY <1>2, <2>1, <2>2
  <1>6. QED
    BY <1>2, <1>4, <1>5

\* A request that leaves the tables alone is one for exceptions, or one that deletes
\* nothing and whose new breakpoints are strays.
TablesKept(kind, new, gone) ==
    /\ UNCHANGED <<table, missing>>
    /\ \/ kind = "exception" /\ stray' = stray
       \/ gone = {} /\ stray' = stray \cup new

\* A request for the breakpoints of a table replaces it, and the table has all of
\* them but the strays.
TableReplaced(kind, placed, new, gone) ==
    /\ kind \in Kinds
    /\ table' \in [Kinds -> UNION {[K -> Nat] : K \in SUBSET Keys}]
    /\ \A k \in Kinds \ {kind} : table'[k] = table[k]
    /\ \A key \in DOMAIN table'[kind] :
          /\ table'[kind][key] \in placed
          /\ \A other \in DOMAIN table'[kind] : table'[kind][other] = table'[kind][key] => other = key
    /\ placed \subseteq Range(table'[kind]) \cup stray'
    /\ stray \subseteq stray' /\ stray' \subseteq stray \cup new
    /\ Range(table[kind]) \cap alive \subseteq placed \cup gone
    /\ missing' = {m \in missing : m[1] # kind}

LEMMA ShapesAfter ==
    ASSUME Shapes, NEW kind, NEW placed, NEW new, NEW gone, NEW forgotten,
           Requested(kind, placed, new, gone, forgotten),
           TablesKept(kind, new, gone) \/ TableReplaced(kind, placed, new, gone)
    PROVE  Shapes'
  <1>1. /\ Known \subseteq Known' /\ placed \subseteq Known' /\ new \subseteq placed
        /\ alive \subseteq Known /\ alive' \subseteq alive \cup new
        /\ Len(origin) \in Nat /\ Len(origin') \in Nat /\ Len(origin') >= Len(origin)
    BY KnownGrows
  <1>2. origin' \in Seq(Origins) /\ Len(origin') <= MaxIds
    BY DEF Requested, Placed, OriginsGrow
  <1>3. alive' \subseteq Known' /\ armed' \subseteq Known' /\ conditioned' \subseteq Known'
    <2>1. armed' = armed \cup placed /\ conditioned' \subseteq conditioned \cup placed
      BY DEF Requested, Placed
    <2>2. QED
      BY <1>1, <2>1 DEF Shapes
  <1>4. /\ table' \in [Kinds -> UNION {[K -> Nat] : K \in SUBSET Keys}]
        /\ \A k \in Kinds : \A key \in DOMAIN table'[k] : table'[k][key] \in Known'
    <2>0. /\ table \in [Kinds -> UNION {[K -> Nat] : K \in SUBSET Keys}]
          /\ \A k \in Kinds : \A key \in DOMAIN table[k] : table[k][key] \in Known'
      BY <1>1 DEF Shapes
    <2>1. CASE TablesKept(kind, new, gone)
      BY <2>0, <2>1 DEF TablesKept
    <2>2. CASE TableReplaced(kind, placed, new, gone)
      <3>1. ASSUME NEW k \in Kinds, NEW key \in DOMAIN table'[k] PROVE table'[k][key] \in Known'
        <4>1. CASE k = kind
          BY <1>1, <2>2, <4>1 DEF TableReplaced
        <4>2. CASE k # kind
          BY <2>0, <2>2, <4>2 DEF TableReplaced
        <4>3. QED
          BY <4>1, <4>2
      <3>2. QED
        BY <2>2, <3>1 DEF TableReplaced
    <2>3. QED
      BY <2>1, <2>2
  <1>5. /\ infos' \in [DOMAIN infos' -> Info] /\ DOMAIN infos' \subseteq Known'
        /\ \A id \in DOMAIN infos' : infos'[id].hit_count <= MaxHits
    BY InfosAfter
  <1>6. events' \in Seq(Events) /\ \A e \in Range(events') : e.id \in Known'
    BY EventsAfter
  <1>7. hit' \in 0 .. Len(origin') /\ stop' \in 0 .. Len(origin') /\ panicked' \in BOOLEAN
    <2>1. hit' = hit /\ stop' = stop /\ panicked' = panicked
      BY DEF Requested, runVars
    <2>2. hit \in 0 .. Len(origin) /\ stop \in 0 .. Len(origin) /\ panicked \in BOOLEAN
      BY DEF Shapes
    <2>3. QED
      BY <1>1, <2>1, <2>2
  <1>8. notified' \subseteq [reason : {"new", "changed", "removed"}, id : Known']
    <2>1. notified' = notified /\ notified \subseteq [reason : {"new", "changed", "removed"}, id : Known]
      BY DEF Requested, Shapes
    <2>2. QED
      BY <1>1, <2>1
  <1>9. dropped' \subseteq Known' /\ missing' \subseteq Kinds \X Keys /\ stray' \subseteq Known'
    <2>1. dropped' = dropped \cup (gone \cap alive)
      BY DEF Requested, Placed
    <2>2. missing' \subseteq missing /\ stray' \subseteq stray \cup new
      BY DEF TablesKept, TableReplaced
    <2>3. dropped \subseteq Known /\ missing \subseteq Kinds \X Keys /\ stray \subseteq Known
      BY DEF Shapes
    <2>4. QED
      BY <1>1, <2>1, <2>2, <2>3
  <1>10. QED
    BY <1>2, <1>3, <1>4, <1>5, <1>6, <1>7, <1>8, <1>9 DEF Shapes

LEMMA TablesAfter ==
    ASSUME TableInv, NEW kind, NEW placed, NEW new, NEW gone, NEW forgotten,
           Requested(kind, placed, new, gone, forgotten),
           TablesKept(kind, new, gone) \/ TableReplaced(kind, placed, new, gone)
    PROVE  TableInv'
  <1>s. Shapes /\ OwnKind /\ TableIsAlive /\ Shapes'
    BY ShapesAfter DEF TableInv
  <1>1. /\ \A id \in Known : origin'[id] = origin[id]
        /\ \A id \in placed : origin'[id] = kind
        /\ alive \subseteq Known /\ alive' = (alive \cup new) \ gone
        /\ placed \subseteq alive \cup new /\ new \subseteq placed
    BY <1>s, KnownGrows
  <1>g. gone \cap placed = {} /\ \A id \in gone : origin[id] = kind
    BY DEF Requested
  <1>2. \A id \in DOMAIN infos' : infos'[id].kind = "exception" => origin'[id] = "exception"
    <2>1. /\ \A id \in placed : infos'[id].kind = kind
          /\ \A id \in DOMAIN infos' \ placed : id \in DOMAIN infos /\ infos'[id] = infos[id]
      BY <1>s, InfosAfter
    <2>2. \A id \in DOMAIN infos : id \in Known /\ (infos[id].kind = "exception" => origin[id] = "exception")
      BY <1>s DEF OwnKind, Shapes
    <2>3. QED
      BY <1>1, <2>1, <2>2
  <1>3. ASSUME NEW k \in Kinds, table'[k] = table[k], k # kind \/ gone = {}
        PROVE  \A key \in DOMAIN table'[k] : /\ origin'[table'[k][key]] = k
                                             /\ table'[k][key] \in alive' \/ <<k, key>> \in missing
    <2> TAKE key \in DOMAIN table'[k]
    <2>1. /\ table[k][key] \in Known /\ origin[table[k][key]] = k
          /\ table[k][key] \in alive \/ <<k, key>> \in missing
      BY <1>s, <1>3 DEF Shapes, OwnKind, TableIsAlive
    <2>2. table[k][key] \notin gone
      BY <1>3, <1>g, <2>1
    <2>3. QED
      BY <1>1, <1>3, <2>1, <2>2
  <1>4. CASE TablesKept(kind, new, gone)
    <2>1. ASSUME NEW k \in Kinds PROVE table'[k] = table[k] /\ (k # kind \/ gone = {})
      BY <1>4, <2>1, BreakpointsAssumption DEF TablesKept, TableKinds
    <2>2. missing' = missing /\ table' = table
      BY <1>4 DEF TablesKept
    <2>3. OwnKind'
      BY <1>2, <1>3, <2>1 DEF OwnKind
    <2>4. TableIsAlive'
      BY <1>s, <1>3, <2>1, <2>2 DEF TableIsAlive
    <2>5. QED
      BY <1>s, <2>3, <2>4 DEF TableInv
  <1>5. CASE TableReplaced(kind, placed, new, gone)
    <2>1. ASSUME NEW k \in Kinds, k # kind PROVE table'[k] = table[k]
      BY <1>5, <2>1 DEF TableReplaced
    <2>2. ASSUME NEW key \in DOMAIN table'[kind]
          PROVE  /\ table'[kind][key] \in alive' /\ origin'[table'[kind][key]] = kind
                 /\ \A other \in DOMAIN table'[kind] :
                       table'[kind][other] = table'[kind][key] => other = key
      BY <1>1, <1>g, <1>5 DEF TableReplaced
    <2>3. ASSUME NEW k \in Kinds, k # kind, NEW key, <<k, key>> \in missing
          PROVE  <<k, key>> \in missing'
      BY <1>5, <2>3 DEF TableReplaced
    <2>4. ASSUME NEW k \in Kinds, NEW key \in DOMAIN table'[k]
          PROVE  /\ origin'[table'[k][key]] = k
                 /\ table'[k][key] \in alive' \/ <<k, key>> \in missing'
                 /\ \A other \in DOMAIN table'[k] : table'[k][other] = table'[k][key] => other = key
      <3>1. CASE k = kind
        BY <2>2, <3>1
      <3>2. CASE k # kind
        <4>1. table'[k] = table[k]
          BY <2>1, <3>2
        <4>2. /\ origin'[table'[k][key]] = k
              /\ table'[k][key] \in alive' \/ <<k, key>> \in missing
          BY <1>3, <3>2, <4>1
        <4>3. \A other \in DOMAIN table'[k] : table'[k][other] = table'[k][key] => other = key
          BY <1>s, <4>1 DEF TableIsAlive
        <4>4. QED
          BY <2>3, <3>2, <4>2, <4>3
      <3>3. QED
        BY <3>1, <3>2
    <2>5. OwnKind'
      BY <1>2, <2>4 DEF OwnKind
    <2>6. TableIsAlive'
      BY <2>4 DEF TableIsAlive
    <2>7. QED
      BY <1>s, <2>5, <2>6 DEF TableInv
  <1>6. QED
    BY <1>4, <1>5

LEMMA TracksAfter ==
    ASSUME TrackInv, NEW kind, NEW placed, NEW new, NEW gone, NEW forgotten,
           Requested(kind, placed, new, gone, forgotten)
    PROVE  OwnTracked' /\ RemovedAreDead' /\ CallbackIsTracked'
  <1>s. Shapes /\ OwnTracked /\ RemovedAreDead /\ CallbackIsTracked
    BY DEF TrackInv, TableInv
  <1>1. /\ \A id \in Known : origin'[id] = origin[id]
        /\ \A id \in placed : origin'[id] = kind
        /\ \A id \in new : id \notin Known
        /\ alive \subseteq Known /\ alive' = (alive \cup new) \ gone
        /\ placed \subseteq alive \cup new /\ new \subseteq placed
    BY <1>s, KnownGrows
  <1>2. /\ armed' = armed \cup placed /\ forgotten \subseteq gone /\ kind \in Placeable
        /\ notified' = notified
    BY DEF Requested, Placed
  <1>3. DOMAIN infos' = (DOMAIN infos \ forgotten) \cup placed
    BY DEF Requested, Placed, InfosFollow
  <1>4. OwnTracked'
    <2> SUFFICES ASSUME NEW id \in alive'
                 PROVE  origin'[id] # "hint" /\ (origin'[id] # "console" => id \in DOMAIN infos')
      BY DEF OwnTracked
    <2>1. CASE id \in new
      BY <1>1, <1>2, <1>3, <2>1 DEF Placeable, TableKinds
    <2>2. CASE id \in alive
      <3>1. origin'[id] = origin[id] /\ id \notin gone
        BY <1>1, <2>2
      <3>2. origin[id] # "hint" /\ (origin[id] # "console" => id \in DOMAIN infos)
        BY <1>s, <2>2 DEF OwnTracked
      <3>3. QED
        BY <1>2, <1>3, <3>1, <3>2
    <2>3. QED
      BY <1>1, <2>1, <2>2
  <1>5. RemovedAreDead'
    <2>1. ASSUME NEW e \in Range(events'), e.type = "removed" PROVE e.id \notin alive'
      <3>1. e \in Range(events) \/ e.id \in gone \cap alive \/ e.id \notin Known \cup new
        BY <1>s, <2>1, EventsAfter
      <3>2. e \in Range(events) => e.id \in Known /\ e.id \notin alive
        BY <1>s, <2>1 DEF RemovedAreDead, Shapes
      <3>3. QED
        BY <1>1, <3>1, <3>2
    <2>2. ASSUME NEW m \in notified', m.reason = "removed" PROVE m.id \notin alive'
      <3>1. m.id \notin alive /\ m.id \in Known
        BY <1>s, <1>2, <2>2 DEF RemovedAreDead, Shapes
      <3>2. QED
        BY <1>1, <3>1
    <2>3. QED
      BY <2>1, <2>2 DEF RemovedAreDead
  <1>6. CallbackIsTracked'
    BY <1>s, <1>1, <1>2, <1>3 DEF CallbackIsTracked
  <1>7. QED
    BY <1>4, <1>5, <1>6

LEMMA BooksAfter ==
    ASSUME BookInv, NEW kind, NEW placed, NEW new, NEW gone, NEW forgotten,
           Requested(kind, placed, new, gone, forgotten)
    PROVE  DroppedAreDead' /\ NewsIsComing' /\ NewOnlyForConsole' /\ QuietRemoval'
  <1>s. /\ Shapes /\ OwnKind /\ RemovedAreDead /\ DroppedAreDead /\ NewsIsComing
        /\ NewOnlyForConsole /\ QuietRemoval
    BY DEF BookInv, TrackInv, TableInv
  <1>1. /\ \A id \in Known : origin'[id] = origin[id]
        /\ \A id \in new : id \notin Known
        /\ alive \subseteq Known /\ alive' = (alive \cup new) \ gone
        /\ placed \subseteq alive \cup new /\ new \subseteq placed
    BY <1>s, KnownGrows
  <1>2. /\ forgotten \subseteq gone /\ gone \cap placed = {}
        /\ kind \in {"source", "exception"} => forgotten = gone
        /\ \A id \in gone : id \in Known /\ origin[id] = kind
        /\ notified' = notified /\ dropped' = dropped \cup (gone \cap alive)
    BY DEF Requested, Placed
  <1>3. DOMAIN infos' = (DOMAIN infos \ forgotten) \cup placed
    BY DEF Requested, Placed, InfosFollow
  <1>4. \A m \in notified : m.id \in Known
    BY <1>s DEF Shapes
  <1>5. DroppedAreDead'
    <2> SUFFICES ASSUME NEW id \in dropped'
                 PROVE  /\ id \notin alive'
                        /\ origin'[id] \in {"source", "exception"} => id \notin DOMAIN infos'
      BY DEF DroppedAreDead
    <2>1. CASE id \in gone \cap alive
      BY <1>1, <1>2, <1>3, <2>1
    <2>2. CASE id \in dropped
      <3>1. id \in Known /\ id \notin alive
            /\ (origin[id] \in {"source", "exception"} => id \notin DOMAIN infos)
        BY <1>s, <2>2 DEF DroppedAreDead, Shapes
      <3>2. QED
        BY <1>1, <1>3, <3>1
    <2>3. QED
      BY <1>2, <2>1, <2>2
  <1>6. NewsIsComing'
    <2> SUFFICES ASSUME ~Lossy
                 PROVE  /\ \A id \in alive' \ DOMAIN infos' : Event("added", id) \in Range(events')
                        /\ \A id \in DOMAIN infos' \ alive' : Event("removed", id) \in Range(events')
      BY DEF NewsIsComing, Event
    <2>1. /\ \A id \in alive \ DOMAIN infos : Event("added", id) \in Range(events)
          /\ \A id \in DOMAIN infos \ alive : Event("removed", id) \in Range(events)
      BY <1>s DEF NewsIsComing
    <2>2. /\ Range(events) \subseteq Range(events')
          /\ \A id \in gone \cap alive : Event("removed", id) \in Range(events')
      BY <1>s, EventsAfter
    <2>3. alive' \ DOMAIN infos' \subseteq alive \ DOMAIN infos
      BY <1>1, <1>2, <1>3
    <2>4. DOMAIN infos' \ alive' \subseteq (DOMAIN infos \ alive) \cup (gone \cap alive)
      BY <1>1, <1>2, <1>3
    <2>5. QED
      BY <2>1, <2>2, <2>3, <2>4
  <1>7. NewOnlyForConsole'
    BY <1>s, <1>1, <1>2, <1>4 DEF NewOnlyForConsole
  <1>8. QuietRemoval'
    <2>1. \A m \in notified : m.reason = "removed" => m.id \notin alive
      BY <1>s DEF RemovedAreDead
    <2>2. QED
      BY <1>s, <1>1, <1>2, <1>4, <2>1 DEF QuietRemoval
  <1>9. QED
    BY <1>5, <1>6, <1>7, <1>8

LEMMA OrphansAfter ==
    ASSUME BookInv, NEW kind, NEW placed, NEW new, NEW gone, NEW forgotten,
           Requested(kind, placed, new, gone, forgotten),
           TablesKept(kind, new, gone) \/ TableReplaced(kind, placed, new, gone)
    PROVE  NoOrphans'
  <1>s. Shapes /\ NoOrphans
    BY DEF BookInv, TrackInv, TableInv
  <1>1. /\ \A id \in Known : origin'[id] = origin[id]
        /\ \A id \in new : origin'[id] = kind
        /\ \A id \in placed : origin'[id] = kind
        /\ alive \subseteq Known /\ alive' = (alive \cup new) \ gone /\ new \subseteq placed
    BY <1>s, KnownGrows
  <1> SUFFICES ASSUME NEW id \in alive', origin'[id] \in Kinds
               PROVE  id \in Range(table'[origin'[id]]) \/ id \in stray'
    BY DEF NoOrphans, Orphans
  <1>2. id \in alive => id \in Range(table[origin'[id]]) \/ id \in stray
    BY <1>s, <1>1 DEF NoOrphans, Orphans
  <1>k. stray \subseteq stray'
    BY DEF TablesKept, TableReplaced
  <1>3. CASE TablesKept(kind, new, gone)
    <2>1. table' = table /\ (kind \notin Kinds \/ new \subseteq stray')
      BY <1>3, BreakpointsAssumption DEF TablesKept, TableKinds
    <2>2. QED
      BY <1>k, <1>1, <1>2, <2>1
  <1>4. CASE TableReplaced(kind, placed, new, gone)
    <2>1. CASE origin'[id] = kind
      <3>1. id \in placed \/ id \in stray
        BY <1>1, <1>2, <1>4, <2>1 DEF TableReplaced
      <3>2. QED
        BY <1>k, <1>4, <2>1, <3>1 DEF TableReplaced
    <2>2. CASE origin'[id] # kind
      <3>1. id \in alive /\ table'[origin'[id]] = table[origin'[id]]
        BY <1>1, <1>4, <2>2 DEF TableReplaced
      <3>2. QED
        BY <1>k, <1>2, <3>1
    <2>3. QED
      BY <2>1, <2>2
  <1>5. QED
    BY <1>3, <1>4

\* A set request keeps the books.
LEMMA RequestKeepsBooks ==
    ASSUME BookInv, NEW kind, NEW placed, NEW new, NEW gone, NEW forgotten,
           Requested(kind, placed, new, gone, forgotten),
           TablesKept(kind, new, gone) \/ TableReplaced(kind, placed, new, gone)
    PROVE  BookInv'
  <1>1. TrackInv /\ TableInv
    BY DEF BookInv, TrackInv
  <1>2. TableInv'
    BY <1>1, TablesAfter
  <1>3. OwnTracked' /\ RemovedAreDead' /\ CallbackIsTracked'
    BY <1>1, TracksAfter
  <1>4. DroppedAreDead' /\ NewsIsComing' /\ NewOnlyForConsole' /\ QuietRemoval'
    BY BooksAfter
  <1>5. NoOrphans'
    BY OrphansAfter
  <1>6. QED
    BY <1>2, <1>3, <1>4, <1>5 DEF BookInv, TrackInv

-----------------------------------------------------------------------------
(* The handlers of the set requests.                                         *)

LEMMA RequestIsAsked ==
    ASSUME NEW keys, NEW kind, kind = "exception" => keys \subseteq Filters,
           NEW reqs \in Requests(keys)
    PROVE  \E n : Asked(n, kind, reqs)
  BY RequestShape DEF Asked

\* A request creates no breakpoint where the table has a live one.
Found(k, reqs, ids, fresh) ==
    /\ \A i \in DOMAIN reqs \ fresh : /\ reqs[i].key \in DOMAIN table[k]
                                      /\ ids[i] = table[k][reqs[i].key]
                                      /\ table[k][reqs[i].key] \in alive
    /\ \A i \in DOMAIN reqs : reqs[i].key \in DOMAIN table[k] /\ table[k][reqs[i].key] \in alive
                                 => i \notin fresh

\* What the loop of a handler works with.
Serves(k, reqs, hints, ids, fresh) ==
    /\ hints \subseteq DOMAIN reqs
    /\ fresh = Fresh(k, reqs) /\ ids = IdsOf(k, reqs, fresh, hints)

\* The breakpoints that a request finds in a table, and the ones it creates.
LEMMA RequestNumbered ==
    ASSUME Shapes, NEW k, NEW n, NEW reqs, Asked(n, k, reqs),
           NEW hints, NEW ids, NEW fresh, Serves(k, reqs, hints, ids, fresh)
    PROVE  /\ Loop(n, fresh, hints) /\ Numbered(n, ids, fresh, hints)
           /\ Found(k, reqs, ids, fresh) /\ DOMAIN ids = DOMAIN reqs
  <1>e. /\ hints \subseteq DOMAIN reqs
        /\ fresh = Fresh(k, reqs) /\ ids = IdsOf(k, reqs, fresh, hints)
    BY DEF Serves
  <1>1. n \in Nat /\ DOMAIN reqs = 1 .. n
    BY DEF Asked
  <1>2. Loop(n, fresh, hints)
    BY <1>e, <1>1 DEF Loop, Fresh
  <1>3. /\ \A i \in fresh : NewId(i, fresh, hints) \in Len(origin) + 1 .. Top(fresh, hints)
        /\ Len(origin) \in Nat
    BY <1>2, Numbering
  <1>n. \A id \in Len(origin) + 1 .. Top(fresh, hints) : id \in Nat
    BY <1>3
  <1>a. \A id \in alive : id \in Nat /\ id # None
    BY <1>3 DEF Shapes, Known, None
  <1>4. \A i \in DOMAIN reqs \ fresh :
                 /\ reqs[i].key \in DOMAIN table[k]
                 /\ Existing(k, reqs[i].key) = table[k][reqs[i].key]
                 /\ table[k][reqs[i].key] \in alive
    BY <1>e DEF Fresh, Existing
  <1>5. \A i \in DOMAIN reqs : reqs[i].key \in DOMAIN table[k] /\ table[k][reqs[i].key] \in alive
                                  => i \notin fresh
    BY <1>e, <1>a DEF Fresh, Existing
  <1>6. ids = [i \in 1 .. n |-> IF i \in fresh THEN NewId(i, fresh, hints)
                                              ELSE Existing(k, reqs[i].key)]
    BY <1>e, <1>1 DEF IdsOf
  <1>f. fresh \subseteq 1 .. n
    BY <1>2 DEF Loop
  <1>7. /\ \A i \in fresh : ids[i] = NewId(i, fresh, hints)
        /\ \A i \in (1 .. n) \ fresh : ids[i] = Existing(k, reqs[i].key)
    BY <1>6, <1>f
  <1>8. \A i \in 1 .. n : ids[i] \in Nat
    BY <1>1, <1>3, <1>n, <1>a, <1>4, <1>7
  <1>9. ids \in [1 .. n -> Nat]
    BY <1>6, <1>8
  <1>10. Numbered(n, ids, fresh, hints)
    BY <1>7, <1>9 DEF Numbered
  <1>11. \A i \in DOMAIN reqs \ fresh : ids[i] = table[k][reqs[i].key]
    BY <1>1, <1>4, <1>7
  <1>12. QED
    BY <1>1, <1>2, <1>4, <1>5, <1>6, <1>10, <1>11 DEF Found

\* Every position of a request gets a new breakpoint.
LEMMA AllNumbered ==
    ASSUME Shapes, NEW n, NEW kind, NEW reqs, Asked(n, kind, reqs)
    PROVE  /\ Loop(n, DOMAIN reqs, {})
           /\ Numbered(n, [i \in DOMAIN reqs |-> NewId(i, DOMAIN reqs, {})], DOMAIN reqs, {})
  <1>1. n \in Nat /\ DOMAIN reqs = 1 .. n
    BY DEF Asked
  <1>2. Loop(n, DOMAIN reqs, {})
    BY <1>1 DEF Loop
  <1>3. /\ \A i \in DOMAIN reqs : NewId(i, DOMAIN reqs, {}) \in Len(origin) + 1 .. Top(DOMAIN reqs, {})
        /\ Len(origin) \in Nat
    BY <1>2, Numbering
  <1>4. \A id \in Len(origin) + 1 .. Top(DOMAIN reqs, {}) : id \in Nat
    BY <1>3
  <1>5. QED
    BY <1>1, <1>2, <1>3, <1>4 DEF Numbered

\* set_new_dasm_breakpoints and handle_set_exception_breakpoints keep the books.
LEMMA NewDasmKeepsBooks ==
    ASSUME BookInv, NEW reqs \in Requests(Keys), SetNewDasmBreakpoints(reqs)
    PROVE  BookInv'
  <1> DEFINE ids == [i \in DOMAIN reqs |-> NewId(i, DOMAIN reqs, {})]
  <1>1. PICK n : Asked(n, "assembly", reqs)
    BY RequestIsAsked
  <1>s. Shapes /\ "assembly" \in Placeable
    BY DEF BookInv, TrackInv, TableInv, Placeable, TableKinds
  <1>2. Loop(n, DOMAIN reqs, {}) /\ Numbered(n, ids, DOMAIN reqs, {})
    BY <1>1, <1>s, AllNumbered
  <1>3. /\ Place("assembly", reqs, ids, DOMAIN reqs, {}, {}, {})
        /\ UNCHANGED <<table, missing>> /\ UNCHANGED <<runVars, notified>>
        /\ stray' = stray \cup Range(ids)
    BY DEF SetNewDasmBreakpoints
  <1>4. Range(ids) = NewIds(ids, DOMAIN reqs)
    BY DEF Range, NewIds
  <1> HIDE DEF ids
  <1>5. {} \subseteq Known /\ \A i \in DOMAIN reqs \ DOMAIN reqs : ids[i] \in alive
    OBVIOUS
  <1>6. Placed("assembly", Range(ids), NewIds(ids, DOMAIN reqs), {}, {})
    BY <1>s, <1>1, <1>2, <1>3, <1>5, PlaceDoes, Zenon
  <1>7. Requested("assembly", Range(ids), NewIds(ids, DOMAIN reqs), {}, {})
    BY <1>s, <1>3, <1>4, <1>6 DEF Requested
  <1>8. TablesKept("assembly", NewIds(ids, DOMAIN reqs), {})
    BY <1>3, <1>4 DEF TablesKept
  <1>9. QED
    BY <1>7, <1>8, RequestKeepsBooks, Zenon

LEMMA ExceptionsKeepBooks ==
    ASSUME BookInv, NEW reqs \in Requests(Filters), HandleSetExceptionBreakpoints(reqs)
    PROVE  BookInv'
  <1> DEFINE ids == [i \in DOMAIN reqs |-> NewId(i, DOMAIN reqs, {})]
  <1>1. PICK n : Asked(n, "exception", reqs)
    BY RequestIsAsked
  <1>s. Shapes /\ OwnKind /\ "exception" \in Placeable
    BY DEF BookInv, TrackInv, TableInv, Placeable
  <1>2. Loop(n, DOMAIN reqs, {}) /\ Numbered(n, ids, DOMAIN reqs, {})
    BY <1>1, <1>s, AllNumbered
  <1>3. /\ Place("exception", reqs, ids, DOMAIN reqs, {}, ExceptionIds, ExceptionIds)
        /\ UNCHANGED <<table, missing>> /\ UNCHANGED <<runVars, notified>> /\ stray' = stray
    BY DEF HandleSetExceptionBreakpoints
  <1>4. Range(ids) = NewIds(ids, DOMAIN reqs)
    BY DEF Range, NewIds
  <1> HIDE DEF ids
  <1>5. ExceptionIds \subseteq Known /\ \A i \in DOMAIN reqs \ DOMAIN reqs : ids[i] \in alive
    BY <1>s DEF ExceptionIds, Shapes
  <1>6. Placed("exception", Range(ids), NewIds(ids, DOMAIN reqs), ExceptionIds, ExceptionIds)
    BY <1>s, <1>1, <1>2, <1>3, <1>5, PlaceDoes, Zenon
  <1>7. \A id \in ExceptionIds : origin[id] = "exception"
    BY <1>s DEF ExceptionIds, OwnKind
  <1>8. ExceptionIds \cap Range(ids) = {}
    <2>1. OriginsGrow("exception", NewIds(ids, DOMAIN reqs)) /\ Len(origin) \in Nat
      BY <1>s, <1>6 DEF Placed, Shapes
    <2>2. \A id \in NewIds(ids, DOMAIN reqs) : id \notin Known
      BY <2>1 DEF OriginsGrow, Known
    <2>3. QED
      BY <1>4, <1>5, <2>2
  <1>9. Requested("exception", Range(ids), NewIds(ids, DOMAIN reqs), ExceptionIds, ExceptionIds)
    BY <1>s, <1>3, <1>4, <1>5, <1>6, <1>7, <1>8 DEF Requested
  <1>10. TablesKept("exception", NewIds(ids, DOMAIN reqs), ExceptionIds)
    BY <1>3 DEF TablesKept
  <1>11. QED
    BY <1>9, <1>10, RequestKeepsBooks, Zenon

\* The breakpoints that a request finds in a table were made for it.
LEMMA FoundAreOwn ==
    ASSUME OwnKind, NEW k, k \in Kinds, NEW reqs, NEW ids, NEW fresh,
           Found(k, reqs, ids, fresh), DOMAIN ids = DOMAIN reqs
    PROVE  \A id \in Range(ids) \ NewIds(ids, fresh) : origin[id] = k
  BY DEF Found, Range, NewIds, OwnKind

\* handle_set_instruction_breakpoints keeps the books when it fails half way.
LEMMA FailureKeepsBooks ==
    ASSUME BookInv, NEW reqs \in Requests(Keys), HandleSetInstructionFails(reqs)
    PROVE  BookInv'
  <1> DEFINE fresh == Fresh("instruction", reqs)
             ids == IdsOf("instruction", reqs, fresh, {})
  <1>1. PICK n : Asked(n, "instruction", reqs)
    BY RequestIsAsked
  <1>s. Shapes /\ OwnKind /\ "instruction" \in Placeable
    BY DEF BookInv, TrackInv, TableInv, Placeable, TableKinds
  <1>3. /\ Place("instruction", reqs, ids, fresh, {}, {}, {}) /\ "instruction" \in Kinds
        /\ UNCHANGED <<table, missing>> /\ UNCHANGED <<runVars, notified>>
        /\ stray' = stray \cup NewIds(ids, fresh)
    BY DEF HandleSetInstructionFails, NewIds
  <1>e. Serves("instruction", reqs, {}, ids, fresh)
    BY DEF Serves
  <1> HIDE DEF ids, fresh
  <1>2. /\ Loop(n, fresh, {}) /\ Numbered(n, ids, fresh, {})
        /\ Found("instruction", reqs, ids, fresh) /\ DOMAIN ids = DOMAIN reqs
    BY <1>1, <1>s, <1>e, RequestNumbered
  <1>4. \A id \in Range(ids) \ NewIds(ids, fresh) : origin[id] = "instruction"
    BY <1>s, <1>2, <1>3, FoundAreOwn, Zenon
  <1>5. {} \subseteq Known /\ \A i \in DOMAIN reqs \ fresh : ids[i] \in alive
    BY <1>2 DEF Found
  <1>6. Placed("instruction", Range(ids), NewIds(ids, fresh), {}, {})
    BY <1>s, <1>1, <1>2, <1>3, <1>5, PlaceDoes, Zenon
  <1>7. Requested("instruction", Range(ids), NewIds(ids, fresh), {}, {})
    BY <1>s, <1>3, <1>4, <1>6 DEF Requested
  <1>8. TablesKept("instruction", NewIds(ids, fresh), {})
    BY <1>3 DEF TablesKept
  <1>9. QED
    BY <1>7, <1>8, RequestKeepsBooks, Zenon

\* The table that a request leaves: each key has the breakpoint of its last
\* position, no two keys have the same one, and what it lacks is new and was not last.
Maps(t, keys, ids, fresh) ==
    /\ t \in [Range(keys) -> Nat]
    /\ \A key \in Range(keys) :
          /\ t[key] \in Range(ids)
          /\ \A other \in Range(keys) : t[other] = t[key] => other = key
    /\ \A i \in DOMAIN keys : i \notin fresh \/ i = LastAt(keys, keys[i]) => ids[i] \in Range(t)

LEMMA TableMade ==
    ASSUME Shapes, TableIsAlive, NEW k, k \in Kinds, NEW n, NEW reqs, Asked(n, k, reqs),
           NEW ids, NEW fresh, NEW hints, Loop(n, fresh, hints), Numbered(n, ids, fresh, hints),
           Found(k, reqs, ids, fresh), DOMAIN ids = DOMAIN reqs,
           NEW keys, keys = [i \in DOMAIN reqs |-> reqs[i].key],
           NEW t, t = [key \in Range(keys) |-> ids[LastAt(keys, key)]]
    PROVE  Maps(t, keys, ids, fresh)
  <1>1. n \in Nat /\ DOMAIN reqs = 1 .. n
    BY DEF Asked
  <1>2. \A i \in DOMAIN reqs \ fresh : /\ reqs[i].key \in DOMAIN table[k]
                                       /\ ids[i] = table[k][reqs[i].key]
                                       /\ table[k][reqs[i].key] \in alive
    BY DEF Found
  <1>3. /\ \A i \in fresh : NewId(i, fresh, hints) \in Len(origin) + 1 .. Top(fresh, hints)
        /\ \A i, j \in fresh : NewId(i, fresh, hints) = NewId(j, fresh, hints) => i = j
        /\ Len(origin) \in Nat
    BY Numbering
  <1>4. /\ ids \in [1 .. n -> Nat] /\ fresh \subseteq 1 .. n
        /\ \A i \in fresh : ids[i] = NewId(i, fresh, hints)
    BY DEF Numbered, Loop
  <1>5. /\ \A i \in fresh : ids[i] \notin Known
        /\ \A i \in (1 .. n) \ fresh : ids[i] \in Known
    <2>1. \A i \in fresh : ids[i] \notin Known
      BY <1>3, <1>4 DEF Known
    <2>2. alive \subseteq Known
      BY DEF Shapes
    <2>3. QED
      BY <1>1, <1>2, <2>1, <2>2
  <1>6. DOMAIN keys = 1 .. n /\ \A i \in 1 .. n : keys[i] = reqs[i].key
    BY <1>1
  <1>7. ASSUME NEW i \in 1 .. n, NEW j \in 1 .. n, ids[i] = ids[j] PROVE keys[i] = keys[j]
    <2>1. CASE i \in fresh
      <3>1. j \in fresh
        BY <1>5, <1>7, <2>1
      <3>2. QED
        BY <1>3, <1>4, <1>7, <2>1, <3>1
    <2>2. CASE i \notin fresh
      <3>1. j \notin fresh
        BY <1>5, <1>7, <2>2
      <3>2. /\ keys[i] \in DOMAIN table[k] /\ ids[i] = table[k][keys[i]]
            /\ keys[j] \in DOMAIN table[k] /\ ids[j] = table[k][keys[j]]
        BY <1>1, <1>2, <1>6, <2>2, <3>1
      <3>3. QED
        BY <1>7, <3>2 DEF TableIsAlive
    <2>3. QED
      BY <2>1, <2>2
  <1>8. ASSUME NEW key \in Range(keys)
        PROVE  LastAt(keys, key) \in 1 .. n /\ keys[LastAt(keys, key)] = key
    BY <1>1, <1>6, LastFound
  <1>9. ASSUME NEW key \in Range(keys)
        PROVE  t[key] = ids[LastAt(keys, key)] /\ t[key] \in Nat /\ t[key] \in Range(ids)
    BY <1>4, <1>8 DEF Range
  <1>10. ASSUME NEW key \in Range(keys), NEW other \in Range(keys), t[other] = t[key]
         PROVE  other = key
    BY <1>7, <1>8, <1>9, <1>10
  <1>11. t \in [Range(keys) -> Nat]
    BY <1>9
  <1>12. ASSUME NEW i \in DOMAIN keys, i \notin fresh \/ i = LastAt(keys, keys[i])
         PROVE  ids[i] \in Range(t)
    <2>1. keys[i] \in Range(keys) /\ DOMAIN t = Range(keys)
      BY <1>6 DEF Range
    <2>2. ids[LastAt(keys, keys[i])] = ids[i]
      <3>1. CASE i = LastAt(keys, keys[i])
        BY <3>1
      <3>2. CASE i \notin fresh
        <4>1. PICK j \in 1 .. n : j = LastAt(keys, keys[i]) /\ keys[j] = keys[i]
          BY <1>8, <2>1
        <4>2. /\ keys[i] \in DOMAIN table[k] /\ ids[i] = table[k][keys[i]]
              /\ table[k][keys[i]] \in alive
          BY <1>1, <1>2, <1>6, <3>2
        <4>3. j \notin fresh
          BY <1>1, <1>6, <4>1, <4>2 DEF Found
        <4>4. QED
          BY <1>1, <1>2, <1>6, <4>1, <4>2, <4>3
      <3>3. QED
        BY <1>12, <3>1, <3>2
    <2>3. t[keys[i]] = ids[i]
      BY <1>9, <2>1, <2>2
    <2>4. QED
      BY <2>1, <2>3 DEF Range
  <1>13. QED
    BY <1>9, <1>10, <1>11, <1>12 DEF Maps

\* The four handlers that keep a table keep the books.
LEMMA SetBreakpointsKeepsBooks ==
    ASSUME BookInv, NEW k, NEW reqs \in Requests(Keys), NEW hints \in SUBSET DOMAIN reqs,
           SetBreakpoints(k, reqs, hints)
    PROVE  BookInv'
  <1> DEFINE fresh == Fresh(k, reqs)
             ids == IdsOf(k, reqs, fresh, hints)
             keys == [i \in DOMAIN reqs |-> reqs[i].key]
             gone == Dropped(k, Range(keys))
             t == [key \in Range(keys) |-> ids[LastAt(keys, key)]]
  <1>0. /\ k \in Kinds
        /\ Place(k, reqs, ids, fresh, hints, gone, Forgotten(k, gone))
        /\ table' = [table EXCEPT ![k] = t]
        /\ missing' = {m \in missing : m[1] # k}
        /\ stray' = stray \cup {ids[i] : i \in {j \in fresh : j # LastAt(keys, keys[j])}}
        /\ UNCHANGED <<runVars, notified>>
    BY DEF SetBreakpoints
  <1>1. PICK n : Asked(n, k, reqs)
    BY <1>0, RequestIsAsked, BreakpointsAssumption DEF TableKinds
  <1>s. TableInv /\ Shapes /\ OwnKind /\ TableIsAlive /\ k \in Placeable
    BY <1>0, BreakpointsAssumption DEF BookInv, TrackInv, TableInv, Placeable
  <1>e. Serves(k, reqs, hints, ids, fresh)
    BY DEF Serves
  <1>6. DOMAIN keys = DOMAIN reqs /\ \A i \in DOMAIN reqs : keys[i] = reqs[i].key
    OBVIOUS
  <1>7. /\ gone = {table[k][key] : key \in DOMAIN table[k] \ Range(keys)}
        /\ Forgotten(k, gone) \subseteq gone
        /\ k \in {"source", "exception"} => Forgotten(k, gone) = gone
    BY <1>0, BreakpointsAssumption DEF Dropped, Forgotten, TableKinds
  <1>t. keys = [i \in DOMAIN reqs |-> reqs[i].key] /\ t = [key \in Range(keys) |-> ids[LastAt(keys, key)]]
    OBVIOUS
  <1> HIDE DEF ids, fresh, keys, gone, t
  <1>2. /\ Loop(n, fresh, hints) /\ Numbered(n, ids, fresh, hints)
        /\ Found(k, reqs, ids, fresh) /\ DOMAIN ids = DOMAIN reqs
    BY <1>1, <1>s, <1>e, RequestNumbered
  <1>4. \A id \in Range(ids) \ NewIds(ids, fresh) : origin[id] = k
    BY <1>0, <1>s, <1>2, FoundAreOwn, Zenon
  <1>5. Maps(t, keys, ids, fresh)
    BY <1>0, <1>1, <1>s, <1>t, <1>2, TableMade, Zenon
  <1>k. \A i \in DOMAIN reqs : reqs[i].key \in Keys
    BY RequestShape
  <1>8. gone \subseteq Known /\ \A id \in gone : origin[id] = k
    BY <1>0, <1>s, <1>7 DEF Shapes, OwnKind
  <1>9. Placed(k, Range(ids), NewIds(ids, fresh), gone, Forgotten(k, gone))
    <2>1. \A i \in DOMAIN reqs \ fresh : ids[i] \in alive
      BY <1>2 DEF Found
    <2>2. QED
      BY <1>s, <1>0, <1>1, <1>2, <1>8, <2>1, PlaceDoes, Zenon
  <1>10. gone \cap Range(ids) = {}
    <2>1. OriginsGrow(k, NewIds(ids, fresh)) /\ Len(origin) \in Nat
      BY <1>s, <1>9 DEF Placed, Shapes
    <2>2. \A id \in NewIds(ids, fresh) : id \notin Known
      BY <2>1 DEF OriginsGrow, Known
    <2>3. ASSUME NEW i \in DOMAIN reqs PROVE ids[i] \notin gone
      <3>1. CASE i \in fresh
        BY <1>8, <2>2, <3>1 DEF NewIds
      <3>2. CASE i \notin fresh
        <4>1. /\ keys[i] \in DOMAIN table[k] /\ ids[i] = table[k][keys[i]]
              /\ keys[i] \in Range(keys)
          BY <1>2, <1>6, <3>2 DEF Range, Found
        <4>2. \A key \in DOMAIN table[k] : table[k][key] = table[k][keys[i]] => key = keys[i]
          BY <1>0, <1>s, <4>1 DEF TableIsAlive
        <4>3. QED
          BY <1>7, <4>1, <4>2
      <3>3. QED
        BY <3>1, <3>2
    <2>4. QED
      BY <1>2, <2>3 DEF Range
  <1>11. Requested(k, Range(ids), NewIds(ids, fresh), gone, Forgotten(k, gone))
    BY <1>s, <1>0, <1>4, <1>7, <1>8, <1>9, <1>10 DEF Requested
  <1>12. TableReplaced(k, Range(ids), NewIds(ids, fresh), gone)
    <2>1. Range(keys) \subseteq Keys
      BY <1>k, <1>6 DEF Range
    <2>2. /\ table \in [Kinds -> UNION {[K -> Nat] : K \in SUBSET Keys}]
          /\ table'[k] = t /\ \A j \in Kinds \ {k} : table'[j] = table[j]
          /\ DOMAIN table' = Kinds /\ table' = [j \in Kinds |-> IF j = k THEN t ELSE table[j]]
      BY <1>s, <1>0 DEF Shapes
    <2>3. t \in UNION {[K -> Nat] : K \in SUBSET Keys}
      BY <1>5, <2>1 DEF Maps
    <2>4. table' \in [Kinds -> UNION {[K -> Nat] : K \in SUBSET Keys}]
      BY <2>2, <2>3
    <2>5. Range(table[k]) \cap alive \subseteq Range(ids) \cup gone
      <3> SUFFICES ASSUME NEW key \in DOMAIN table[k], table[k][key] \in alive
                   PROVE  table[k][key] \in Range(ids) \cup gone
        BY DEF Range
      <3>1. CASE key \in Range(keys)
        <4>1. PICK i \in DOMAIN reqs : keys[i] = key
          BY <1>6, <3>1 DEF Range
        <4>2. i \notin fresh
          BY <1>2, <1>6, <4>1 DEF Found
        <4>3. ids[i] = table[k][key]
          BY <1>2, <1>6, <4>1, <4>2 DEF Found
        <4>4. QED
          BY <1>2, <4>3 DEF Range
      <3>2. CASE key \notin Range(keys)
        BY <1>7, <3>2
      <3>3. QED
        BY <3>1, <3>2
    <2>6. Range(ids) \subseteq Range(t) \cup stray'
      <3> SUFFICES ASSUME NEW i \in DOMAIN keys PROVE ids[i] \in Range(t) \/ ids[i] \in stray'
        BY <1>2, <1>6 DEF Range
      <3>1. CASE i \notin fresh \/ i = LastAt(keys, keys[i])
        BY <1>5, <3>1 DEF Maps
      <3>2. CASE i \in fresh /\ i # LastAt(keys, keys[i])
        BY <1>0, <3>2
      <3>3. QED
        BY <3>1, <3>2
    <2>7. stray \subseteq stray' /\ stray' \subseteq stray \cup NewIds(ids, fresh)
      BY <1>0 DEF NewIds
    <2>8. /\ DOMAIN t = Range(keys)
          /\ \A key \in Range(keys) : /\ t[key] \in Range(ids)
                                       /\ \A other \in Range(keys) : t[other] = t[key] => other = key
      BY <1>5 DEF Maps
    <2>9. QED
      BY <1>0, <2>2, <2>4, <2>5, <2>6, <2>7, <2>8 DEF TableReplaced
  <1>13. QED
    BY <1>11, <1>12, RequestKeepsBooks, Zenon

-----------------------------------------------------------------------------
(* Exclusions, hits and the console.                                         *)

\* A step that touches what infos say, and where the debuggee is, keeps the books.
LEMMA TouchKeepsBooks ==
    ASSUME BookInv, UNCHANGED <<lldbVars, table, events, historyVars>>,
           infos' \in [DOMAIN infos -> Info],
           \A id \in DOMAIN infos : infos'[id].kind = infos[id].kind /\ infos'[id].hit_count <= MaxHits,
           hit' \in 0 .. Len(origin), stop' \in 0 .. Len(origin), panicked' \in BOOLEAN
    PROVE  BookInv'
  <1>1. /\ origin' = origin /\ alive' = alive /\ armed' = armed /\ table' = table
        /\ events' = events /\ notified' = notified /\ dropped' = dropped /\ missing' = missing
        /\ conditioned' = conditioned /\ stray' = stray /\ DOMAIN infos' = DOMAIN infos
    BY DEF lldbVars, historyVars
  <1>2. Shapes'
    BY <1>1 DEF BookInv, TrackInv, TableInv, Shapes, Known
  <1>3. OwnKind' /\ TableIsAlive'
    BY <1>1 DEF BookInv, TrackInv, TableInv, OwnKind, TableIsAlive
  <1>4. OwnTracked' /\ RemovedAreDead' /\ CallbackIsTracked'
    BY <1>1 DEF BookInv, TrackInv, OwnTracked, RemovedAreDead, CallbackIsTracked
  <1>5. DroppedAreDead' /\ NewsIsComing' /\ NewOnlyForConsole' /\ QuietRemoval' /\ NoOrphans'
    BY <1>1 DEF BookInv, DroppedAreDead, NewsIsComing, NewOnlyForConsole, QuietRemoval,
                NoOrphans, Orphans, Event
  <1>6. QED
    BY <1>2, <1>3, <1>4, <1>5 DEF BookInv, TrackInv, TableInv

LEMMA ExclusionsKeepBooks ==
    ASSUME BookInv, ExclusionRequests
    PROVE  BookInv'
  <1>s. /\ infos \in [DOMAIN infos -> Info]
        /\ \A id \in DOMAIN infos : infos[id] \in Info /\ infos[id].hit_count <= MaxHits
        /\ hit \in 0 .. Len(origin) /\ stop \in 0 .. Len(origin) /\ panicked \in BOOLEAN
    BY DEF BookInv, TrackInv, TableInv, Shapes
  <1>i. ASSUME NEW info \in Info, NEW x \in SUBSET Symbols
        PROVE  /\ [info EXCEPT !.exclusions = x] \in Info
               /\ [info EXCEPT !.exclusions = x].kind = info.kind
               /\ [info EXCEPT !.exclusions = x].hit_count = info.hit_count
    BY DEF Info
  <1>1. ASSUME NEW symbol \in Symbols, HandleExcludeCaller(symbol) PROVE BookInv'
    <2> DEFINE x == infos[stop].exclusions \cup {symbol}
    <2>1. /\ stop \in DOMAIN infos /\ infos' = [infos EXCEPT ![stop] = [infos[stop] EXCEPT !.exclusions = x]]
          /\ UNCHANGED <<lldbVars, table, events, historyVars>> /\ UNCHANGED runVars
      BY <1>1 DEF HandleExcludeCaller
    <2>2. x \in SUBSET Symbols
      BY <1>s, <2>1 DEF Info
    <2> HIDE DEF x
    <2>3. /\ infos' \in [DOMAIN infos -> Info]
          /\ \A id \in DOMAIN infos : infos'[id].kind = infos[id].kind /\ infos'[id].hit_count <= MaxHits
      BY <1>s, <1>i, <2>1, <2>2
    <2>4. hit' \in 0 .. Len(origin) /\ stop' \in 0 .. Len(origin) /\ panicked' \in BOOLEAN
      BY <1>s, <2>1 DEF runVars
    <2>5. QED
      BY <2>1, <2>3, <2>4, TouchKeepsBooks
  <1>2. ASSUME NEW exclusions \in SUBSET Sites, HandleSetExcludedCallers(exclusions) PROVE BookInv'
    <2> DEFINE x(id) == {e[3] : e \in {y \in exclusions :
                   \/ y[1] = "id" /\ y[2] = id
                   \/ y[1] = "filter" /\ infos[id].kind = "exception" /\ y[2] = infos[id].name}}
    <2>1. /\ infos' = [id \in DOMAIN infos |-> [infos[id] EXCEPT !.exclusions = x(id)]]
          /\ UNCHANGED <<lldbVars, table, events, historyVars>> /\ UNCHANGED runVars
      BY <1>2 DEF HandleSetExcludedCallers
    <2>2. \A id : x(id) \in SUBSET Symbols
      BY DEF Sites
    <2> HIDE DEF x
    <2>3. /\ infos' \in [DOMAIN infos -> Info]
          /\ \A id \in DOMAIN infos : infos'[id].kind = infos[id].kind /\ infos'[id].hit_count <= MaxHits
      <3>1. ASSUME NEW id \in DOMAIN infos
            PROVE  /\ infos'[id] \in Info /\ infos'[id].kind = infos[id].kind
                   /\ infos'[id].hit_count <= MaxHits
        <4>1. infos'[id] = [infos[id] EXCEPT !.exclusions = x(id)]
          BY <2>1
        <4>2. infos[id] \in Info /\ x(id) \in SUBSET Symbols /\ infos[id].hit_count <= MaxHits
          BY <1>s, <2>2
        <4>3. QED
          BY <1>i, <4>1, <4>2
      <3>2. infos' = [id \in DOMAIN infos |-> infos'[id]]
        BY <2>1
      <3>3. QED
        BY <3>1, <3>2
    <2>4. hit' \in 0 .. Len(origin) /\ stop' \in 0 .. Len(origin) /\ panicked' \in BOOLEAN
      BY <1>s, <2>1 DEF runVars
    <2>5. QED
      BY <2>1, <2>3, <2>4, TouchKeepsBooks
  <1>3. QED
    BY <1>1, <1>2 DEF ExclusionRequests

\* What counting a hit makes of an info.
LEMMA CountedIs ==
    ASSUME NEW info \in Info
    PROVE  /\ Counted(info) \in Info
           /\ Counted(info).kind = info.kind /\ Counted(info).hit = info.hit /\ Counted(info).log = info.log
           /\ Counted(info).native = info.native
           /\ Counted(info).hit_count = info.hit_count + 1 /\ Counted(info).passed = info.passed + 1
           /\ Counted(info).stops = IF Stops(info) THEN info.stops + 1 ELSE info.stops
  <1> DEFINE n == IF Stops(info) THEN info.stops + 1 ELSE info.stops
  <1>1. info.hit_count \in Nat /\ info.passed \in Nat /\ info.stops \in Nat
    BY DEF Info
  <1>2. n \in Nat /\ info.hit_count + 1 \in Nat /\ info.passed + 1 \in Nat
    BY <1>1
  <1>3. Counted(info) = [info EXCEPT !.hit_count = info.hit_count + 1, !.passed = info.passed + 1, !.stops = n]
    BY DEF Counted
  <1> HIDE DEF n
  <1>4. /\ Counted(info) \in Info
        /\ Counted(info).kind = info.kind /\ Counted(info).hit = info.hit /\ Counted(info).log = info.log
        /\ Counted(info).native = info.native
        /\ Counted(info).hit_count = info.hit_count + 1 /\ Counted(info).passed = info.passed + 1
        /\ Counted(info).stops = n
    BY <1>2, <1>3 DEF Info
  <1>5. QED
    BY <1>4 DEF n

\* The two outcomes of a hit that counts: one of them is the panic of "%0".
LEMMA HitCountedDoes ==
    ASSUME NEW onStack, NEW condition,
           HitCounted(onStack, condition) \/ HitDividesByZero(onStack, condition)
    PROVE  /\ hit \in DOMAIN infos /\ infos[hit].hit_count < MaxHits
           /\ infos' = [infos EXCEPT ![hit] = Counted(infos[hit])]
           /\ stop' \in {hit, stop, None} /\ hit' \in {hit, None} /\ panicked' \in {panicked, TRUE}
           /\ UNCHANGED <<lldbVars, table, events, historyVars>>
  <1>1. CASE HitCounted(onStack, condition)
    <2>1. /\ hit \in DOMAIN infos /\ infos[hit].hit_count < MaxHits
          /\ hit' = None /\ panicked' = panicked
          /\ UNCHANGED <<lldbVars, table, events, historyVars>>
      BY <1>1 DEF HitCounted
    <2>2. stop' = IF Stops(infos[hit]) THEN hit ELSE None
      BY <1>1 DEF HitCounted
    <2>3. infos' = [infos EXCEPT ![hit] = Counted(infos[hit])]
      BY <1>1 DEF HitCounted
    <2>4. QED
      BY <2>1, <2>2, <2>3
  <1>2. CASE HitDividesByZero(onStack, condition)
    <2>1. /\ hit \in DOMAIN infos /\ infos[hit].hit_count < MaxHits
          /\ hit' = hit /\ stop' = stop /\ panicked' = TRUE
          /\ UNCHANGED <<lldbVars, table, events, historyVars>>
      BY <1>2 DEF HitDividesByZero
    <2>2. infos' = [infos EXCEPT ![hit] = Counted(infos[hit])]
      BY <1>2 DEF HitDividesByZero
    <2>3. QED
      BY <2>1, <2>2
  <1>3. QED
    BY <1>1, <1>2

LEMMA HitAdded ==
    ASSUME NEW info \in Info
    PROVE  LET more == [info EXCEPT !.passed = info.passed + 1]
           IN  more \in Info /\ more.kind = info.kind /\ more.hit_count = info.hit_count
  <1>1. info.passed \in Nat
    BY DEF Info
  <1>2. info.passed + 1 \in Nat
    BY <1>1
  <1>3. QED
    BY <1>2 DEF Info

LEMMA HitWithheldDoes ==
    ASSUME NEW id, NEW onStack, NEW condition, HitWithheld(id, onStack, condition)
    PROVE  /\ id \in conditioned /\ id \in DOMAIN infos /\ ~infos[id].native
           /\ infos' = [infos EXCEPT ![id] = [infos[id] EXCEPT !.passed = infos[id].passed + 1]]
           /\ UNCHANGED <<lldbVars, table, events, runVars, historyVars>>
  <1>1. /\ id \in conditioned /\ id \in DOMAIN infos /\ ~infos[id].native
        /\ UNCHANGED <<lldbVars, table, events, runVars, historyVars>>
    BY DEF HitWithheld
  <1>2. infos' = [infos EXCEPT ![id].passed = @ + 1]
    BY DEF HitWithheld
  <1>3. QED
    BY <1>1, <1>2

LEMMA HitsKeepBooks ==
    ASSUME BookInv, \/ \E id \in Ids : Hit(id)
                    \/ \E id, onStack, condition : HitWithheld(id, onStack, condition)
                    \/ OnBreakpointHit \/ Continue
    PROVE  BookInv'
  <1>s. /\ infos \in [DOMAIN infos -> Info] /\ Len(origin) \in Nat
        /\ \A id \in DOMAIN infos : infos[id] \in Info /\ infos[id].hit_count <= MaxHits
        /\ hit \in 0 .. Len(origin) /\ stop \in 0 .. Len(origin) /\ panicked \in BOOLEAN
        /\ alive \subseteq 1 .. Len(origin)
    BY DEF BookInv, TrackInv, TableInv, Shapes, Known
  <1>1. ASSUME infos' = infos, hit' \in {None, hit} \cup alive, stop' \in {None, stop, hit} \cup alive,
               panicked' \in BOOLEAN, UNCHANGED <<lldbVars, table, events, historyVars>>
        PROVE  BookInv'
    <2>1. hit' \in 0 .. Len(origin) /\ stop' \in 0 .. Len(origin)
      BY <1>s, <1>1 DEF None
    <2>2. QED
      BY <1>s, <1>1, <2>1, TouchKeepsBooks
  <1>2. ASSUME NEW id \in Ids, Hit(id) PROVE BookInv'
    <2>1. /\ infos' = infos /\ hit' \in {None, hit} \cup alive /\ stop' \in {None, stop, hit} \cup alive
          /\ panicked' = panicked /\ UNCHANGED <<lldbVars, table, events, historyVars>>
      BY <1>2 DEF Hit
    <2>2. QED
      BY <1>s, <1>1, <2>1
  <1>3. ASSUME Continue PROVE BookInv'
    BY <1>s, <1>1, <1>3 DEF Continue
  <1>4. ASSUME HitUntracked PROVE BookInv'
    BY <1>s, <1>1, <1>4 DEF HitUntracked
  <1>5. ASSUME NEW onStack \in SUBSET Symbols, NEW condition, HitSkipped(onStack, condition)
        PROVE  BookInv'
    BY <1>s, <1>1, <1>5 DEF HitSkipped
  <1>6. ASSUME NEW onStack \in SUBSET Symbols, NEW condition, HitConditionError(onStack, condition)
        PROVE  BookInv'
    BY <1>s, <1>1, <1>6 DEF HitConditionError
  <1>7. ASSUME NEW id, NEW onStack, NEW condition, HitWithheld(id, onStack, condition)
        PROVE  BookInv'
    <2>1. /\ id \in DOMAIN infos
          /\ infos' = [infos EXCEPT ![id] = [infos[id] EXCEPT !.passed = infos[id].passed + 1]]
          /\ UNCHANGED <<lldbVars, table, events, historyVars>> /\ UNCHANGED runVars
      BY <1>7, HitWithheldDoes
    <2> DEFINE info == [infos[id] EXCEPT !.passed = infos[id].passed + 1]
    <2>2. infos[id] \in Info
      BY <1>s, <2>1
    <2>3. info \in Info /\ info.kind = infos[id].kind /\ info.hit_count = infos[id].hit_count
      BY <2>2, HitAdded
    <2> HIDE DEF info
    <2>4. infos' = [infos EXCEPT ![id] = info]
      BY <2>1 DEF info
    <2>5. /\ infos' \in [DOMAIN infos -> Info]
          /\ \A i \in DOMAIN infos : infos'[i].kind = infos[i].kind /\ infos'[i].hit_count <= MaxHits
      BY <1>s, <2>1, <2>3, <2>4
    <2>6. hit' \in 0 .. Len(origin) /\ stop' \in 0 .. Len(origin) /\ panicked' \in BOOLEAN
      BY <1>s, <2>1 DEF runVars
    <2>7. QED
      BY <2>1, <2>5, <2>6, TouchKeepsBooks
  <1>8. ASSUME NEW onStack \in SUBSET Symbols, NEW condition,
               HitCounted(onStack, condition) \/ HitDividesByZero(onStack, condition)
        PROVE  BookInv'
    <2>1. /\ hit \in DOMAIN infos /\ infos[hit].hit_count < MaxHits
          /\ infos' = [infos EXCEPT ![hit] = Counted(infos[hit])]
          /\ stop' \in {hit, stop, None} /\ hit' \in {hit, None} /\ panicked' \in {panicked, TRUE}
          /\ UNCHANGED <<lldbVars, table, events, historyVars>>
      BY <1>8, HitCountedDoes
    <2>2. infos[hit] \in Info
      BY <1>s, <2>1
    <2>3. /\ Counted(infos[hit]) \in Info /\ Counted(infos[hit]).kind = infos[hit].kind
          /\ Counted(infos[hit]).hit_count = infos[hit].hit_count + 1
          /\ infos[hit].hit_count \in Nat
      BY <2>2, CountedIs DEF Info
    <2>h. Counted(infos[hit]).hit_count <= MaxHits
      BY <2>1, <2>3, BreakpointsAssumption
    <2>4. /\ infos' \in [DOMAIN infos -> Info]
          /\ \A id \in DOMAIN infos : infos'[id].kind = infos[id].kind /\ infos'[id].hit_count <= MaxHits
      BY <1>s, <2>1, <2>3, <2>h
    <2>5. hit' \in 0 .. Len(origin) /\ stop' \in 0 .. Len(origin) /\ panicked' \in BOOLEAN
      <3>1. panicked' \in BOOLEAN
        BY <1>s, <2>1, Zenon
      <3>2. QED
        BY <1>s, <2>1, <3>1 DEF None
    <2>6. QED
      BY <2>1, <2>4, <2>5, TouchKeepsBooks
  <1>9. QED
    BY <1>2, <1>3, <1>4, <1>5, <1>6, <1>7, <1>8 DEF OnBreakpointHit

LEMMA ConsoleCreateKeepsBooks ==
    ASSUME BookInv, ConsoleCreate
    PROVE  BookInv'
  <1> DEFINE id == Len(origin) + 1
  <1>s. /\ Shapes /\ OwnKind /\ TableIsAlive /\ OwnTracked /\ RemovedAreDead /\ CallbackIsTracked
        /\ DroppedAreDead /\ NewsIsComing /\ NewOnlyForConsole /\ QuietRemoval /\ NoOrphans
    BY DEF BookInv, TrackInv, TableInv
  <1>1. /\ origin' = Append(origin, "console") /\ alive' = alive \cup {id}
        /\ events' = Append(events, Event("added", id)) /\ Len(origin) < MaxIds
        /\ armed' = armed /\ table' = table /\ infos' = infos
        /\ hit' = hit /\ stop' = stop /\ panicked' = panicked
        /\ notified' = notified /\ dropped' = dropped /\ missing' = missing
        /\ conditioned' = conditioned /\ stray' = stray
    BY DEF ConsoleCreate, runVars, historyVars
  <1>2. /\ origin' \in Seq(Origins) /\ Len(origin) \in Nat /\ Len(origin') = id /\ origin'[id] = "console"
        /\ \A i \in Known : origin'[i] = origin[i]
    <2>1. origin \in Seq(Origins) /\ "console" \in Origins
      BY <1>s DEF Shapes, Origins
    <2>2. QED
      BY <1>1, <2>1 DEF Known
  <1>3. Known \subseteq Known' /\ id \in Known' /\ id \notin Known
    BY <1>2 DEF Known
  <1>4. /\ events' \in Seq(Events) /\ Range(events') = Range(events) \cup {Event("added", id)}
        /\ Event("added", id).id = id /\ Event("added", id).type # "removed"
    <2>1. events \in Seq(Events) /\ Event("added", id) \in Events
      BY <1>s, <1>2 DEF Shapes, Event, Events
    <2>2. Range(Append(events, Event("added", id))) = Range(events) \cup {Event("added", id)}
      BY <2>1, RangeAppend
    <2>3. QED
      BY <1>1, <2>1, <2>2 DEF Event
  <1>5. Shapes'
    <2>1. Len(origin') <= MaxIds
      BY <1>1, <1>2, BreakpointsAssumption
    <2>2. /\ alive' \subseteq Known' /\ armed' \subseteq Known' /\ dropped' \subseteq Known'
          /\ DOMAIN infos' \subseteq Known' /\ conditioned' \subseteq Known' /\ stray' \subseteq Known'
      BY <1>s, <1>1, <1>3 DEF Shapes
    <2>3. \A k \in Kinds : \A key \in DOMAIN table'[k] : table'[k][key] \in Known'
      BY <1>s, <1>1, <1>3 DEF Shapes
    <2>4. \A e \in Range(events') : e.id \in Known'
      BY <1>s, <1>3, <1>4 DEF Shapes
    <2>5. hit' \in 0 .. Len(origin') /\ stop' \in 0 .. Len(origin')
      BY <1>s, <1>1, <1>2 DEF Shapes
    <2>6. notified' \subseteq [reason : {"new", "changed", "removed"}, id : Known']
      <3>1. notified \subseteq [reason : {"new", "changed", "removed"}, id : Known]
        BY <1>s DEF Shapes
      <3>2. QED
        BY <1>1, <1>3, <3>1
    <2>7. /\ table' \in [Kinds -> UNION {[K -> Nat] : K \in SUBSET Keys}]
          /\ infos' \in [DOMAIN infos' -> Info] /\ panicked' \in BOOLEAN /\ missing' \subseteq Kinds \X Keys
          /\ \A i \in DOMAIN infos' : infos'[i].hit_count <= MaxHits
      BY <1>s, <1>1 DEF Shapes
    <2>8. QED
      BY <1>2, <1>4, <2>1, <2>2, <2>3, <2>4, <2>5, <2>6, <2>7 DEF Shapes
  <1>k. /\ \A k \in Kinds : \A key \in DOMAIN table[k] : table[k][key] \in Known
        /\ DOMAIN infos \subseteq Known /\ alive \subseteq Known /\ armed \subseteq Known
        /\ dropped \subseteq Known /\ \A e \in Range(events) : e.id \in Known
        /\ \A n \in notified : n.id \in Known
    BY <1>s DEF Shapes
  <1> HIDE DEF id
  <1>6. OwnKind' /\ TableIsAlive'
    BY <1>s, <1>1, <1>2, <1>k DEF OwnKind, TableIsAlive
  <1>7. OwnTracked'
    BY <1>s, <1>1, <1>2, <1>k DEF OwnTracked
  <1>8. RemovedAreDead'
    BY <1>s, <1>1, <1>3, <1>4, <1>k DEF RemovedAreDead
  <1>9. CallbackIsTracked'
    BY <1>s, <1>1, <1>3, <1>k DEF CallbackIsTracked
  <1>10. DroppedAreDead'
    BY <1>s, <1>1, <1>2, <1>3, <1>k DEF DroppedAreDead
  <1>11. NewsIsComing'
    <2>1. ASSUME ~Lossy, NEW i \in alive' \ DOMAIN infos' PROVE Event("added", i) \in Range(events')
      BY <1>s, <1>1, <1>4, <2>1 DEF NewsIsComing
    <2>2. ASSUME ~Lossy, NEW i \in DOMAIN infos' \ alive' PROVE Event("removed", i) \in Range(events')
      BY <1>s, <1>1, <1>4, <2>2 DEF NewsIsComing
    <2>3. QED
      BY <2>1, <2>2 DEF NewsIsComing, Event
  <1>12. NewOnlyForConsole' /\ QuietRemoval'
    BY <1>s, <1>1, <1>2, <1>k DEF NewOnlyForConsole, QuietRemoval
  <1>13. NoOrphans'
    <2>1. "console" \notin Kinds
      BY BreakpointsAssumption DEF TableKinds
    <2>2. \A i \in alive : i \in Known /\ origin'[i] = origin[i]
      BY <1>2, <1>k
    <2>3. Orphans' \subseteq Orphans
      BY <1>1, <1>2, <2>1, <2>2 DEF Orphans
    <2>4. QED
      BY <1>s, <1>1, <2>3 DEF NoOrphans
  <1>14. QED
    BY <1>5, <1>6, <1>7, <1>8, <1>9, <1>10, <1>11, <1>12, <1>13 DEF BookInv, TrackInv, TableInv

\* A step that creates no breakpoint, as far as the shapes of the state go.
LEMMA ShapesKept ==
    ASSUME Shapes, UNCHANGED <<origin, conditioned, table, runVars, dropped, stray>>, alive' \subseteq alive,
           armed' \subseteq armed, infos' \in [DOMAIN infos' -> Info], DOMAIN infos' \subseteq Known,
           \A id \in DOMAIN infos' : infos'[id].hit_count <= MaxHits,
           events' \in Seq(Events), \A e \in Range(events') : e.id \in Known,
           notified' \subseteq [reason : {"new", "changed", "removed"}, id : Known],
           missing' \subseteq Kinds \X Keys
    PROVE  Shapes'
  <1>1. /\ origin' = origin /\ table' = table /\ dropped' = dropped /\ Known' = Known
        /\ conditioned' = conditioned /\ stray' = stray
        /\ hit' = hit /\ stop' = stop /\ panicked' = panicked
    BY DEF runVars, Known
  <1>2. QED
    BY <1>1 DEF Shapes

LEMMA ConsoleDeleteKeepsBooks ==
    ASSUME BookInv, NEW id, ConsoleDelete(id)
    PROVE  BookInv'
  <1>s. /\ Shapes /\ OwnKind /\ TableIsAlive /\ OwnTracked /\ RemovedAreDead /\ CallbackIsTracked
        /\ DroppedAreDead /\ NewsIsComing /\ NewOnlyForConsole /\ QuietRemoval /\ NoOrphans
    BY DEF BookInv, TrackInv, TableInv
  <1>1. /\ id \in alive /\ alive' = alive \ {id} /\ events' = Append(events, Event("removed", id))
        /\ missing' = missing \cup
              {m \in Kinds \X Keys : m[2] \in DOMAIN table[m[1]] /\ table[m[1]][m[2]] = id}
        /\ UNCHANGED <<origin, conditioned, table, runVars, dropped, stray>>
        /\ origin' = origin /\ armed' = armed /\ table' = table /\ infos' = infos
        /\ notified' = notified /\ dropped' = dropped
    BY DEF ConsoleDelete
  <1>2. id \in Known /\ id \in Nat
    BY <1>s, <1>1 DEF Shapes, Known
  <1>4. /\ events' \in Seq(Events) /\ Range(events') = Range(events) \cup {Event("removed", id)}
        /\ Event("removed", id).id = id
    <2>1. events \in Seq(Events) /\ Event("removed", id) \in Events
      BY <1>s, <1>2 DEF Shapes, Event, Events
    <2>2. Range(Append(events, Event("removed", id))) = Range(events) \cup {Event("removed", id)}
      BY <2>1, RangeAppend
    <2>3. QED
      BY <1>1, <2>1, <2>2 DEF Event
  <1>5. Shapes'
    <2>1. alive' \subseteq alive /\ armed' \subseteq armed /\ missing' \subseteq Kinds \X Keys
      BY <1>s, <1>1 DEF Shapes
    <2>2. \A e \in Range(events') : e.id \in Known
      BY <1>s, <1>2, <1>4 DEF Shapes
    <2>3. /\ infos' \in [DOMAIN infos' -> Info] /\ DOMAIN infos' \subseteq Known
          /\ \A i \in DOMAIN infos' : infos'[i].hit_count <= MaxHits
          /\ notified' \subseteq [reason : {"new", "changed", "removed"}, id : Known]
      BY <1>s, <1>1 DEF Shapes
    <2>4. QED
      BY <1>s, <1>1, <1>4, <2>1, <2>2, <2>3, ShapesKept
  <1>6. OwnKind'
    BY <1>s, <1>1 DEF OwnKind
  <1>7. TableIsAlive'
    <2>1. ASSUME NEW k \in Kinds, NEW key \in DOMAIN table[k]
          PROVE  table[k][key] \in alive' \/ <<k, key>> \in missing'
      <3>1. CASE table[k][key] = id
        <4>1. key \in Keys
          BY <1>s DEF Shapes
        <4>2. <<k, key>> \in missing'
          BY <1>1, <3>1, <4>1
        <4>3. QED
          BY <4>2
      <3>2. CASE table[k][key] # id
        BY <1>s, <1>1, <3>2 DEF TableIsAlive
      <3>3. QED
        BY <3>1, <3>2
    <2>2. ASSUME NEW k \in Kinds, NEW key \in DOMAIN table[k], NEW other \in DOMAIN table[k],
                 table[k][other] = table[k][key]
          PROVE  other = key
      BY <1>s, <2>2 DEF TableIsAlive
    <2>3. table' = table
      BY <1>1
    <2>4. QED
      BY <2>1, <2>2, <2>3 DEF TableIsAlive
  <1>8. OwnTracked' /\ CallbackIsTracked' /\ DroppedAreDead'
    BY <1>s, <1>1 DEF OwnTracked, CallbackIsTracked, DroppedAreDead
  <1>9. RemovedAreDead'
    BY <1>s, <1>1, <1>4 DEF RemovedAreDead
  <1>11. NewsIsComing'
    <2>1. ASSUME ~Lossy, NEW i \in alive' \ DOMAIN infos' PROVE Event("added", i) \in Range(events')
      BY <1>s, <1>1, <1>4, <2>1 DEF NewsIsComing
    <2>2. ASSUME ~Lossy, NEW i \in DOMAIN infos' \ alive' PROVE Event("removed", i) \in Range(events')
      BY <1>s, <1>1, <1>4, <2>2 DEF NewsIsComing
    <2>3. QED
      BY <2>1, <2>2 DEF NewsIsComing, Event
  <1>12. NewOnlyForConsole' /\ QuietRemoval'
    BY <1>s, <1>1 DEF NewOnlyForConsole, QuietRemoval
  <1>13. NoOrphans'
    BY <1>s, <1>1 DEF NoOrphans, Orphans
  <1>14. QED
    BY <1>5, <1>6, <1>7, <1>8, <1>9, <1>11, <1>12, <1>13 DEF BookInv, TrackInv, TableInv

-----------------------------------------------------------------------------
(* Events.                                                                   *)

\* A step that moves events and infos but no breakpoint.  It announces as new what
\* the console made, as removed what is gone and was not deleted silently.
News ==
    /\ UNCHANGED <<origin, conditioned, table, runVars, dropped, stray>> /\ alive' = alive /\ missing' = missing
    /\ armed' \subseteq armed
    /\ infos' \in [DOMAIN infos' -> Info]
    /\ DOMAIN infos' \subseteq DOMAIN infos \cup alive /\ alive \cap DOMAIN infos \subseteq DOMAIN infos'
    /\ \A id \in DOMAIN infos' : infos'[id].hit_count <= MaxHits
                                 /\ (infos'[id].kind = "exception" => origin[id] = "exception")
    /\ events' \in Seq(Events)
    /\ \A e \in Range(events') : e \in Range(events) \/ (e.id \in Known /\ e.type # "removed")
    /\ notified' \subseteq [reason : {"new", "changed", "removed"}, id : Known]
    /\ \A m \in notified' \ notified :
          /\ m.reason = "new" => origin[m.id] = "console"
          /\ m.reason = "removed" => /\ m.id \notin alive
                                     /\ m.id \in dropped => origin[m.id] \notin {"source", "exception"}

LEMMA NewsKeepsBooks ==
    ASSUME BookInv, News, NewsIsComing'
    PROVE  BookInv'
  <1>s. /\ Shapes /\ OwnKind /\ TableIsAlive /\ OwnTracked /\ RemovedAreDead /\ CallbackIsTracked
        /\ DroppedAreDead /\ NewOnlyForConsole /\ QuietRemoval /\ NoOrphans
    BY DEF BookInv, TrackInv, TableInv
  <1>1. /\ UNCHANGED <<origin, conditioned, table, runVars, dropped, stray>> /\ armed' \subseteq armed
        /\ origin' = origin /\ alive' = alive /\ table' = table /\ dropped' = dropped /\ missing' = missing
        /\ infos' \in [DOMAIN infos' -> Info]
        /\ DOMAIN infos' \subseteq DOMAIN infos \cup alive /\ alive \cap DOMAIN infos \subseteq DOMAIN infos'
        /\ \A id \in DOMAIN infos' : infos'[id].hit_count <= MaxHits
        /\ notified' \subseteq [reason : {"new", "changed", "removed"}, id : Known]
        /\ events' \in Seq(Events)
    BY DEF News
  <1>2. \A id \in DOMAIN infos' : infos'[id].kind = "exception" => origin[id] = "exception"
    BY DEF News
  <1>3. \A e \in Range(events') : e \in Range(events) \/ (e.id \in Known /\ e.type # "removed")
    BY DEF News
  <1>4. \A m \in notified' \ notified :
          /\ m.reason = "new" => origin[m.id] = "console"
          /\ m.reason = "removed" => /\ m.id \notin alive
                                     /\ m.id \in dropped => origin[m.id] \notin {"source", "exception"}
    BY DEF News
  <1>5. Shapes'
    <2>1. alive' \subseteq alive /\ missing' \subseteq Kinds \X Keys /\ DOMAIN infos' \subseteq Known
      BY <1>s, <1>1 DEF Shapes
    <2>2. \A e \in Range(events') : e.id \in Known
      BY <1>s, <1>3 DEF Shapes
    <2>3. QED
      BY <1>s, <1>1, <2>1, <2>2, ShapesKept
  <1>6. OwnKind' /\ TableIsAlive'
    BY <1>s, <1>1, <1>2 DEF OwnKind, TableIsAlive
  <1>7. OwnTracked' /\ CallbackIsTracked'
    BY <1>s, <1>1 DEF OwnTracked, CallbackIsTracked
  <1>8. RemovedAreDead'
    BY <1>s, <1>1, <1>3, <1>4 DEF RemovedAreDead
  <1>9. DroppedAreDead'
    BY <1>s, <1>1 DEF DroppedAreDead
  <1>10. NewOnlyForConsole'
    BY <1>s, <1>1, <1>4 DEF NewOnlyForConsole
  <1>11. QuietRemoval'
    BY <1>s, <1>1, <1>4 DEF QuietRemoval
  <1>12. NoOrphans'
    BY <1>s, <1>1 DEF NoOrphans, Orphans
  <1>13. QED
    BY <1>5, <1>6, <1>7, <1>8, <1>9, <1>10, <1>11, <1>12 DEF BookInv, TrackInv, TableInv

LEMMA ResolvedKeepsBooks ==
    ASSUME BookInv, NEW id, LocationsResolved(id)
    PROVE  BookInv'
  <1>s. /\ Shapes /\ OwnKind /\ NewsIsComing
    BY DEF BookInv, TrackInv, TableInv
  <1>1. /\ id \in alive /\ events' = Append(events, Event("resolved", id))
        /\ UNCHANGED <<origin, conditioned, table, runVars, dropped, stray>>
        /\ alive' = alive /\ missing' = missing /\ armed' = armed /\ infos' = infos /\ notified' = notified
    BY DEF LocationsResolved, lldbVars, historyVars
  <1>2. id \in Known /\ id \in Nat
    BY <1>s, <1>1 DEF Shapes, Known
  <1>4. /\ events' \in Seq(Events) /\ Range(events') = Range(events) \cup {Event("resolved", id)}
        /\ Event("resolved", id).id = id /\ Event("resolved", id).type # "removed"
    <2>1. events \in Seq(Events) /\ Event("resolved", id) \in Events
      BY <1>s, <1>2 DEF Shapes, Event, Events
    <2>2. Range(Append(events, Event("resolved", id))) = Range(events) \cup {Event("resolved", id)}
      BY <2>1, RangeAppend
    <2>3. QED
      BY <1>1, <2>1, <2>2 DEF Event
  <1>5. News
    <2>1. /\ infos' \in [DOMAIN infos' -> Info]
          /\ \A i \in DOMAIN infos' : infos'[i].hit_count <= MaxHits
          /\ notified' \subseteq [reason : {"new", "changed", "removed"}, id : Known]
      BY <1>s, <1>1 DEF Shapes
    <2>2. \A i \in DOMAIN infos' : infos'[i].kind = "exception" => origin[i] = "exception"
      BY <1>s, <1>1 DEF OwnKind
    <2>3. QED
      BY <1>1, <1>2, <1>4, <2>1, <2>2 DEF News
  <1>6. NewsIsComing'
    BY <1>s, <1>1, <1>4 DEF NewsIsComing, Event
  <1>7. QED
    BY <1>5, <1>6, NewsKeepsBooks

\* Taking the first event from the queue.
LEMMA EventTaken ==
    ASSUME Shapes, events # <<>>, events' = Tail(events)
    PROVE  /\ Head(events) \in Events /\ Head(events).id \in Known
           /\ events' \in Seq(Events) /\ Range(events) = Range(events') \cup {Head(events)}
  <1>1. events \in Seq(Events) /\ \A e \in Range(events) : e.id \in Known
    BY DEF Shapes
  <1>2. /\ Head(events) \in Events /\ Tail(events) \in Seq(Events)
        /\ Range(events) = Range(Tail(events)) \cup {Head(events)}
    BY <1>1, RangeHeadTail
  <1>3. QED
    BY <1>1, <1>2

LEMMA LossKeepsBooks ==
    ASSUME BookInv, EventLost
    PROVE  BookInv'
  <1>s. /\ Shapes /\ OwnKind
    BY DEF BookInv, TrackInv, TableInv
  <1>1. /\ Lossy /\ events # <<>> /\ events' = Tail(events)
        /\ UNCHANGED <<origin, conditioned, table, runVars, dropped, stray>>
        /\ alive' = alive /\ missing' = missing /\ armed' = armed /\ infos' = infos /\ notified' = notified
    BY DEF EventLost, lldbVars, historyVars
  <1>2. events' \in Seq(Events) /\ Range(events) = Range(events') \cup {Head(events)}
    BY <1>s, <1>1, EventTaken
  <1>3. News
    <2>1. /\ infos' \in [DOMAIN infos' -> Info]
          /\ \A i \in DOMAIN infos' : infos'[i].hit_count <= MaxHits
          /\ notified' \subseteq [reason : {"new", "changed", "removed"}, id : Known]
      BY <1>s, <1>1 DEF Shapes
    <2>2. \A i \in DOMAIN infos' : infos'[i].kind = "exception" => origin[i] = "exception"
      BY <1>s, <1>1 DEF OwnKind
    <2>3. QED
      BY <1>1, <1>2, <2>1, <2>2 DEF News
  <1>4. NewsIsComing'
    BY <1>1 DEF NewsIsComing
  <1>5. QED
    BY <1>3, <1>4, NewsKeepsBooks

LEMMA EventKeepsBooks ==
    ASSUME BookInv, HandleBreakpointEvent
    PROVE  BookInv'
  <1> DEFINE e == Head(events)
             id == e.id
             said(reason) == [reason |-> reason, id |-> id]
  <1>s. /\ Shapes /\ OwnKind /\ OwnTracked /\ RemovedAreDead /\ DroppedAreDead /\ NewsIsComing
    BY DEF BookInv, TrackInv, TableInv
  <1>1. /\ events # <<>> /\ events' = Tail(events)
        /\ UNCHANGED <<origin, conditioned, table, runVars, dropped, stray>> /\ alive' = alive /\ missing' = missing
        /\ \/ e.type = "added" /\ HandleAdded(id)
           \/ e.type = "resolved" /\ HandleResolved(id)
           \/ e.type = "removed" /\ HandleRemoved(id)
    BY DEF HandleBreakpointEvent
  <1>2. /\ e \in Events /\ id \in Known /\ events' \in Seq(Events)
        /\ Range(events) = Range(events') \cup {e}
    BY <1>s, <1>1, EventTaken
  <1>3. /\ infos \in [DOMAIN infos -> Info] /\ DOMAIN infos \subseteq Known
        /\ \A i \in DOMAIN infos : /\ infos[i].hit_count <= MaxHits
                                   /\ infos[i].kind = "exception" => origin[i] = "exception"
        /\ notified \subseteq [reason : {"new", "changed", "removed"}, id : Known]
    BY <1>s DEF Shapes, OwnKind
  <1>4. /\ \A reason \in {"new", "changed", "removed"} :
              /\ said(reason) \in [reason : {"new", "changed", "removed"}, id : Known]
              /\ said(reason).reason = reason /\ said(reason).id = id
        /\ \A i : /\ Event("added", i).id = i /\ Event("removed", i).id = i
                  /\ Event("added", i).type = "added" /\ Event("removed", i).type = "removed"
    BY <1>2 DEF Event
  <1>n. \A reason : Notify(reason, id) => notified' = {said(reason)}
    BY DEF Notify
  <1> HIDE DEF e, id, said
  <1>f. id = e.id
    BY DEF id
  <1>5. CASE e.type = "added" /\ HandleAdded(id)
    <2>1. CASE IsNews(id)
      <3>1. /\ notified' = {said("new")} /\ armed' = armed
            /\ id \notin DOMAIN infos /\ id \in alive
        BY <1>5, <1>n, <2>1 DEF HandleAdded, IsNews
      <3>2. /\ MakeBpInfo(id, "source", "", Plain) \in Info
            /\ MakeBpInfo(id, "source", "", Plain).kind = "source"
            /\ MakeBpInfo(id, "source", "", Plain).hit_count = 0
        BY DEF MakeBpInfo, Plain, NoHitCondition, Info, Conditions, Operators, TableKinds
      <3>3. infos' = [i \in DOMAIN infos \cup {id} |->
                         IF i = id THEN MakeBpInfo(id, "source", "", Plain) ELSE infos[i]]
        BY <1>5, <2>1 DEF HandleAdded
      <3>4. /\ infos' \in [DOMAIN infos' -> Info] /\ DOMAIN infos' = DOMAIN infos \cup {id}
            /\ \A i \in DOMAIN infos' : /\ infos'[i].hit_count <= MaxHits
                                        /\ infos'[i].kind = "exception" => origin[i] = "exception"
        <4>1. 0 <= MaxHits
          BY BreakpointsAssumption
        <4>2. DOMAIN infos' = DOMAIN infos \cup {id}
          BY <3>3
        <4>3. ASSUME NEW i \in DOMAIN infos'
              PROVE  /\ infos'[i] \in Info /\ infos'[i].hit_count <= MaxHits
                     /\ infos'[i].kind = "exception" => origin[i] = "exception"
          <5>1. CASE i = id
            BY <3>2, <3>3, <4>1, <4>2, <5>1
          <5>2. CASE i # id
            <6>1. i \in DOMAIN infos /\ infos'[i] = infos[i]
              BY <3>3, <4>2, <5>2
            <6>2. QED
              BY <1>3, <6>1
          <5>3. QED
            BY <5>1, <5>2
        <4>4. infos' = [i \in DOMAIN infos' |-> infos'[i]]
          BY <3>3
        <4>5. QED
          BY <4>2, <4>3, <4>4
      <3>5. origin[id] = "console"
        BY <1>s, <3>1 DEF OwnTracked
      <3>6. News
        BY <1>1, <1>2, <1>3, <1>4, <3>1, <3>4, <3>5 DEF News
      <3>7. NewsIsComing'
        <4>1. ASSUME ~Lossy, NEW i \in alive \ DOMAIN infos' PROVE Event("added", i) \in Range(events')
          BY <1>s, <1>2, <1>4, <1>f, <3>4, <4>1 DEF NewsIsComing
        <4>2. ASSUME ~Lossy, NEW i \in DOMAIN infos' \ alive PROVE Event("removed", i) \in Range(events')
          BY <1>s, <1>2, <1>4, <1>5, <3>1, <3>4, <4>2 DEF NewsIsComing
        <4>3. QED
          BY <1>1, <4>1, <4>2 DEF NewsIsComing, Event
      <3>8. QED
        BY <3>6, <3>7, NewsKeepsBooks
    <2>2. CASE ~IsNews(id)
      <3>1. /\ infos' = infos /\ armed' = armed /\ notified' = notified
            /\ id \in DOMAIN infos \/ id \notin alive
        BY <1>5, <2>2 DEF HandleAdded, IsNews
      <3>2. News
        BY <1>1, <1>2, <1>3, <3>1 DEF News
      <3>3. NewsIsComing'
        <4>1. ASSUME ~Lossy, NEW i \in alive \ DOMAIN infos PROVE Event("added", i) \in Range(events')
          BY <1>s, <1>2, <1>4, <1>f, <3>1, <4>1 DEF NewsIsComing
        <4>2. ASSUME ~Lossy, NEW i \in DOMAIN infos \ alive PROVE Event("removed", i) \in Range(events')
          BY <1>s, <1>2, <1>4, <1>5, <4>2 DEF NewsIsComing
        <4>3. QED
          BY <1>1, <3>1, <4>1, <4>2 DEF NewsIsComing, Event
      <3>4. QED
        BY <3>2, <3>3, NewsKeepsBooks
    <2>3. QED
      BY <2>1, <2>2
  <1>6. CASE e.type = "resolved" /\ HandleResolved(id)
    <2>1. /\ infos' = infos /\ armed' = armed
          /\ notified' \in {notified, {said("changed")}}
      BY <1>6, <1>n DEF HandleResolved
    <2>2. News
      BY <1>1, <1>2, <1>3, <1>4, <2>1 DEF News
    <2>3. NewsIsComing'
      <3>1. ASSUME ~Lossy, NEW i \in alive \ DOMAIN infos PROVE Event("added", i) \in Range(events')
        BY <1>s, <1>2, <1>4, <1>6, <3>1 DEF NewsIsComing
      <3>2. ASSUME ~Lossy, NEW i \in DOMAIN infos \ alive PROVE Event("removed", i) \in Range(events')
        BY <1>s, <1>2, <1>4, <1>6, <3>2 DEF NewsIsComing
      <3>3. QED
        BY <1>1, <2>1, <3>1, <3>2 DEF NewsIsComing, Event
    <2>4. QED
      BY <2>2, <2>3, NewsKeepsBooks
  <1>7. CASE e.type = "removed" /\ HandleRemoved(id)
    <2>1. /\ infos' = [i \in DOMAIN infos \ {id} |-> infos[i]] /\ armed' \subseteq armed
          /\ notified' = notified \/ (id \in DOMAIN infos /\ notified' = {said("removed")})
      BY <1>7, <1>n DEF HandleRemoved
    <2>2. id \notin alive
      BY <1>s, <1>2, <1>7, <1>f DEF RemovedAreDead
    <2>3. id \in DOMAIN infos /\ id \in dropped => origin[id] \notin {"source", "exception"}
      BY <1>s DEF DroppedAreDead
    <2>4. /\ infos' \in [DOMAIN infos' -> Info] /\ DOMAIN infos' = DOMAIN infos \ {id}
          /\ \A i \in DOMAIN infos' : /\ infos'[i].hit_count <= MaxHits
                                      /\ infos'[i].kind = "exception" => origin[i] = "exception"
      BY <1>3, <2>1
    <2>5. News
      BY <1>1, <1>2, <1>3, <1>4, <2>1, <2>2, <2>3, <2>4 DEF News
    <2>6. NewsIsComing'
      <3>1. ASSUME ~Lossy, NEW i \in alive \ DOMAIN infos' PROVE Event("added", i) \in Range(events')
        BY <1>s, <1>2, <1>4, <1>7, <2>2, <2>4, <3>1 DEF NewsIsComing
      <3>2. ASSUME ~Lossy, NEW i \in DOMAIN infos' \ alive PROVE Event("removed", i) \in Range(events')
        BY <1>s, <1>2, <1>4, <1>f, <2>4, <3>2 DEF NewsIsComing
      <3>3. QED
        BY <1>1, <3>1, <3>2 DEF NewsIsComing, Event
    <2>7. QED
      BY <2>5, <2>6, NewsKeepsBooks
  <1>8. QED
    BY <1>1, <1>5, <1>6, <1>7

-----------------------------------------------------------------------------
(* The theorems.                                                             *)

LEMMA RequestsKeepBooks ==
    ASSUME BookInv, SetRequests
    PROVE  BookInv'
  <1>1. ASSUME NEW reqs \in Requests(Keys), NEW hints \in SUBSET DOMAIN reqs,
               SetSourceBreakpoints(reqs, hints)
        PROVE  BookInv'
    BY <1>1, SetBreakpointsKeepsBooks DEF SetSourceBreakpoints
  <1>2. ASSUME NEW reqs \in Requests(Keys), NEW k, SetBreakpoints(k, reqs, {}) PROVE BookInv'
    <2>1. {} \in SUBSET DOMAIN reqs
      OBVIOUS
    <2>2. QED
      BY <1>2, <2>1, SetBreakpointsKeepsBooks
  <1>3. ASSUME NEW reqs \in Requests(Keys),
               \/ SetDasmBreakpoints(reqs) \/ HandleSetInstructionBreakpoints(reqs)
               \/ HandleSetFunctionBreakpoints(reqs)
        PROVE  BookInv'
    BY <1>2, <1>3 DEF SetDasmBreakpoints, HandleSetInstructionBreakpoints, HandleSetFunctionBreakpoints
  <1>4. ASSUME NEW reqs \in Requests(Keys),
               HandleSetInstructionFails(reqs) \/ SetNewDasmBreakpoints(reqs)
        PROVE  BookInv'
    BY <1>4, FailureKeepsBooks, NewDasmKeepsBooks
  <1>5. ASSUME NEW reqs \in Requests(Filters), HandleSetExceptionBreakpoints(reqs) PROVE BookInv'
    BY <1>5, ExceptionsKeepBooks
  <1>6. QED
    BY <1>1, <1>3, <1>4, <1>5 DEF SetRequests

LEMMA BooksStart == Init => BookInv
  <1> SUFFICES ASSUME Init PROVE BookInv
    OBVIOUS
  <1>1. /\ origin = <<>> /\ alive = {} /\ armed = {} /\ events = <<>> /\ notified = {} /\ dropped = {}
        /\ missing = {} /\ conditioned = {} /\ stray = {} /\ hit = 0 /\ stop = 0 /\ panicked = FALSE
        /\ Len(origin) = 0 /\ Range(events) = {} /\ origin \in Seq(Origins) /\ events \in Seq(Events)
    BY DEF Init, None, Range
  <1>2. DOMAIN infos = {} /\ infos \in [DOMAIN infos -> Info]
    BY DEF Init, Empty
  <1>3. /\ table \in [Kinds -> UNION {[K -> Nat] : K \in SUBSET Keys}]
        /\ \A k \in Kinds : DOMAIN table[k] = {}
    <2>1. Empty \in [{} -> Nat] /\ {} \in SUBSET Keys /\ DOMAIN Empty = {}
      BY DEF Empty
    <2>2. QED
      BY <2>1 DEF Init
  <1>4. Shapes
    <2>1. Len(origin) <= MaxIds /\ hit \in 0 .. Len(origin) /\ stop \in 0 .. Len(origin)
      BY <1>1, BreakpointsAssumption
    <2>2. /\ alive \subseteq Known /\ armed \subseteq Known /\ dropped \subseteq Known
          /\ conditioned \subseteq Known /\ stray \subseteq Known
          /\ notified \subseteq [reason : {"new", "changed", "removed"}, id : Known]
          /\ missing \subseteq Kinds \X Keys /\ panicked \in BOOLEAN
          /\ DOMAIN infos \subseteq Known /\ \A e \in Range(events) : e.id \in Known
      BY <1>1, <1>2
    <2>3. /\ \A k \in Kinds : \A key \in DOMAIN table[k] : table[k][key] \in Known
          /\ \A id \in DOMAIN infos : infos[id].hit_count <= MaxHits
      BY <1>2, <1>3
    <2>4. QED
      BY <1>1, <1>2, <1>3, <2>1, <2>2, <2>3 DEF Shapes
  <1>5. OwnKind /\ TableIsAlive /\ OwnTracked /\ RemovedAreDead /\ CallbackIsTracked
    BY <1>1, <1>2, <1>3 DEF OwnKind, TableIsAlive, OwnTracked, RemovedAreDead, CallbackIsTracked
  <1>6. DroppedAreDead /\ NewsIsComing /\ NewOnlyForConsole /\ QuietRemoval /\ NoOrphans
    BY <1>1, <1>2 DEF DroppedAreDead, NewsIsComing, NewOnlyForConsole, QuietRemoval, NoOrphans, Orphans
  <1>7. QED
    BY <1>4, <1>5, <1>6 DEF BookInv, TrackInv, TableInv

LEMMA BooksKept == BookInv /\ [Next]_vars => BookInv'
  <1> SUFFICES ASSUME BookInv, [Next]_vars PROVE BookInv'
    OBVIOUS
  <1>1. CASE UNCHANGED vars
    <2>1. /\ UNCHANGED <<lldbVars, table, events, historyVars>>
          /\ infos' = infos /\ hit' = hit /\ stop' = stop /\ panicked' = panicked
      BY <1>1 DEF vars, runVars
    <2>2. /\ infos \in [DOMAIN infos -> Info] /\ \A id \in DOMAIN infos : infos[id].hit_count <= MaxHits
          /\ hit \in 0 .. Len(origin) /\ stop \in 0 .. Len(origin) /\ panicked \in BOOLEAN
      BY DEF BookInv, TrackInv, TableInv, Shapes
    <2>3. QED
      BY <2>1, <2>2, TouchKeepsBooks
  <1>2. CASE SetRequests
    BY <1>2, RequestsKeepBooks
  <1>3. CASE ExclusionRequests
    BY <1>3, ExclusionsKeepBooks
  <1>4. CASE HandleBreakpointEvent
    BY <1>4, EventKeepsBooks
  <1>5. CASE EventLost
    BY <1>5, LossKeepsBooks
  <1>6. CASE \/ \E id \in Ids : Hit(id)
             \/ \E id, onStack, condition : HitWithheld(id, onStack, condition)
             \/ OnBreakpointHit \/ Continue
    BY <1>6, HitsKeepBooks
  <1>7. CASE ConsoleCreate
    BY <1>7, ConsoleCreateKeepsBooks
  <1>8. ASSUME NEW id \in Ids, ConsoleDelete(id) \/ LocationsResolved(id) PROVE BookInv'
    BY <1>8, ConsoleDeleteKeepsBooks, ResolvedKeepsBooks
  <1>9. QED
    BY <1>1, <1>2, <1>3, <1>4, <1>5, <1>6, <1>7, <1>8 DEF Next, Steps

\* The books are kept in every reachable state.
LEMMA BooksAreKept == Spec => []BookInv
  BY BooksStart, BooksKept, PTL DEF Spec

\* Every id that the adapter or LLDB holds is one that LLDB has given out, and
\* hit counts stay within their bound.
THEOREM TypeCorrect == Spec => []TypeOK
  <1>1. BookInv => TypeOK
    <2> SUFFICES ASSUME Shapes PROVE TypeOK
      BY DEF BookInv, TrackInv, TableInv
    <2>1. /\ origin \in Seq(TableKinds \cup {"exception", "hint", "console"})
          /\ Len(origin) <= MaxIds /\ alive \subseteq 1 .. Len(origin) /\ armed \subseteq 1 .. Len(origin)
          /\ hit \in 0 .. Len(origin) /\ stop \in 0 .. Len(origin)
          /\ panicked \in BOOLEAN /\ missing \subseteq Kinds \X Keys
          /\ conditioned \subseteq 1 .. Len(origin) /\ stray \subseteq 1 .. Len(origin)
      BY DEF Shapes, Origins, Known
    <2>2. ASSUME NEW k \in Kinds
          PROVE  /\ DOMAIN table[k] \subseteq Keys
                 /\ \A key \in DOMAIN table[k] : table[k][key] \in 1 .. Len(origin)
      BY DEF Shapes, Known
    <2>3. DOMAIN infos \subseteq 1 .. Len(origin)
      BY DEF Shapes, Known
    <2>4. ASSUME NEW id \in DOMAIN infos
          PROVE  /\ infos[id].kind \in TableKinds \cup {"exception"}
                 /\ infos[id].hit_count \in 0 .. MaxHits
                 /\ infos[id].exclusions \subseteq Symbols
      <3>1. infos[id] \in Info /\ infos[id].hit_count <= MaxHits
        BY DEF Shapes
      <3>2. /\ infos[id].kind \in TableKinds \cup {"exception"} /\ infos[id].hit_count \in Nat
            /\ infos[id].exclusions \subseteq Symbols
        BY <3>1 DEF Info
      <3>3. infos[id].hit_count \in 0 .. MaxHits
        BY <3>1, <3>2, BreakpointsAssumption
      <3>4. QED
        BY <3>2, <3>3
    <2>5. ASSUME NEW i \in DOMAIN events PROVE events[i].id \in 1 .. Len(origin)
      BY DEF Shapes, Known, Range
    <2>6. QED
      BY <2>1, <2>2, <2>3, <2>4, <2>5 DEF TypeOK
  <1>2. QED
    BY <1>1, BooksAreKept, PTL

\* on_breakpoint_hit finds the info of every live breakpoint that calls back, in
\* whatever order requests, console commands and events come, lost ones included.
THEOREM CallbacksAreTracked == Spec => []CallbackIsTracked
  <1>1. BookInv => CallbackIsTracked
    BY DEF BookInv, TrackInv
  <1>2. QED
    BY <1>1, BooksAreKept, PTL

\* The tables name live breakpoints, save those deleted in the console since, and
\* no two keys share one.
THEOREM TablesAreAlive == Spec => []TableIsAlive
  <1>1. BookInv => TableIsAlive
    BY DEF BookInv, TrackInv, TableInv
  <1>2. QED
    BY <1>1, BooksAreKept, PTL

\* handle_breakpoint_event announces as new only what the user made in the console.
THEOREM OnlyConsoleIsNew == Spec => []NewOnlyForConsole
  <1>1. BookInv => NewOnlyForConsole
    BY DEF BookInv
  <1>2. QED
    BY <1>1, BooksAreKept, PTL

\* Deleting source or exception breakpoints at the client's request is not echoed.
THEOREM RemovalIsQuiet == Spec => []QuietRemoval
  <1>1. BookInv => QuietRemoval
    BY DEF BookInv
  <1>2. QED
    BY <1>1, BooksAreKept, PTL

\* Once the events of a breakpoint have been handled and none was lost, the session
\* tracks it if and only if LLDB has it.
THEOREM BooksTrackLLDB == Spec => []TracksLLDB
  <1>1. BookInv => TracksLLDB
    <2> SUFFICES ASSUME BookInv, ~Lossy, NEW id \in DOMAIN origin,
                        \A i \in DOMAIN events : events[i].id # id
                 PROVE  id \in DOMAIN infos <=> id \in alive
      BY DEF TracksLLDB
    <2>1. NewsIsComing
      BY DEF BookInv
    <2>2. \A e \in Range(events) : e.id # id
      BY DEF Range
    <2>3. Event("added", id).id = id /\ Event("removed", id).id = id
      BY DEF Event
    <2>4. QED
      BY <2>1, <2>2, <2>3 DEF NewsIsComing
  <1>2. QED
    BY <1>1, BooksAreKept, PTL

\* A live breakpoint that the client has set is in the table of its kind, unless the
\* request that made it let go of it: nothing that comes later loses one.
THEOREM NothingIsOrphaned == Spec => []NoOrphans
  <1>1. BookInv => NoOrphans
    BY DEF BookInv
  <1>2. QED
    BY <1>1, BooksAreKept, PTL

-----------------------------------------------------------------------------
(* Hit conditions.                                                           *)

\* Division and remainder are determined by their equation.
LEMMA DivisionIs ==
    ASSUME NEW n \in Nat, n > 0, NEW q \in Nat, NEW r \in Nat, r < n
    PROVE  (q * n + r) \div n = q /\ (q * n + r) % n = r
  OBVIOUS

LEMMA NextMultiple ==
    ASSUME NEW n \in Nat, n > 0, NEW m \in Nat
    PROVE  (m + 1) \div n = (m \div n) + (IF (m + 1) % n = 0 THEN 1 ELSE 0)
  <1> DEFINE q == m \div n
             r == m % n
  <1>1. q \in Nat /\ r \in Nat /\ r < n /\ m = q * n + r
    OBVIOUS
  <1> HIDE DEF q, r
  <1>2. CASE r + 1 < n
    <2>1. m + 1 = q * n + (r + 1) /\ r + 1 \in Nat
      BY <1>1
    <2>2. (m + 1) \div n = q /\ (m + 1) % n = r + 1
      BY <1>1, <1>2, <2>1, DivisionIs
    <2>3. QED
      BY <1>1, <2>2 DEF q
  <1>3. CASE r + 1 = n
    <2>1. m + 1 = (q + 1) * n + 0 /\ q + 1 \in Nat
      BY <1>1, <1>3
    <2>2. (m + 1) \div n = q + 1 /\ (m + 1) % n = 0
      BY <1>1, <2>1, DivisionIs
    <2>3. QED
      BY <1>1, <2>2 DEF q
  <1>4. QED
    BY <1>1, <1>2, <1>3

LEMMA MinMaxOfTwo ==
    ASSUME NEW a \in Nat, NEW b \in Nat
    PROVE  /\ Min({a, b}) = IF a <= b THEN a ELSE b
           /\ Max({a, b}) = IF a >= b THEN a ELSE b
  BY DEF Min, Max

\* A hit condition selects none of no hits, and one more where it is satisfied.
LEMMA SelectedStarts ==
    ASSUME NEW c \in Conditions
    PROVE  Selected(c, 0) = 0
  <1>1. c.op \in Operators /\ c.n \in Nat
    BY DEF Conditions
  <1>2. /\ Min({0, c.n}) = 0 /\ Max({0, c.n}) = c.n
        /\ c.n # 0 => Min({0, c.n - 1}) = 0 /\ Max({0 + 1, c.n}) = c.n
    <2>1. Min({0, c.n}) = 0 /\ Max({0, c.n}) = c.n
      <3>1. Min({0, c.n}) = IF 0 <= c.n THEN 0 ELSE c.n
        BY <1>1, MinMaxOfTwo
      <3>2. Max({0, c.n}) = IF 0 >= c.n THEN 0 ELSE c.n
        BY <1>1, MinMaxOfTwo
      <3>3. QED
        BY <1>1, <3>1, <3>2
    <2>2. ASSUME c.n # 0 PROVE Min({0, c.n - 1}) = 0 /\ Max({0 + 1, c.n}) = c.n
      <3>1. c.n - 1 \in Nat /\ 0 + 1 \in Nat /\ c.n >= 1
        BY <1>1, <2>2
      <3>2. Min({0, c.n - 1}) = IF 0 <= c.n - 1 THEN 0 ELSE c.n - 1
        BY <3>1, MinMaxOfTwo
      <3>3. Max({0 + 1, c.n}) = IF 0 + 1 >= c.n THEN 0 + 1 ELSE c.n
        BY <1>1, <3>1, MinMaxOfTwo
      <3>4. QED
        BY <1>1, <3>1, <3>2, <3>3
    <2>3. QED
      BY <2>1, <2>2
  <1>3. c.n # 0 => 0 \div c.n = 0
    BY <1>1
  <1>4. QED
    BY <1>1, <1>2, <1>3 DEF Selected, Operators

LEMMA SelectedGrows ==
    ASSUME NEW c \in Conditions, NEW m \in Nat
    PROVE  Selected(c, m + 1) = IF Satisfied(c, m + 1) THEN Selected(c, m) + 1 ELSE Selected(c, m)
  <1>1. c.op \in Operators /\ c.n \in Nat
    BY DEF Conditions
  <1>2. CASE c.op = "none"
    BY <1>2 DEF Selected, Satisfied
  <1>3. CASE c.op = "LT"
    <2>1. CASE c.n = 0
      BY <1>3, <2>1 DEF Selected, Satisfied
    <2>2. CASE c.n # 0
      <3>1. c.n - 1 \in Nat /\ m + 1 \in Nat
        BY <1>1, <2>2
      <3>2. /\ Min({m, c.n - 1}) = IF m <= c.n - 1 THEN m ELSE c.n - 1
            /\ Min({m + 1, c.n - 1}) = IF m + 1 <= c.n - 1 THEN m + 1 ELSE c.n - 1
        BY <3>1, MinMaxOfTwo
      <3>3. /\ Selected(c, m) = Min({m, c.n - 1}) /\ Selected(c, m + 1) = Min({m + 1, c.n - 1})
            /\ Satisfied(c, m + 1) <=> m + 1 < c.n
        BY <1>3, <2>2 DEF Selected, Satisfied
      <3>4. QED
        BY <1>1, <3>2, <3>3
    <2>3. QED
      BY <2>1, <2>2
  <1>4. CASE c.op = "LE"
    <2>1. /\ Min({m, c.n}) = IF m <= c.n THEN m ELSE c.n
          /\ Min({m + 1, c.n}) = IF m + 1 <= c.n THEN m + 1 ELSE c.n
      <3>1. Min({m, c.n}) = IF m <= c.n THEN m ELSE c.n
        BY <1>1, MinMaxOfTwo
      <3>2. Min({m + 1, c.n}) = IF m + 1 <= c.n THEN m + 1 ELSE c.n
        <4>1. m + 1 \in Nat
          OBVIOUS
        <4>2. QED
          BY <1>1, <4>1, MinMaxOfTwo
      <3>3. QED
        BY <3>1, <3>2
    <2>2. /\ Selected(c, m) = Min({m, c.n}) /\ Selected(c, m + 1) = Min({m + 1, c.n})
          /\ Satisfied(c, m + 1) <=> m + 1 <= c.n
      BY <1>4 DEF Selected, Satisfied
    <2>3. QED
      BY <1>1, <2>1, <2>2
  <1>5. CASE c.op = "EQ"
    <2>1. /\ Selected(c, m) = IF c.n \in 1 .. m THEN 1 ELSE 0
          /\ Selected(c, m + 1) = IF c.n \in 1 .. m + 1 THEN 1 ELSE 0
          /\ Satisfied(c, m + 1) <=> m + 1 = c.n
      BY <1>5 DEF Selected, Satisfied
    <2>2. QED
      BY <1>1, <2>1
  <1>6. CASE c.op = "GE"
    <2>1. CASE c.n = 0
      BY <1>6, <2>1 DEF Selected, Satisfied
    <2>2. CASE c.n # 0
      <3>1. /\ Max({m + 1, c.n}) = IF m + 1 >= c.n THEN m + 1 ELSE c.n
            /\ Max({(m + 1) + 1, c.n}) = IF (m + 1) + 1 >= c.n THEN (m + 1) + 1 ELSE c.n
        <4>1. m + 1 \in Nat /\ (m + 1) + 1 \in Nat
          OBVIOUS
        <4>2. Max({m + 1, c.n}) = IF m + 1 >= c.n THEN m + 1 ELSE c.n
          BY <1>1, <4>1, MinMaxOfTwo
        <4>3. Max({(m + 1) + 1, c.n}) = IF (m + 1) + 1 >= c.n THEN (m + 1) + 1 ELSE c.n
          BY <1>1, <4>1, MinMaxOfTwo
        <4>4. QED
          BY <4>2, <4>3
      <3>2. /\ Selected(c, m) = Max({m + 1, c.n}) - c.n
            /\ Selected(c, m + 1) = Max({(m + 1) + 1, c.n}) - c.n
            /\ Satisfied(c, m + 1) <=> m + 1 >= c.n
        BY <1>6, <2>2 DEF Selected, Satisfied
      <3>3. QED
        BY <1>1, <3>1, <3>2
    <2>3. QED
      BY <2>1, <2>2
  <1>7. CASE c.op = "GT"
    <2>1. /\ Max({m, c.n}) = IF m >= c.n THEN m ELSE c.n
          /\ Max({m + 1, c.n}) = IF m + 1 >= c.n THEN m + 1 ELSE c.n
      <3>1. Max({m, c.n}) = IF m >= c.n THEN m ELSE c.n
        BY <1>1, MinMaxOfTwo
      <3>2. Max({m + 1, c.n}) = IF m + 1 >= c.n THEN m + 1 ELSE c.n
        <4>1. m + 1 \in Nat
          OBVIOUS
        <4>2. QED
          BY <1>1, <4>1, MinMaxOfTwo
      <3>3. QED
        BY <3>1, <3>2
    <2>2. /\ Selected(c, m) = Max({m, c.n}) - c.n /\ Selected(c, m + 1) = Max({m + 1, c.n}) - c.n
          /\ Satisfied(c, m + 1) <=> m + 1 > c.n
      BY <1>7 DEF Selected, Satisfied
    <2>3. QED
      BY <1>1, <2>1, <2>2
  <1>8. CASE c.op = "MOD"
    <2>1. CASE c.n = 0
      BY <1>8, <2>1 DEF Selected, Satisfied
    <2>2. CASE c.n # 0
      <3>1. c.n > 0
        BY <1>1, <2>2
      <3>2. /\ Selected(c, m) = m \div c.n /\ Selected(c, m + 1) = (m + 1) \div c.n
            /\ Satisfied(c, m + 1) <=> (m + 1) % c.n = 0
        BY <1>1, <1>8, <2>2, <3>1 DEF Selected, Satisfied
      <3>3. (m + 1) \div c.n = (m \div c.n) + (IF (m + 1) % c.n = 0 THEN 1 ELSE 0)
        BY <1>1, <3>1, NextMultiple
      <3>4. m \div c.n \in Nat
        BY <1>1, <3>1
      <3>5. QED
        BY <3>2, <3>3, <3>4
    <2>3. QED
      BY <2>1, <2>2
  <1>9. QED
    BY <1>1, <1>2, <1>3, <1>4, <1>5, <1>6, <1>7, <1>8 DEF Operators

\* An info whose stops are those that its condition selects among the counted hits.
Right(info) == info.stops = IF info.log THEN 0 ELSE Selected(info.hit, info.hit_count)

CountInv ==
    \A id \in DOMAIN infos :
        Right(infos[id]) /\ (infos[id].hit_count = infos[id].passed \/ Stale(id))

LEMMA RightWhenMade ==
    ASSUME NEW info \in Info, info.hit_count = 0, info.passed = 0, info.stops = 0
    PROVE  Right(info)
  <1>1. info.hit \in Conditions
    BY DEF Info
  <1>2. Selected(info.hit, 0) = 0
    BY <1>1, SelectedStarts
  <1>3. QED
    BY <1>2 DEF Right

LEMMA RightWhenCounted ==
    ASSUME NEW info \in Info, Right(info)
    PROVE  Right(Counted(info))
  <1>1. info.hit \in Conditions /\ info.hit_count \in Nat /\ info.log \in BOOLEAN
    BY DEF Info
  <1>2. /\ Counted(info).hit = info.hit /\ Counted(info).log = info.log
        /\ Counted(info).hit_count = info.hit_count + 1 /\ Counted(info).passed = info.passed + 1
        /\ Counted(info).stops = IF Stops(info) THEN info.stops + 1 ELSE info.stops
    BY CountedIs
  <1>3. info.stops = IF info.log THEN 0 ELSE Selected(info.hit, info.hit_count)
    BY DEF Right
  <1>4. Selected(info.hit, info.hit_count + 1)
           = IF Satisfied(info.hit, info.hit_count + 1) THEN Selected(info.hit, info.hit_count) + 1
                                                       ELSE Selected(info.hit, info.hit_count)
    BY <1>1, SelectedGrows
  <1>5. CASE info.log
    <2>1. ~Stops(info)
      BY <1>5 DEF Stops
    <2>2. QED
      BY <1>2, <1>3, <1>5, <2>1 DEF Right
  <1>6. CASE ~info.log
    <2>1. Stops(info) <=> Satisfied(info.hit, info.hit_count + 1)
      BY <1>6 DEF Stops
    <2>2. QED
      BY <1>2, <1>3, <1>4, <1>6, <2>1 DEF Right
  <1>7. QED
    BY <1>5, <1>6

\* What may become of an info: it is new, its exclusions are set, a hit is counted, or
\* a native condition that nobody asked for withholds one.  LLDB keeps its conditions.
Made(info) == info.hit_count = 0 /\ info.passed = 0 /\ info.stops = 0
Same(info, old) ==
    /\ info.hit_count = old.hit_count /\ info.passed = old.passed /\ info.stops = old.stops
    /\ info.hit = old.hit /\ info.log = old.log /\ info.native = old.native
Withheld(info, old) ==
    /\ info.hit_count = old.hit_count /\ info.stops = old.stops
    /\ info.hit = old.hit /\ info.log = old.log /\ ~info.native
InfoSteps ==
    /\ conditioned \subseteq conditioned'
    /\ \A id \in DOMAIN infos' :
          \/ Made(infos'[id])
          \/ id \in DOMAIN infos /\ Same(infos'[id], infos[id])
          \/ id \in DOMAIN infos /\ infos'[id] = Counted(infos[id])
          \/ id \in DOMAIN infos \cap conditioned /\ Withheld(infos'[id], infos[id])

LEMMA PlaceSteps ==
    ASSUME NEW kind, NEW reqs, NEW ids, NEW fresh, NEW hints, NEW gone, NEW forgotten,
           Place(kind, reqs, ids, fresh, hints, gone, forgotten)
    PROVE  InfoSteps
  <1>1. infos' = Tracked(kind, reqs, ids, forgotten) /\ conditioned \subseteq conditioned'
    BY DEF Place
  <1>2. \A i, k, name, o : Made(MakeBpInfo(i, k, name, o))
    BY DEF Made, MakeBpInfo
  <1>3. ASSUME NEW id \in DOMAIN infos'
        PROVE  Made(infos'[id]) \/ (id \in DOMAIN infos /\ infos'[id] = infos[id])
    <2>1. CASE id \in Range(ids)
      <3>1. infos'[id] = MakeBpInfo(id, kind,
                             IF kind = "exception" THEN reqs[LastAt(ids, id)].key ELSE "",
                             Effective(kind, reqs[LastAt(ids, id)].opts))
        BY <1>1, <2>1 DEF Tracked
      <3>2. QED
        BY <1>2, <3>1
    <2>2. CASE id \notin Range(ids)
      BY <1>1, <2>2 DEF Tracked
    <2>3. QED
      BY <2>1, <2>2
  <1>4. QED
    BY <1>1, <1>3 DEF InfoSteps, Same

LEMMA RequestSteps ==
    ASSUME SetRequests
    PROVE  InfoSteps
  <1>1. ASSUME NEW k, NEW reqs, NEW hints, SetBreakpoints(k, reqs, hints) PROVE InfoSteps
    BY <1>1, PlaceSteps DEF SetBreakpoints
  <1>2. ASSUME NEW reqs, \/ HandleSetInstructionFails(reqs) \/ SetNewDasmBreakpoints(reqs)
                         \/ HandleSetExceptionBreakpoints(reqs)
        PROVE  InfoSteps
    BY <1>2, PlaceSteps DEF HandleSetInstructionFails, SetNewDasmBreakpoints,
                            HandleSetExceptionBreakpoints
  <1>3. QED
    BY <1>1, <1>2 DEF SetRequests, SetSourceBreakpoints, SetDasmBreakpoints,
                      HandleSetInstructionBreakpoints, HandleSetFunctionBreakpoints

LEMMA ExclusionSteps ==
    ASSUME BookInv, ExclusionRequests
    PROVE  InfoSteps
  <1>1. ASSUME NEW info \in Info, NEW x PROVE Same([info EXCEPT !.exclusions = x], info)
    BY DEF Info, Same
  <1>2. \A id \in DOMAIN infos : infos[id] \in Info /\ Same(infos[id], infos[id])
    BY DEF BookInv, TrackInv, TableInv, Shapes, Same
  <1>3. ASSUME NEW symbol, HandleExcludeCaller(symbol) PROVE InfoSteps
    <2>1. /\ DOMAIN infos' = DOMAIN infos /\ conditioned' = conditioned
          /\ \A id \in DOMAIN infos : \/ infos'[id] = infos[id]
                                      \/ \E x : infos'[id] = [infos[id] EXCEPT !.exclusions = x]
      BY <1>3 DEF HandleExcludeCaller, lldbVars
    <2>2. QED
      BY <1>1, <1>2, <2>1 DEF InfoSteps
  <1>4. ASSUME NEW exclusions, HandleSetExcludedCallers(exclusions) PROVE InfoSteps
    <2>1. /\ DOMAIN infos' = DOMAIN infos /\ conditioned' = conditioned
          /\ \A id \in DOMAIN infos : \E x : infos'[id] = [infos[id] EXCEPT !.exclusions = x]
      BY <1>4 DEF HandleSetExcludedCallers, lldbVars
    <2>2. QED
      BY <1>1, <1>2, <2>1 DEF InfoSteps
  <1>5. QED
    BY <1>3, <1>4 DEF ExclusionRequests

LEMMA OtherSteps ==
    ASSUME BookInv, [Next]_vars, ~SetRequests, ~ExclusionRequests
    PROVE  InfoSteps
  <1>s. \A id : Same(infos[id], infos[id])
    BY DEF Same
  <1>1. ASSUME infos' = infos, conditioned' = conditioned PROVE InfoSteps
    BY <1>s, <1>1 DEF InfoSteps
  <1>2. CASE HandleBreakpointEvent
    <2>c. conditioned' = conditioned
      BY <1>2 DEF HandleBreakpointEvent
    <2>1. ASSUME NEW id, HandleAdded(id) PROVE InfoSteps
      <3>1. CASE IsNews(id)
        <4>1. infos' = [i \in DOMAIN infos \cup {id} |->
                         IF i = id THEN MakeBpInfo(id, "source", "", Plain) ELSE infos[i]]
          BY <2>1, <3>1 DEF HandleAdded
        <4>2. Made(MakeBpInfo(id, "source", "", Plain))
          BY DEF Made, MakeBpInfo
        <4>3. QED
          BY <1>s, <2>c, <4>1, <4>2 DEF InfoSteps
      <3>2. CASE ~IsNews(id)
        BY <1>1, <2>c, <2>1, <3>2 DEF HandleAdded
      <3>3. QED
        BY <3>1, <3>2
    <2>2. ASSUME NEW id, HandleResolved(id) PROVE InfoSteps
      BY <1>1, <2>c, <2>2 DEF HandleResolved
    <2>3. ASSUME NEW id, HandleRemoved(id) PROVE InfoSteps
      <3>1. infos' = [i \in DOMAIN infos \ {id} |-> infos[i]]
        BY <2>3 DEF HandleRemoved
      <3>2. QED
        BY <1>s, <2>c, <3>1 DEF InfoSteps
    <2>4. QED
      BY <1>2, <2>1, <2>2, <2>3 DEF HandleBreakpointEvent
  <1>3. ASSUME NEW onStack, NEW condition,
               HitCounted(onStack, condition) \/ HitDividesByZero(onStack, condition)
        PROVE  InfoSteps
    <2>1. /\ hit \in DOMAIN infos /\ conditioned' = conditioned
          /\ infos' = [infos EXCEPT ![hit] = Counted(infos[hit])]
      BY <1>3, HitCountedDoes DEF lldbVars
    <2>2. QED
      BY <1>s, <2>1 DEF InfoSteps
  <1>4. CASE OnBreakpointHit
    <2>1. \/ infos' = infos /\ conditioned' = conditioned
          \/ \E onStack, condition :
                HitCounted(onStack, condition) \/ HitDividesByZero(onStack, condition)
      BY <1>4 DEF OnBreakpointHit, HitUntracked, HitSkipped, HitConditionError, lldbVars
    <2>2. QED
      BY <1>1, <1>3, <2>1
  <1>w. ASSUME NEW id, NEW onStack, NEW condition, HitWithheld(id, onStack, condition)
        PROVE  InfoSteps
    <2>1. /\ id \in DOMAIN infos \cap conditioned /\ ~infos[id].native /\ conditioned' = conditioned
          /\ infos' = [infos EXCEPT ![id] = [infos[id] EXCEPT !.passed = infos[id].passed + 1]]
      BY <1>w, HitWithheldDoes DEF lldbVars
    <2>2. infos[id] \in Info
      BY <2>1 DEF BookInv, TrackInv, TableInv, Shapes
    <2>3. Withheld([infos[id] EXCEPT !.passed = infos[id].passed + 1], infos[id])
      BY <2>1, <2>2 DEF Withheld, Info
    <2>4. QED
      BY <1>s, <2>1, <2>3 DEF InfoSteps
  <1>5. ASSUME NEW id, Hit(id) \/ ConsoleDelete(id) \/ LocationsResolved(id) PROVE InfoSteps
    BY <1>1, <1>5 DEF Hit, ConsoleDelete, LocationsResolved, lldbVars
  <1>6. CASE EventLost \/ Continue \/ ConsoleCreate \/ UNCHANGED vars
    BY <1>1, <1>6 DEF EventLost, Continue, ConsoleCreate, vars, lldbVars
  <1>7. QED
    BY <1>2, <1>4, <1>w, <1>5, <1>6 DEF Next, Steps

\* Since the last request for it, a breakpoint has stopped the debuggee exactly as
\* often as its hit condition selects among the counted hits, and every hit that
\* passed is counted unless LLDB still has the native condition of an earlier request.
THEOREM ConditionsDecideStops == Spec => []StopsMatchCondition
  <1>1. BookInv /\ CountInv /\ [Next]_vars /\ BookInv' => CountInv'
    <2> SUFFICES ASSUME BookInv, CountInv, [Next]_vars, BookInv', NEW id \in DOMAIN infos'
                 PROVE  /\ Right(infos'[id])
                        /\ \/ infos'[id].hit_count = infos'[id].passed
                           \/ id \in conditioned' /\ ~infos'[id].native
      BY DEF CountInv, Right, Selected, Stale
    <2>1. InfoSteps
      BY RequestSteps, ExclusionSteps, OtherSteps
    <2>2. infos'[id] \in Info
      BY DEF BookInv, TrackInv, TableInv, Shapes
    <2>3. id \in DOMAIN infos => /\ infos[id] \in Info /\ Right(infos[id])
                                 /\ \/ infos[id].hit_count = infos[id].passed
                                    \/ id \in conditioned /\ ~infos[id].native
      BY DEF BookInv, TrackInv, TableInv, Shapes, CountInv, Stale
    <2>c. conditioned \subseteq conditioned'
      BY <2>1 DEF InfoSteps
    <2>4. CASE Made(infos'[id])
      BY <2>2, <2>4, RightWhenMade DEF Made
    <2>5. CASE id \in DOMAIN infos /\ Same(infos'[id], infos[id])
      BY <2>c, <2>3, <2>5 DEF Same, Right
    <2>6. CASE id \in DOMAIN infos /\ infos'[id] = Counted(infos[id])
      <3>1. infos[id] \in Info /\ Right(infos'[id])
        BY <2>3, <2>6, RightWhenCounted
      <3>2. /\ infos'[id].native = infos[id].native /\ infos'[id].passed = infos[id].passed + 1
            /\ infos'[id].hit_count = infos[id].hit_count + 1
        BY <2>6, <3>1, CountedIs
      <3>3. QED
        BY <2>c, <2>3, <2>6, <3>1, <3>2
    <2>7. CASE id \in DOMAIN infos \cap conditioned /\ Withheld(infos'[id], infos[id])
      BY <2>c, <2>3, <2>7 DEF Withheld, Right
    <2>8. QED
      BY <2>1, <2>4, <2>5, <2>6, <2>7 DEF InfoSteps
  <1>2. Init => CountInv
    BY DEF Init, Empty, CountInv
  <1>3. CountInv => StopsMatchCondition
    BY DEF CountInv, Right, StopsMatchCondition
  <1>4. QED
    BY <1>1, <1>2, <1>3, BooksAreKept, PTL DEF Spec
=============================================================================
