------------------------- MODULE DisassemblyProofs -------------------------
(***************************************************************************)
(* Proofs about the ranges of Disassembly, for any layout of memory, any    *)
(* number of ranges and instructions of any size: a lookup by halving finds *)
(* the range, and lines lead back to their instructions.                    *)
(***************************************************************************)
EXTENDS Disassembly, SequenceFacts

-----------------------------------------------------------------------------
(* partition_point.                                                          *)

LEMMA MiddleIsBetween ==
    ASSUME NEW a \in Int, NEW b \in Int, NEW w \in Windows(a, b), w[1] < w[2]
    PROVE  /\ Middle(w) \in a .. b /\ Middle(w) + 1 \in a .. b
           /\ w[1] <= Middle(w) /\ Middle(w) < w[2]
           /\ <<Middle(w) + 1, w[2]>> \in Windows(a, b) /\ <<w[1], Middle(w)>> \in Windows(a, b)
  BY DEF Middle, Windows

\* The first p elements are below the limit, and no other.
Partitioned(list, limit, p) ==
    /\ p \in 0 .. Len(list)
    /\ \A i \in 1 .. Len(list) : list[i] < limit <=> i <= p

Sorted(list) == \A i, j \in 1 .. Len(list) : i <= j => list[i] <= list[j]

\* A sorted list can be partitioned.
LEMMA PartitionExists ==
    ASSUME NEW list \in Seq(Int), NEW limit \in Int, Sorted(list)
    PROVE  \E p \in 0 .. Len(list) : Partitioned(list, limit, p)
  <1> DEFINE n == Len(list)
             S == {p \in 0 .. n : \A i \in p + 1 .. n : ~ (list[i] < limit)}
  <1>1. n \in Nat /\ \A i \in 1 .. n : list[i] \in Int
    OBVIOUS
  <1> HIDE DEF n
  <1>2. S \in SUBSET Nat /\ n \in S
    BY <1>1
  <1>3. PICK p \in S : \A q \in S : p <= q
    <2> HIDE DEF S
    <2>1. QED
      BY <1>2, LeastExists
  <1>4. ASSUME p # 0 PROVE list[p] < limit
    <2>1. p - 1 \in 0 .. n /\ p - 1 \notin S
      BY <1>1, <1>3, <1>4
    <2>2. PICK i \in p - 1 + 1 .. n : list[i] < limit
      BY <2>1
    <2>3. ~ (i \in p + 1 .. n)
      BY <1>3, <2>2
    <2>4. i = p
      BY <1>1, <1>3, <2>2, <2>3
    <2>5. QED
      BY <2>2, <2>4
  <1>5. ASSUME NEW i \in 1 .. n PROVE list[i] < limit <=> i <= p
    <2>1. CASE i <= p
      <3>1. p # 0 /\ p \in 1 .. n
        BY <1>1, <1>3, <2>1
      <3>2. list[i] <= list[p] /\ list[i] \in Int /\ list[p] \in Int
        BY <1>1, <2>1, <3>1 DEF Sorted, n
      <3>3. QED
        BY <1>4, <2>1, <3>1, <3>2
    <2>2. CASE p < i
      <3>1. i \in p + 1 .. n
        BY <1>1, <1>3, <2>2
      <3>2. QED
        BY <1>3, <2>2, <3>1
    <2>3. QED
      BY <1>3, <2>1, <2>2
  <1>6. QED
    BY <1>3, <1>5 DEF Partitioned, n

\* Halving finds the partition.
LEMMA PartitionPointIs ==
    ASSUME NEW list \in Seq(Int), NEW limit \in Int, NEW p, Partitioned(list, limit, p)
    PROVE  PartitionPoint(list, limit) = p
  <1> DEFINE n == Len(list)
             W == Windows(0, n)
             Up(w) == <<Middle(w) + 1, w[2]>>
             Down(w) == <<w[1], Middle(w)>>
             Halves(f) ==
                 f = [w \in W |-> IF w[1] >= w[2] THEN w[1]
                                  ELSE IF list[Middle(w) + 1] < limit THEN f[Up(w)] ELSE f[Down(w)]]
             f0 == CHOOSE f : Halves(f)
  <1>1. n \in Nat /\ p \in 0 .. n /\ \A w \in W : w[1] \in 0 .. n /\ w[2] \in 0 .. n
    BY DEF Partitioned, Windows
  <1>2. ASSUME NEW w \in W, w[1] < w[2]
        PROVE  /\ w[1] <= Middle(w) /\ Middle(w) < w[2] /\ Middle(w) \in Nat
               /\ Up(w) \in W /\ Down(w) \in W
               /\ list[Middle(w) + 1] < limit <=> Middle(w) < p
    <2>1. /\ Middle(w) \in 0 .. n /\ Middle(w) + 1 \in 0 .. n
          /\ w[1] <= Middle(w) /\ Middle(w) < w[2] /\ Up(w) \in W /\ Down(w) \in W
      <3>1. 0 \in Int /\ n \in Int /\ w \in Windows(0, n)
        BY <1>1
      <3>2. QED
        BY <1>2, <3>1, MiddleIsBetween
    <2>2. Middle(w) + 1 \in 1 .. n
      BY <1>1, <2>1
    <2>3. QED
      BY <1>1, <2>1, <2>2 DEF Partitioned
  <1>3. Halves(f0)
    <2> DEFINE Clamped(w) ==
                   IF w[1] >= w[2] THEN w[1]
                   ELSE IF p < w[1] THEN w[1] ELSE IF w[2] < p THEN w[2] ELSE p
               g == [w \in W |-> Clamped(w)]
    <2>1. ASSUME NEW w \in W
          PROVE  Clamped(w) = IF w[1] >= w[2] THEN w[1]
                              ELSE IF list[Middle(w) + 1] < limit THEN g[Up(w)] ELSE g[Down(w)]
      <3>1. CASE w[1] >= w[2]
        BY <3>1
      <3>2. CASE w[1] < w[2]
        <4>1. /\ w[1] <= Middle(w) /\ Middle(w) < w[2] /\ Middle(w) \in Nat
              /\ Up(w) \in W /\ Down(w) \in W
              /\ list[Middle(w) + 1] < limit <=> Middle(w) < p
          BY <1>2, <3>2
        <4>2. g[Up(w)] = Clamped(Up(w)) /\ g[Down(w)] = Clamped(Down(w))
          BY <4>1
        <4>3. w[1] \in Nat /\ w[2] \in Nat /\ p \in Nat
          BY <1>1
        <4> HIDE DEF g
        <4>4. CASE Middle(w) < p
          BY <3>2, <4>1, <4>2, <4>3, <4>4
        <4>5. CASE ~ (Middle(w) < p)
          BY <3>2, <4>1, <4>2, <4>3, <4>5
        <4>6. QED
          BY <4>4, <4>5
      <3>3. QED
        BY <1>1, <3>1, <3>2
    <2>2. Halves(g)
      BY <2>1
    <2> HIDE DEF Halves
    <2>3. QED
      BY <2>2
  <1>4. PartitionPoint(list, limit) = f0[<<0, n>>]
    BY DEF PartitionPoint
  <1> HIDE DEF f0
  <1> DEFINE S == {d \in Nat : \A w \in W : w[1] <= p /\ p <= w[2] /\ w[2] - w[1] <= d => f0[w] = p}
  <1>5. \A w \in W : f0[w] = IF w[1] >= w[2] THEN w[1]
                              ELSE IF list[Middle(w) + 1] < limit THEN f0[Up(w)] ELSE f0[Down(w)]
    BY <1>3
  <1>6. 0 \in S
    <2> SUFFICES ASSUME NEW w \in W, w[1] <= p, p <= w[2], w[2] - w[1] <= 0
                 PROVE  f0[w] = p
      OBVIOUS
    <2>1. w[1] = p /\ w[1] >= w[2]
      BY <1>1
    <2>2. QED
      BY <1>5, <2>1
  <1>7. ASSUME NEW d \in Nat, d \in S PROVE d + 1 \in S
    <2> SUFFICES ASSUME NEW w \in W, w[1] <= p, p <= w[2], w[2] - w[1] <= d + 1
                 PROVE  f0[w] = p
      BY <1>7
    <2>0. w[1] \in Nat /\ w[2] \in Nat /\ p \in Nat
      BY <1>1
    <2>1. CASE w[1] >= w[2]
      <3>1. w[1] = p
        BY <2>0, <2>1
      <3>2. QED
        BY <1>5, <2>1, <3>1
    <2>2. CASE w[1] < w[2]
      <3>1. /\ w[1] <= Middle(w) /\ Middle(w) < w[2] /\ Middle(w) \in Nat
            /\ Up(w) \in W /\ Down(w) \in W
            /\ list[Middle(w) + 1] < limit <=> Middle(w) < p
        BY <1>2, <2>2
      <3>2. ~ (w[1] >= w[2])
        BY <2>0, <2>2
      <3>3. f0[w] = IF Middle(w) < p THEN f0[Up(w)] ELSE f0[Down(w)]
        BY <1>5, <3>1, <3>2
      <3>4. CASE Middle(w) < p
        <4>1. Up(w)[1] <= p /\ p <= Up(w)[2] /\ Up(w)[2] - Up(w)[1] <= d
          BY <2>0, <3>1, <3>4
        <4>2. QED
          BY <1>7, <3>1, <3>3, <3>4, <4>1
      <3>5. CASE ~ (Middle(w) < p)
        <4>1. Down(w)[1] <= p /\ p <= Down(w)[2] /\ Down(w)[2] - Down(w)[1] <= d
          BY <2>0, <3>1, <3>5
        <4>2. QED
          BY <1>7, <3>1, <3>3, <3>5, <4>1
      <3>6. QED
        BY <3>4, <3>5
    <2>3. QED
      BY <2>0, <2>1, <2>2
  <1>8. Nat \subseteq S
    <2> HIDE DEF S
    <2>1. QED
      BY <1>6, <1>7, Induction
  <1>9. n \in S /\ <<0, n>> \in W
    BY <1>1, <1>8 DEF Windows
  <1>10. 0 <= p /\ p <= n /\ n - 0 <= n
    BY <1>1
  <1>11. f0[<<0, n>>] = p
    BY <1>9, <1>10
  <1>12. QED
    BY <1>4, <1>11

-----------------------------------------------------------------------------
(* Instructions and ranges.                                                  *)

LayoutOK ==
    layout \in [size : [Addrs -> 0 .. MaxBytes], readable : Readables, symbol : Symbols]

LEMMA LayoutFacts ==
    ASSUME LayoutOK
    PROVE  /\ \A addr \in Addrs : layout.size[addr] \in 0 .. MaxBytes
           /\ layout.readable[1] \in 0 .. EndAddr /\ layout.readable[2] \in 0 .. EndAddr
           /\ layout.symbol[1] \in 0 .. EndAddr /\ layout.symbol[2] \in 0 .. EndAddr
           /\ EndAddr \in Nat /\ MaxBytes \in Nat /\ MaxBytes > 0
  <1>1. /\ layout.size \in [Addrs -> 0 .. MaxBytes]
        /\ layout.readable \in Readables /\ layout.symbol \in Symbols
    BY DEF LayoutOK
  <1>2. \A r \in Readables \cup Symbols : r \in (0 .. EndAddr) \X (0 .. EndAddr)
    BY LayoutAssumption
  <1>3. QED
    BY <1>1, <1>2, LayoutAssumption

Ascending(addrs) == \A i, j \in 1 .. Len(addrs) : i < j => addrs[i] < addrs[j]

\* What the loop of Instructions has got: increasing addresses from addr on.
Decoding(b, addr, end) ==
    /\ b.next \in addr .. end /\ b.addrs \in Seq(Addrs) /\ Ascending(b.addrs)
    /\ \A i \in 1 .. Len(b.addrs) : addr <= b.addrs[i] /\ b.addrs[i] < b.next
    /\ IF b.addrs = <<>> THEN b.next = addr ELSE b.addrs[1] = addr

LEMMA DecodingGoesOn ==
    ASSUME LayoutOK, NEW addr \in Nat, NEW end \in 0 .. EndAddr,
           NEW b \in [next : Nat, addrs : Seq(Addrs)], Decoding(b, addr, end)
    PROVE  Decoded(b, end) \in [next : Nat, addrs : Seq(Addrs)] /\ Decoding(Decoded(b, end), addr, end)
  <1>1. CASE ~(b.next < end /\ Decodes(b.next, end))
    BY <1>1 DEF Decoded
  <1>2. CASE b.next < end /\ Decodes(b.next, end)
    <2> DEFINE x == b.next
               d == Decoded(b, end)
    <2>1. x \in Nat /\ x \in Addrs /\ addr <= x /\ end \in Nat
      BY <1>2, LayoutFacts DEF Decoding, Addrs
    <2>2. layout.size[x] \in Nat /\ layout.size[x] > 0 /\ x + layout.size[x] <= end
      BY <1>2, <2>1, LayoutFacts DEF Decodes
    <2>3. d = [next |-> x + layout.size[x], addrs |-> Append(b.addrs, x)]
      BY <1>2 DEF Decoded
    <2>4. d.next = x + layout.size[x] /\ d.addrs = Append(b.addrs, x)
      BY <2>3
    <2>5. b.addrs \in Seq(Addrs) /\ Len(b.addrs) \in Nat
      OBVIOUS
    <2> DEFINE n == Len(b.addrs)
    <2>6. /\ d.addrs \in Seq(Addrs) /\ Len(d.addrs) = n + 1 /\ d.addrs[n + 1] = x
          /\ \A i \in 1 .. n : d.addrs[i] = b.addrs[i]
      BY <2>1, <2>4, <2>5
    <2>7. \A i \in 1 .. n : b.addrs[i] \in Nat /\ addr <= b.addrs[i] /\ b.addrs[i] < x
      <3> TAKE i \in 1 .. n
      <3>1. b.addrs[i] \in Addrs
        BY <2>5
      <3>2. addr <= b.addrs[i] /\ b.addrs[i] < x
        BY DEF Decoding
      <3>3. QED
        BY <3>1, <3>2 DEF Addrs
    <2>8. \A i \in 1 .. n + 1 : i = n + 1 \/ i \in 1 .. n
      BY <2>5
    <2> HIDE DEF n, d, x
    <2>9. Ascending(d.addrs)
      <3> SUFFICES ASSUME NEW i \in 1 .. n + 1, NEW j \in 1 .. n + 1, i < j
                   PROVE  d.addrs[i] < d.addrs[j]
        BY <2>6 DEF Ascending
      <3>1. i \in 1 .. n
        BY <2>5 DEF n
      <3>2. CASE j = n + 1
        BY <2>6, <2>7, <3>1, <3>2
      <3>3. CASE j \in 1 .. n
        BY <2>6, <3>1, <3>3 DEF Decoding, Ascending, n
      <3>4. QED
        BY <2>8, <3>2, <3>3
    <2>10. \A i \in 1 .. Len(d.addrs) : addr <= d.addrs[i] /\ d.addrs[i] < d.next
      <3> SUFFICES ASSUME NEW i \in 1 .. n + 1
                   PROVE  addr <= d.addrs[i] /\ d.addrs[i] < d.next
        BY <2>6
      <3>1. CASE i = n + 1
        BY <2>1, <2>2, <2>4, <2>6, <3>1
      <3>2. CASE i \in 1 .. n
        BY <2>1, <2>2, <2>4, <2>6, <2>7, <3>2
      <3>3. QED
        BY <2>8, <3>1, <3>2
    <2>11. d.addrs # <<>> /\ d.addrs[1] = addr
      <3>1. CASE n = 0
        <4>1. b.addrs = <<>>
          BY <2>5, <3>1 DEF n
        <4>2. x = addr
          BY <4>1 DEF Decoding, x
        <4>3. QED
          BY <2>6, <3>1, <4>2
      <3>2. CASE n # 0
        <4>1. b.addrs # <<>> /\ 1 \in 1 .. n
          BY <2>5, <3>2 DEF n
        <4>2. QED
          BY <2>5, <2>6, <4>1 DEF Decoding, n
      <3>3. QED
        BY <3>1, <3>2
    <2>12. d.next \in addr .. end /\ d.next \in Nat
      BY <2>1, <2>2, <2>4
    <2>13. d \in [next : Nat, addrs : Seq(Addrs)]
      BY <2>3, <2>4, <2>6, <2>12
    <2>14. Decoding(d, addr, end)
      BY <2>6, <2>9, <2>10, <2>11, <2>12 DEF Decoding
    <2>15. QED
      BY <2>13, <2>14 DEF d
  <1>3. QED
    BY <1>1, <1>2

\* The instructions that LLDB decodes in a row.
LEMMA InstructionsAre ==
    ASSUME LayoutOK, NEW end \in 0 .. EndAddr, NEW addr \in 0 .. end, NEW n \in Nat
    PROVE  LET addrs == Instructions(addr, end, n)
           IN  /\ addrs \in Seq(Addrs) /\ Ascending(addrs)
               /\ addrs # <<>> => addrs[1] = addr
               /\ \A i \in 1 .. Len(addrs) : addr <= addrs[i] /\ addrs[i] < end
  <1> DEFINE V == {b \in [next : Nat, addrs : Seq(Addrs)] : Decoding(b, addr, end)}
             first == [next |-> addr, addrs |-> <<>>]
             step == [k \in Nat |-> [b \in V |-> Decoded(b, end)]]
             Loop(f) == f = [k \in 0 .. n |-> IF k = 0 THEN first ELSE Decoded(f[k - 1], end)]
             f0 == CHOOSE f : Loop(f)
  <1>0. addr \in Nat /\ end \in Nat /\ EndAddr \in Nat
    BY LayoutFacts
  <1>1. first \in V
    <2>1. first.next = addr /\ first.addrs = <<>> /\ first.addrs \in Seq(Addrs) /\ Len(first.addrs) = 0
      OBVIOUS
    <2>2. Decoding(first, addr, end)
      BY <1>0, <2>1 DEF Decoding, Ascending
    <2>3. first \in [next : Nat, addrs : Seq(Addrs)]
      BY <1>0
    <2>4. QED
      BY <2>2, <2>3
  <1>2. \A b \in V : Decoded(b, end) \in V
    BY <1>0, DecodingGoesOn
  <1> HIDE DEF V, first
  <1>3. step \in [Nat -> [V -> V]]
    BY <1>2
  <1>4. PICK g \in [0 .. n -> V] : g[0] = first /\ \A k \in 1 .. n : g[k] = step[k][g[k - 1]]
    <2>1. \E f : Loops(f, V, first, step, n)
      <3> HIDE DEF step
      <3>1. QED
        BY <1>1, <1>3, LoopValues
    <2>2. QED
      BY <2>1 DEF Loops
  <1>5. Loop(g)
    <2>1. ASSUME NEW k \in 0 .. n PROVE g[k] = IF k = 0 THEN first ELSE Decoded(g[k - 1], end)
      <3>1. CASE k = 0
        BY <1>4, <3>1
      <3>2. CASE k # 0
        <4>1. k \in 1 .. n /\ k \in Nat /\ k - 1 \in 0 .. n /\ g[k - 1] \in V
          BY <3>2
        <4>2. step[k][g[k - 1]] = Decoded(g[k - 1], end)
          BY <4>1
        <4>3. QED
          BY <1>4, <3>2, <4>1, <4>2
      <3>3. QED
        BY <3>1, <3>2
    <2>2. QED
      BY <2>1
  <1>6. Loop(f0)
    BY <1>5
  <1>7. Instructions(addr, end, n) = f0[n].addrs
    BY DEF Instructions, first
  <1> HIDE DEF f0
  <1> DEFINE S == {k \in Nat : k <= n => f0[k] \in V}
  <1>8. 0 \in S
    <2>1. f0[0] = first
      BY <1>6
    <2>2. QED
      BY <1>1, <2>1
  <1>9. ASSUME NEW k \in Nat, k \in S PROVE k + 1 \in S
    <2> SUFFICES ASSUME k + 1 <= n PROVE f0[k + 1] \in V
      OBVIOUS
    <2>1. k + 1 \in 0 .. n /\ k + 1 # 0 /\ k + 1 - 1 = k
      OBVIOUS
    <2>2. f0[k + 1] = Decoded(f0[k], end) /\ f0[k] \in V
      BY <1>6, <1>9, <2>1
    <2>3. QED
      BY <1>2, <2>2
  <1>10. Nat \subseteq S
    <2> HIDE DEF S
    <2>1. QED
      BY <1>8, <1>9, Induction
  <1>11. f0[n] \in V
    BY <1>10
  <1> DEFINE b == f0[n]
  <1>12. b \in [next : Nat, addrs : Seq(Addrs)] /\ Decoding(b, addr, end)
    BY <1>11 DEF V
  <1> HIDE DEF b
  <1>13. /\ b.addrs \in Seq(Addrs) /\ Ascending(b.addrs)
         /\ b.addrs # <<>> => b.addrs[1] = addr
         /\ \A i \in 1 .. Len(b.addrs) : addr <= b.addrs[i] /\ b.addrs[i] < end
    <2>1. b.next \in addr .. end /\ \A i \in 1 .. Len(b.addrs) : b.addrs[i] \in Addrs
      BY <1>12 DEF Decoding
    <2>2. QED
      BY <1>0, <1>12, <2>1 DEF Decoding, Addrs
  <1>14. QED
    BY <1>7, <1>13 DEF b

\* What from_address makes of an address: a range that begins with its first
\* instruction, and contains the address unless it has a single instruction.
RangeOK(r) ==
    /\ r.start \in Addrs /\ r.end \in r.start .. EndAddr
    /\ r.addrs \in Seq(Addrs) /\ r.addrs # <<>> /\ r.addrs[1] = r.start /\ Ascending(r.addrs)

LEMMA RangeAroundIs ==
    ASSUME LayoutOK, NEW addr \in Addrs, RangeAround(addr).addrs # <<>>
    PROVE  /\ RangeOK(RangeAround(addr)) /\ RangeAround(addr).start <= addr
           /\ \/ Contains(RangeAround(addr), addr)
              \/ Len(RangeAround(addr).addrs) = 1 /\ ~HasSymbol(addr)
           /\ HasSymbol(addr) => /\ RangeAround(addr).start = layout.symbol[1]
                                 /\ RangeAround(addr).end = layout.symbol[2]
           /\ ~HasSymbol(addr) => RangeAround(addr).start = addr
  <1> DEFINE r == RangeAround(addr)
  <1>0. addr \in Nat /\ addr < EndAddr /\ EndAddr \in Nat
    BY LayoutFacts DEF Addrs
  <1>1. CASE HasSymbol(addr)
    <2> DEFINE a == layout.symbol[1]
               e == layout.symbol[2]
    <2>1. a \in Nat /\ e \in 0 .. EndAddr /\ a \in 0 .. e /\ a <= addr /\ addr < e
      BY <1>0, <1>1, LayoutFacts DEF HasSymbol, In
    <2>2. r = [start |-> a, end |-> e, addrs |-> Instructions(a, e, EndAddr)]
      BY <1>1 DEF RangeAround
    <2>3. r.start = a /\ r.end = e /\ r.addrs = Instructions(a, e, EndAddr)
      BY <2>2
    <2> HIDE DEF r
    <2>4. r.addrs \in Seq(Addrs) /\ Ascending(r.addrs) /\ (r.addrs # <<>> => r.addrs[1] = a)
      BY <1>0, <2>1, <2>3, InstructionsAre
    <2>5. a \in Addrs /\ e \in a .. EndAddr
      BY <1>0, <2>1 DEF Addrs
    <2>6. r.addrs # <<>>
      BY DEF r
    <2>7. RangeOK(r) /\ r.start <= addr /\ Contains(r, addr)
      BY <2>1, <2>3, <2>4, <2>5, <2>6 DEF RangeOK, Contains
    <2>8. QED
      BY <1>1, <2>3, <2>7 DEF r
  <1>2. CASE ~HasSymbol(addr)
    <2> DEFINE e == layout.readable[2]
               addrs == Instructions(addr, e, NoSymbolInstructions + 1)
               n == Len(addrs)
    <2>1. r = [start |-> addr,
               end |-> IF (IF Readable(addr) THEN addrs ELSE <<>>) = <<>> THEN addr
                       ELSE (IF Readable(addr) THEN addrs ELSE <<>>)[Len(IF Readable(addr) THEN addrs ELSE <<>>)],
               addrs |-> IF Readable(addr) THEN addrs ELSE <<>>]
      BY <1>2 DEF RangeAround
    <2>2. r.addrs = (IF Readable(addr) THEN addrs ELSE <<>>) /\ r.start = addr
      BY <2>1
    <2>3. Readable(addr) /\ r.addrs = addrs /\ addrs # <<>>
      BY <2>2
    <2>4. r.end = addrs[n]
      BY <2>1, <2>3
    <2> HIDE DEF r, addrs
    <2>5. e \in 0 .. EndAddr /\ addr \in 0 .. e
      BY <1>0, <2>3, LayoutFacts DEF Readable, In
    <2>6. /\ addrs \in Seq(Addrs) /\ Ascending(addrs) /\ addrs[1] = addr
          /\ \A i \in 1 .. Len(addrs) : addr <= addrs[i] /\ addrs[i] < e
      <3>1. NoSymbolInstructions + 1 \in Nat
        BY DisassemblyAssumption
      <3>2. QED
        BY <2>3, <2>5, <3>1, InstructionsAre DEF addrs
    <2>7. n \in Nat /\ n > 0 /\ n \in 1 .. n /\ 1 \in 1 .. n
      BY <2>3, <2>6
    <2>8. addrs[n] \in Addrs /\ addr <= addrs[n]
      BY <2>6, <2>7
    <2>9. addrs[n] \in addr .. EndAddr
      BY <1>0, <2>8 DEF Addrs
    <2>10. n = 1 \/ addr < addrs[n]
      <3>1. \A i, j \in 1 .. n : i < j => addrs[i] < addrs[j]
        BY <2>6 DEF Ascending
      <3>2. CASE 1 < n
        BY <2>6, <2>7, <3>1, <3>2
      <3>3. n = 1 \/ 1 < n
        BY <2>7
      <3>4. QED
        BY <3>2, <3>3
    <2>11. RangeOK(r) /\ r.start <= addr
      BY <1>0, <2>2, <2>3, <2>4, <2>6, <2>9 DEF RangeOK
    <2>12. Contains(r, addr) \/ Len(r.addrs) = 1
      BY <1>0, <2>2, <2>3, <2>4, <2>10 DEF Contains
    <2>13. QED
      BY <1>2, <2>2, <2>11, <2>12 DEF r
  <1>3. QED
    BY <1>1, <1>2

-----------------------------------------------------------------------------
(* The tables of ranges.                                                     *)

\* RangeAround with the layout as a parameter: the same range now and later.
DecodedIn(l, before, end) ==
    IF before.next < end /\ l.size[before.next] > 0 /\ before.next + l.size[before.next] <= end
    THEN [next |-> before.next + l.size[before.next],
          addrs |-> Append(before.addrs, before.next)]
    ELSE before
InstructionsIn(l, addr, end, n) ==
    LET list[k \in 0 .. n] ==
            IF k = 0 THEN [next |-> addr, addrs |-> <<>>] ELSE DecodedIn(l, list[k - 1], end)
    IN list[n].addrs
AroundIn(l, addr) ==
    IF In(addr, l.symbol)
    THEN [start |-> l.symbol[1], end |-> l.symbol[2],
          addrs |-> InstructionsIn(l, l.symbol[1], l.symbol[2], EndAddr)]
    ELSE LET addrs == IF In(addr, l.readable)
                      THEN InstructionsIn(l, addr, l.readable[2], NoSymbolInstructions + 1)
                      ELSE <<>>
         IN [start |-> addr, end |-> IF addrs = <<>> THEN addr ELSE addrs[Len(addrs)],
             addrs |-> addrs]

LEMMA AroundIs == \A addr : RangeAround(addr) = AroundIn(layout, addr)
  BY DEF RangeAround, AroundIn, HasSymbol, Readable, In, Instructions, InstructionsIn,
     Decoded, DecodedIn, Decodes

RangesIn(l) == {AroundIn(l, a) : a \in {b \in Addrs : AroundIn(l, b).addrs # <<>>}}

\* by_address has every range once, in the order of the start addresses.
BookOK ==
    /\ LayoutOK
    /\ by_handle \in Seq(RangesIn(layout))
    /\ by_address \in Seq(Nat) /\ Len(by_address) = Len(by_handle)
    /\ \A q \in 1 .. Len(by_address) : by_address[q] \in 1 .. Len(by_handle)
    /\ \A i \in 1 .. Len(by_handle) : \E q \in 1 .. Len(by_address) : by_address[q] = i
    /\ \A q, k \in 1 .. Len(by_address) :
          q <= k => by_handle[by_address[q]].start <= by_handle[by_address[k]].start

\* The range contains the address and is the last that starts before it.
Latest(i, addr) ==
    /\ i \in 1 .. Len(by_handle) /\ Contains(by_handle[i], addr)
    /\ \E q \in 1 .. Len(by_address) :
          /\ by_address[q] = i
          /\ \A k \in q + 1 .. Len(by_address) : addr < by_handle[by_address[k]].start

PlacedOK ==
    answer.kind = "placed" =>
        /\ answer.addr \in Addrs /\ answer.at \in 1 .. Len(by_handle)
        /\ \/ Latest(answer.at, answer.addr)
           \/ Len(by_handle[answer.at].addrs) = 1 /\ ~HasSymbol(answer.addr)

BookInv == BookOK /\ PlacedOK

LEMMA HandlesAre ==
    ASSUME BookOK
    PROVE  /\ Len(by_handle) \in Nat /\ DOMAIN by_handle = 1 .. Len(by_handle)
           /\ DOMAIN by_address = 1 .. Len(by_handle)
           /\ \A i \in 1 .. Len(by_handle) :
                 /\ RangeOK(by_handle[i]) /\ by_handle[i].start \in Nat /\ by_handle[i].end \in Nat
                 /\ \E a \in Addrs : by_handle[i] = RangeAround(a) /\ RangeAround(a).addrs # <<>>
  <1>1. by_handle \in Seq(RangesIn(layout)) /\ by_address \in Seq(Nat) /\ Len(by_address) = Len(by_handle)
    BY DEF BookOK
  <1>2. ASSUME NEW i \in 1 .. Len(by_handle)
        PROVE  /\ RangeOK(by_handle[i]) /\ by_handle[i].start \in Nat /\ by_handle[i].end \in Nat
               /\ \E a \in Addrs : by_handle[i] = RangeAround(a) /\ RangeAround(a).addrs # <<>>
    <2>1. by_handle[i] \in RangesIn(layout)
      BY <1>1
    <2>2. PICK a \in Addrs : by_handle[i] = RangeAround(a) /\ RangeAround(a).addrs # <<>>
      BY <2>1, AroundIs DEF RangesIn
    <2>3. RangeOK(by_handle[i])
      BY <2>2, RangeAroundIs DEF BookOK
    <2>4. by_handle[i].start \in Nat /\ by_handle[i].end \in Nat
      BY <2>3 DEF RangeOK, Addrs
    <2>5. QED
      BY <2>2, <2>3, <2>4
  <1>3. QED
    BY <1>1, <1>2

\* find_by_address, by the partition of the start addresses.
LEMMA StartsPartition ==
    ASSUME BookOK, NEW limit \in Int
    PROVE  \E p \in 0 .. Len(by_handle) :
              /\ PartitionPoint(Starts, limit) = p
              /\ \A q \in 1 .. Len(by_handle) : by_handle[by_address[q]].start < limit <=> q <= p
  <1> DEFINE n == Len(by_handle)
  <1>1. /\ n \in Nat /\ DOMAIN by_address = 1 .. n /\ Len(by_address) = n
        /\ \A i \in 1 .. n : by_handle[i].start \in Nat
        /\ \A q \in 1 .. n : by_address[q] \in 1 .. n
    BY HandlesAre DEF BookOK
  <1>2. /\ Starts \in [1 .. n -> Int] /\ \A q \in 1 .. n : Starts[q] = by_handle[by_address[q]].start
    BY <1>1 DEF Starts
  <1>3. Starts \in Seq(Int) /\ Len(Starts) = n
    <2> HIDE DEF n
    <2>1. Starts \in Seq(Int)
      BY <1>1, <1>2
    <2>2. DOMAIN Starts = 1 .. n /\ DOMAIN Starts = 1 .. Len(Starts) /\ Len(Starts) \in Nat
      BY <1>2, <2>1
    <2>3. QED
      BY <1>1, <2>1, <2>2
  <1>4. Sorted(Starts)
    <2>1. \A q, k \in 1 .. n :
             q <= k => by_handle[by_address[q]].start <= by_handle[by_address[k]].start
      BY <1>1 DEF BookOK
    <2> HIDE DEF n
    <2>2. QED
      BY <1>2, <1>3, <2>1 DEF Sorted
  <1>5. PICK p \in 0 .. Len(Starts) : Partitioned(Starts, limit, p)
    BY <1>3, <1>4, PartitionExists
  <1>6. PartitionPoint(Starts, limit) = p
    BY <1>3, <1>5, PartitionPointIs
  <1>7. p \in 0 .. n /\ \A q \in 1 .. n : by_handle[by_address[q]].start < limit <=> q <= p
    BY <1>2, <1>3, <1>5 DEF Partitioned
  <1>8. QED
    BY <1>6, <1>7

LEMMA FoundIsLatest ==
    ASSUME BookOK, NEW addr \in Addrs, FindByAddress(addr) # 0
    PROVE  Latest(FindByAddress(addr), addr)
  <1> DEFINE n == Len(by_handle)
  <1>0. addr \in Nat /\ addr + 1 \in Int
    BY DEF Addrs
  <1>1. PICK p \in 0 .. n :
              /\ PartitionPoint(Starts, addr + 1) = p
              /\ \A q \in 1 .. n : by_handle[by_address[q]].start < addr + 1 <=> q <= p
    BY <1>0, StartsPartition
  <1>2. p > 0 /\ Contains(by_handle[by_address[p]], addr) /\ FindByAddress(addr) = by_address[p]
    BY <1>1 DEF FindByAddress
  <1>3. /\ n \in Nat /\ p \in 1 .. n /\ Len(by_address) = n
        /\ \A q \in 1 .. n : by_address[q] \in 1 .. n /\ by_handle[by_address[q]].start \in Nat
    <2>1. n \in Nat /\ \A i \in 1 .. n : by_handle[i].start \in Nat
      BY HandlesAre
    <2>2. Len(by_address) = n /\ \A q \in 1 .. n : by_address[q] \in 1 .. n
      BY DEF BookOK
    <2> HIDE DEF n
    <2>3. p \in 1 .. n
      BY <1>1, <1>2, <2>1
    <2>4. QED
      BY <2>1, <2>2, <2>3
  <1>4. \A k \in p + 1 .. n : addr < by_handle[by_address[k]].start
    <2> TAKE k \in p + 1 .. n
    <2>1. k \in 1 .. n /\ ~(k <= p)
      BY <1>3
    <2>2. ~(by_handle[by_address[k]].start < addr + 1) /\ by_handle[by_address[k]].start \in Nat
      BY <1>1, <1>3, <2>1
    <2>3. QED
      BY <1>0, <2>2
  <1>5. QED
    BY <1>2, <1>3, <1>4 DEF Latest

LEMMA LatestIsFound ==
    ASSUME BookOK, NEW addr \in Addrs, NEW i, Latest(i, addr)
    PROVE  FindByAddress(addr) = i
  <1> DEFINE n == Len(by_handle)
  <1>0. addr \in Nat /\ addr + 1 \in Int
    BY DEF Addrs
  <1>1. PICK p \in 0 .. n :
              /\ PartitionPoint(Starts, addr + 1) = p
              /\ \A q \in 1 .. n : by_handle[by_address[q]].start < addr + 1 <=> q <= p
    BY <1>0, StartsPartition
  <1>2. PICK q \in 1 .. n : by_address[q] = i /\ \A k \in q + 1 .. n : addr < by_handle[by_address[k]].start
    BY DEF Latest, BookOK
  <1>3. /\ n \in Nat /\ \A k \in 1 .. n : by_address[k] \in 1 .. n /\ by_handle[by_address[k]].start \in Nat
    BY HandlesAre DEF BookOK
  <1>4. q <= p
    <2>1. by_handle[i].start <= addr /\ by_handle[i].start \in Nat
      BY <1>2, <1>3 DEF Latest, Contains
    <2>2. by_handle[by_address[q]].start < addr + 1
      BY <1>0, <1>2, <2>1
    <2>3. QED
      BY <1>1, <2>2
  <1>5. ASSUME q < p PROVE FALSE
    <2>1. p \in q + 1 .. n /\ p \in 1 .. n
      BY <1>1, <1>2, <1>3, <1>5
    <2>2. by_handle[by_address[p]].start < addr + 1 /\ addr < by_handle[by_address[p]].start
          /\ by_handle[by_address[p]].start \in Nat
      BY <1>1, <1>2, <1>3, <2>1
    <2>3. QED
      BY <1>0, <2>2
  <1>6. p = q /\ p > 0
    BY <1>1, <1>2, <1>3, <1>4, <1>5
  <1>7. QED
    BY <1>1, <1>2, <1>6 DEF FindByAddress, Latest

\* What a lookup that finds nothing means for a range that contains the address: a
\* shorter one begins inside it and ends before the address.
LEMMA NotFoundIsCovered ==
    ASSUME BookOK, NEW addr \in Addrs, FindByAddress(addr) = 0,
           NEW i \in 1 .. Len(by_handle), Contains(by_handle[i], addr)
    PROVE  \E j \in 1 .. Len(by_handle) :
              by_handle[j].start \in by_handle[i].start .. addr /\ by_handle[j].end <= addr
  <1> DEFINE n == Len(by_handle)
  <1>0. addr \in Nat /\ addr + 1 \in Int
    BY DEF Addrs
  <1>1. PICK p \in 0 .. n :
              /\ PartitionPoint(Starts, addr + 1) = p
              /\ \A q \in 1 .. n : by_handle[by_address[q]].start < addr + 1 <=> q <= p
    BY <1>0, StartsPartition
  <1>2. /\ n \in Nat /\ \A k \in 1 .. n : by_address[k] \in 1 .. n
        /\ \A k \in 1 .. n : by_handle[k].start \in Nat /\ by_handle[k].end \in Nat
    BY HandlesAre DEF BookOK
  <1>3. PICK q \in 1 .. n : by_address[q] = i
    BY DEF BookOK
  <1>4. q <= p
    BY <1>0, <1>1, <1>2, <1>3 DEF Contains
  <1>5. p \in 1 .. n /\ p > 0 /\ by_address[p] \in 1 .. n /\ by_address[p] # 0
    BY <1>1, <1>2, <1>4
  <1> DEFINE j == by_address[p]
  <1>6. ~Contains(by_handle[j], addr)
    BY <1>1, <1>5 DEF FindByAddress
  <1>7. by_handle[j].start <= addr
    BY <1>0, <1>1, <1>2, <1>5
  <1>8. by_handle[i].start <= by_handle[j].start
    BY <1>3, <1>4, <1>5 DEF BookOK
  <1>9. by_handle[j].end <= addr
    BY <1>0, <1>2, <1>5, <1>6, <1>7 DEF Contains
  <1>10. QED
    BY <1>0, <1>2, <1>5, <1>7, <1>8, <1>9

-----------------------------------------------------------------------------
(* from_address.                                                             *)

\* x is put into a sequence of n elements behind its first p.
InsertAt(s, p, x) == SubSeq(s, 1, p) \o <<x>> \o SubSeq(s, p + 1, Len(s))
Inserts(old, now, n, p, x) ==
    /\ now[p + 1] = x
    /\ \A i \in 1 .. p : now[i] = old[i]
    /\ \A i \in p + 2 .. n + 1 : now[i] = old[i - 1]

LEMMA InsertedAt ==
    ASSUME NEW S, NEW s \in Seq(S), NEW x \in S, NEW p \in 0 .. Len(s)
    PROVE  /\ InsertAt(s, p, x) \in Seq(S) /\ Len(InsertAt(s, p, x)) = Len(s) + 1
           /\ Inserts(s, InsertAt(s, p, x), Len(s), p, x)
  <1> DEFINE a == SubSeq(s, 1, p)
             b == SubSeq(s, p + 1, Len(s))
             c == a \o <<x>>
             t == c \o b
             n == Len(s)
  <1>1. n \in Nat /\ p \in Nat /\ p <= n
    OBVIOUS
  <1>2. a \in Seq(S) /\ Len(a) = p /\ \A i \in 1 .. p : a[i] = s[i]
    OBVIOUS
  <1>3. b \in Seq(S) /\ Len(b) = n - p /\ \A i \in 1 .. n - p : b[i] = s[p + i]
    OBVIOUS
  <1> HIDE DEF a, b, n
  <1>4. /\ c \in Seq(S) /\ Len(c) = p + 1 /\ c[p + 1] = x /\ \A i \in 1 .. p : c[i] = a[i]
    BY <1>1, <1>2
  <1> HIDE DEF c
  <1>5. /\ t \in Seq(S) /\ Len(t) = n + 1 /\ \A i \in 1 .. p + 1 : t[i] = c[i]
        /\ \A i \in 1 .. n - p : t[p + 1 + i] = b[i]
    <2>0. c \in Seq(S) /\ b \in Seq(S)
      BY <1>3, <1>4
    <2>1. t \in Seq(S) /\ Len(t) = Len(c) + Len(b)
      BY <2>0
    <2>2. Len(t) = n + 1
      BY <1>1, <1>3, <1>4, <2>1
    <2>3. \A i \in 1 .. p + 1 : t[i] = c[i]
      BY <1>1, <1>3, <1>4
    <2>4. \A i \in 1 .. n - p : t[p + 1 + i] = b[i]
      BY <1>1, <1>3, <1>4
    <2>5. QED
      BY <2>1, <2>2, <2>3, <2>4
  <1> HIDE DEF t
  <1>6. \A i \in p + 2 .. n + 1 : t[i] = s[i - 1]
    <2> TAKE i \in p + 2 .. n + 1
    <2>1. i - p - 1 \in 1 .. n - p /\ p + 1 + (i - p - 1) = i /\ p + (i - p - 1) = i - 1
      BY <1>1
    <2>2. QED
      BY <1>3, <1>5, <2>1
  <1>7. \A i \in 1 .. p : t[i] = s[i]
    BY <1>1, <1>2, <1>4, <1>5
  <1>8. t[p + 1] = x
    BY <1>1, <1>4, <1>5
  <1>9. QED
    BY <1>5, <1>6, <1>7, <1>8 DEF t, c, a, b, n, InsertAt, Inserts

\* A range that starts within the new one, before the address, contains the address
\* as well: two ranges around an address differ only in where they start.
LEMMA StartsWithin ==
    ASSUME BookOK, NEW addr \in Addrs, RangeAround(addr).addrs # <<>>,
           Contains(RangeAround(addr), addr), NEW i \in 1 .. Len(by_handle),
           by_handle[i].start \in RangeAround(addr).start .. addr
    PROVE  Contains(by_handle[i], addr)
  <1> DEFINE new == RangeAround(addr)
             r == by_handle[i]
             lo == layout.symbol[1]
             hi == layout.symbol[2]
  <1>1. PICK a \in Addrs : r = RangeAround(a) /\ RangeAround(a).addrs # <<>>
    BY HandlesAre
  <1>2. LayoutOK /\ lo \in Nat /\ hi \in Nat /\ a \in Nat /\ addr \in Nat
    BY LayoutFacts DEF BookOK, Addrs
  <1>3. /\ r.start <= a /\ (HasSymbol(a) => r.start = lo /\ r.end = hi)
        /\ ~HasSymbol(a) => r.start = a
    BY <1>1, <1>2, RangeAroundIs
  <1>4. /\ HasSymbol(addr) => new.start = lo /\ new.end = hi
        /\ ~HasSymbol(addr) => new.start = addr
    BY <1>2, RangeAroundIs
  <1>5. \A x : HasSymbol(x) <=> lo <= x /\ x < hi
    BY DEF HasSymbol, In
  <1>6. r.start \in Nat /\ new.start \in Nat /\ new.start <= r.start /\ r.start <= addr
    <2>1. RangeOK(new)
      BY <1>2, RangeAroundIs
    <2>2. new.start \in Nat
      BY <2>1 DEF RangeOK, Addrs
    <2>3. QED
      BY <1>2, <2>2, HandlesAre
  <1> HIDE DEF r, new, lo, hi
  <1>7. CASE HasSymbol(addr)
    <2>1. HasSymbol(a)
      BY <1>2, <1>3, <1>4, <1>5, <1>6, <1>7
    <2>2. QED
      BY <1>2, <1>3, <1>5, <1>7, <2>1 DEF Contains, r
  <1>8. CASE ~HasSymbol(addr)
    <2>1. r.start = addr
      BY <1>2, <1>4, <1>6, <1>8
    <2>2. ~HasSymbol(a)
      BY <1>2, <1>3, <1>5, <1>8, <2>1
    <2>3. a = addr
      BY <1>3, <2>1, <2>2
    <2>4. QED
      BY <1>1, <2>3 DEF r
  <1>9. QED
    BY <1>7, <1>8

\* Numbers in order, with x put in behind those that are less.
InOrder(f, n) == \A q, k \in 1 .. n : q <= k => f[q] <= f[k]
Splits(f, n, p, x) == \A q \in 1 .. n : f[q] \in Nat /\ (f[q] < x <=> q <= p)

LEMMA OrderKept ==
    ASSUME NEW n \in Nat, NEW p \in 0 .. n, NEW x \in Nat, NEW old, NEW now,
           Splits(old, n, p, x), InOrder(old, n), Inserts(old, now, n, p, x)
    PROVE  InOrder(now, n + 1) /\ \A q \in p + 2 .. n + 1 : x <= now[q]
  <1> USE DEF Splits, InOrder, Inserts
  <1>1. \A q \in 1 .. p : q \in 1 .. n /\ q <= p
    OBVIOUS
  <1>2. \A q \in p + 2 .. n + 1 : q - 1 \in 1 .. n /\ ~(q - 1 <= p)
    OBVIOUS
  <1>3. \A q \in 1 .. n + 1 : q \in 1 .. p \/ q = p + 1 \/ q \in p + 2 .. n + 1
    OBVIOUS
  <1>4. \A q \in 1 .. p : now[q] \in Nat /\ now[q] < x
    BY <1>1
  <1>5. \A q \in p + 2 .. n + 1 : now[q] \in Nat /\ x <= now[q]
    <2> TAKE q \in p + 2 .. n + 1
    <2>1. old[q - 1] \in Nat /\ ~(old[q - 1] < x) /\ now[q] = old[q - 1]
      BY <1>2
    <2>2. QED
      BY <2>1
  <1>6. ASSUME NEW q \in 1 .. n + 1, NEW k \in 1 .. n + 1, q <= k PROVE now[q] <= now[k]
    <2>1. CASE q \in 1 .. p /\ k \in 1 .. p
      BY <1>1, <1>6, <2>1
    <2>2. CASE q \in 1 .. p /\ k = p + 1
      BY <1>4, <2>2
    <2>3. CASE q \in 1 .. p /\ k \in p + 2 .. n + 1
      <3>1. now[q] \in Nat /\ now[q] < x /\ now[k] \in Nat /\ x <= now[k]
        BY <1>4, <1>5, <2>3
      <3>2. QED
        BY <3>1
    <2>4. CASE q = p + 1 /\ k = p + 1
      BY <2>4
    <2>5. CASE q = p + 1 /\ k \in p + 2 .. n + 1
      BY <1>5, <2>5
    <2>6. CASE q \in p + 2 .. n + 1 /\ k \in p + 2 .. n + 1
      <3>1. q - 1 \in 1 .. n /\ k - 1 \in 1 .. n /\ q - 1 <= k - 1
        BY <1>2, <1>6, <2>6
      <3>2. QED
        BY <2>6, <3>1
    <2>7. ~(q \in p + 2 .. n + 1 /\ k \in 1 .. p) /\ ~(q \in p + 2 .. n + 1 /\ k = p + 1)
          /\ ~(q = p + 1 /\ k \in 1 .. p)
      BY <1>6
    <2>8. QED
      BY <1>3, <2>1, <2>2, <2>3, <2>4, <2>5, <2>6, <2>7
  <1>7. QED
    BY <1>5, <1>6

\* Every position once more, with the last one put in anywhere.
Permutes(f, n) ==
    /\ \A q \in 1 .. n : f[q] \in 1 .. n
    /\ \A i \in 1 .. n : \E q \in 1 .. n : f[q] = i

LEMMA PositionsKept ==
    ASSUME NEW n \in Nat, NEW p \in 0 .. n, NEW old, NEW now,
           Permutes(old, n), Inserts(old, now, n, p, n + 1)
    PROVE  Permutes(now, n + 1)
  <1> USE DEF Permutes, Inserts
  <1>1. \A q \in 1 .. p : q \in 1 .. n /\ q \in 1 .. n + 1
    OBVIOUS
  <1>2. \A q \in p + 2 .. n + 1 : q - 1 \in 1 .. n
    OBVIOUS
  <1>3. \A q \in 1 .. n + 1 : q \in 1 .. p \/ q = p + 1 \/ q \in p + 2 .. n + 1
    OBVIOUS
  <1>4. \A i \in 1 .. n : i \in 1 .. n + 1
    OBVIOUS
  <1>5. p + 1 \in 1 .. n + 1 /\ n + 1 \in 1 .. n + 1
    OBVIOUS
  <1>6. ASSUME NEW q \in 1 .. n + 1 PROVE now[q] \in 1 .. n + 1
    <2>1. CASE q \in 1 .. p
      BY <1>1, <1>4, <2>1
    <2>2. CASE q = p + 1
      BY <1>5, <2>2
    <2>3. CASE q \in p + 2 .. n + 1
      <3>1. q - 1 \in 1 .. n /\ now[q] = old[q - 1]
        BY <1>2, <2>3
      <3>2. QED
        BY <1>4, <3>1
    <2>4. QED
      BY <1>3, <2>1, <2>2, <2>3
  <1>7. ASSUME NEW i \in 1 .. n + 1 PROVE \E q \in 1 .. n + 1 : now[q] = i
    <2>1. CASE i = n + 1
      BY <1>5, <2>1
    <2>2. CASE i \in 1 .. n
      <3>1. PICK q \in 1 .. n : old[q] = i
        BY <2>2
      <3>2. CASE q <= p
        <4>1. q \in 1 .. p
          BY <3>2
        <4>2. QED
          BY <1>1, <3>1, <4>1
      <3>3. CASE ~(q <= p)
        <4>1. q + 1 \in p + 2 .. n + 1 /\ q + 1 \in 1 .. n + 1 /\ q + 1 - 1 = q
          BY <3>3
        <4>2. now[q + 1] = old[q]
          BY <4>1
        <4>3. QED
          BY <3>1, <4>1, <4>2
      <3>4. QED
        BY <3>2, <3>3
    <2>3. i = n + 1 \/ i \in 1 .. n
      OBVIOUS
    <2>4. QED
      BY <2>1, <2>2, <2>3
  <1>8. QED
    BY <1>6, <1>7

\* A new range keeps the tables in order, and if it contains the address it was made
\* for, the next lookup of the address finds it.
LEMMA AddedIsOK ==
    ASSUME BookOK, NEW addr \in Addrs, FindByAddress(addr) = 0, RangeAround(addr).addrs # <<>>,
           NEW h, h = Len(by_handle) + 1, by_handle' = Append(by_handle, RangeAround(addr)),
           by_address' = Insertion(RangeAround(addr)), layout' = layout
    PROVE  /\ BookOK'
           /\ Contains(RangeAround(addr), addr) => Latest(h, addr)'
  <1> DEFINE new == RangeAround(addr)
             n == Len(by_handle)
  <1>1. LayoutOK /\ RangeOK(new) /\ new.start \in Nat /\ new.start \in Int /\ new.start <= addr /\ addr \in Nat
    BY RangeAroundIs DEF BookOK, RangeOK, Addrs
  <1>2. PICK p \in 0 .. n :
              /\ PartitionPoint(Starts, new.start) = p
              /\ \A q \in 1 .. n : by_handle[by_address[q]].start < new.start <=> q <= p
    <2> HIDE DEF new
    <2>1. QED
      BY <1>1, StartsPartition
  <1>3. /\ n \in Nat /\ by_address \in Seq(Nat) /\ Len(by_address) = n
        /\ \A q \in 1 .. n : by_address[q] \in 1 .. n
    BY HandlesAre DEF BookOK
  <1>4. \A q \in 1 .. n : by_handle[by_address[q]].start \in Nat
    <2>1. \A i \in 1 .. n : by_handle[i].start \in Nat
      BY HandlesAre
    <2>2. QED
      BY <1>3, <2>1
  <1>5. /\ by_address' \in Seq(Nat) /\ Len(by_address') = n + 1
        /\ Inserts(by_address, by_address', n, p, n + 1)
    <2>1. by_address' = InsertAt(by_address, p, n + 1)
      BY <1>2 DEF Insertion, InsertAt
    <2>2. n + 1 \in Nat /\ p \in 0 .. Len(by_address)
      BY <1>2, <1>3
    <2> HIDE DEF n
    <2> DEFINE e == n + 1
               t == InsertAt(by_address, p, e)
    <2>3. e \in Nat
      BY <2>2
    <2> HIDE DEF e
    <2>4. t \in Seq(Nat) /\ Len(t) = Len(by_address) + 1 /\ Inserts(by_address, t, Len(by_address), p, e)
      BY <1>3, <2>2, <2>3, InsertedAt
    <2>5. t = by_address' /\ Len(by_address) = n
      BY <1>3, <2>1 DEF e
    <2> HIDE DEF t
    <2>6. QED
      BY <2>4, <2>5 DEF e
  <1>6. new \in RangesIn(layout) /\ by_handle \in Seq(RangesIn(layout))
    BY AroundIs DEF RangesIn, BookOK
  <1>7. /\ by_handle' \in Seq(RangesIn(layout)) /\ Len(by_handle') = n + 1
        /\ by_handle'[n + 1] = new /\ \A i \in 1 .. n : by_handle'[i] = by_handle[i]
    <2> HIDE DEF new
    <2>1. by_handle' = Append(by_handle, new)
      BY DEF new
    <2>2. QED
      BY <1>6, <2>1
  <1> HIDE DEF n, new
  <1> DEFINE old == [q \in 1 .. n |-> by_handle[by_address[q]].start]
             now == [q \in 1 .. n + 1 |-> by_handle'[by_address'[q]].start]
  <1>8. p \in 0 .. n /\ p \in Nat /\ p + 1 \in 1 .. n + 1
    BY <1>2, <1>3
  <1>9. Permutes(by_address', n + 1)
    <2>1. Permutes(by_address, n)
      BY <1>3 DEF BookOK, n, Permutes
    <2>2. QED
      BY <1>3, <1>5, <1>8, <2>1, PositionsKept
  <1>10. Splits(old, n, p, new.start) /\ InOrder(old, n)
    <2>1. \A q, k \in 1 .. n : q <= k => by_handle[by_address[q]].start <= by_handle[by_address[k]].start
      BY <1>3 DEF BookOK
    <2>2. QED
      BY <1>2, <1>4, <2>1 DEF Splits, InOrder
  <1>11. now[p + 1] = new.start
    BY <1>5, <1>7, <1>8 DEF Inserts
  <1>12. ASSUME NEW q \in 1 .. p PROVE now[q] = old[q]
    <2>1. q \in 1 .. n /\ q \in 1 .. n + 1
      BY <1>2, <1>3
    <2>2. by_address'[q] = by_address[q] /\ by_address[q] \in 1 .. n
      BY <1>3, <1>5, <2>1 DEF Inserts
    <2>3. by_handle'[by_address'[q]] = by_handle[by_address[q]]
      BY <1>7, <2>2
    <2>4. QED
      BY <2>1, <2>3
  <1>13. ASSUME NEW q \in p + 2 .. n + 1 PROVE now[q] = old[q - 1]
    <2>1. q - 1 \in 1 .. n /\ q \in 1 .. n + 1
      BY <1>3, <1>8
    <2>2. by_address'[q] = by_address[q - 1] /\ by_address[q - 1] \in 1 .. n
      BY <1>3, <1>5, <2>1 DEF Inserts
    <2>3. by_handle'[by_address'[q]] = by_handle[by_address[q - 1]]
      BY <1>7, <2>2
    <2>4. QED
      BY <2>1, <2>3
  <1>14. InOrder(now, n + 1) /\ \A q \in p + 2 .. n + 1 : new.start <= now[q]
    <2>1. Inserts(old, now, n, p, new.start)
      BY <1>11, <1>12, <1>13 DEF Inserts
    <2> HIDE DEF old, now
    <2>2. QED
      BY <1>1, <1>3, <1>8, <1>10, <2>1, OrderKept
  <1>15. BookOK'
    <2>1. LayoutOK'
      BY <1>1 DEF LayoutOK
    <2>2. \A q, k \in 1 .. n + 1 :
             q <= k => by_handle'[by_address'[q]].start <= by_handle'[by_address'[k]].start
      BY <1>14 DEF InOrder
    <2>3. by_handle' \in Seq(RangesIn(layout'))
      BY <1>7
    <2>4. QED
      BY <1>5, <1>7, <1>9, <2>1, <2>2, <2>3 DEF BookOK, Permutes
  <1>16. ASSUME Contains(new, addr) PROVE Latest(h, addr)'
    <2>1. ASSUME NEW k \in p + 2 .. n + 1 PROVE addr < by_handle'[by_address'[k]].start
      <3> DEFINE i == by_address[k - 1]
      <3>1. k - 1 \in 1 .. n /\ k \in 1 .. n + 1
        BY <1>3, <1>8
      <3>2. i \in 1 .. n /\ by_handle[i].start \in Nat
        BY <1>3, <1>4, <3>1
      <3>3. by_handle'[by_address'[k]].start = by_handle[i].start /\ new.start <= by_handle[i].start
        BY <1>13, <1>14, <3>1
      <3> HIDE DEF i
      <3>4. ASSUME by_handle[i].start <= addr PROVE FALSE
        <4>1. Contains(by_handle[i], addr)
          <5>1. by_handle[i].start \in new.start .. addr
            BY <1>1, <3>2, <3>3, <3>4
          <5>2. QED
            BY <1>16, <3>2, <5>1, StartsWithin DEF new, n
        <4>2. PICK j \in 1 .. n : by_handle[j].start \in by_handle[i].start .. addr /\ by_handle[j].end <= addr
          BY <3>2, <4>1, NotFoundIsCovered DEF n
        <4>3. by_handle[j].start \in new.start .. addr
          <5>1. by_handle[j].start \in Nat
            BY HandlesAre DEF n
          <5>2. new.start <= by_handle[i].start /\ by_handle[i].start <= by_handle[j].start /\ by_handle[j].start <= addr
            BY <1>1, <3>2, <3>3, <4>2, <5>1
          <5>3. QED
            BY <1>1, <3>2, <5>1, <5>2
        <4>4. Contains(by_handle[j], addr)
          BY <1>16, <4>3, StartsWithin DEF new, n
        <4>5. by_handle[j].end \in Nat
          BY HandlesAre DEF n
        <4>6. QED
          BY <1>1, <4>2, <4>4, <4>5 DEF Contains
      <3>5. QED
        BY <1>1, <3>2, <3>3, <3>4
    <2>2. n + 1 \in 1 .. n + 1 /\ Contains(by_handle'[n + 1], addr) /\ p + 1 \in 1 .. n + 1
      BY <1>3, <1>7, <1>8, <1>16
    <2>3. \A k \in (p + 1) + 1 .. n + 1 : addr < by_handle'[by_address'[k]].start
      <3>1. (p + 1) + 1 = p + 2
        BY <1>8
      <3>2. QED
        BY <2>1, <3>1
    <2>4. Len(by_handle') = n + 1 /\ Len(by_address') = n + 1 /\ by_address'[p + 1] = n + 1
      BY <1>5, <1>7 DEF Inserts
    <2>5. /\ h \in 1 .. Len(by_handle') /\ Contains(by_handle'[h], addr)
          /\ \E q \in 1 .. Len(by_address') :
                /\ by_address'[q] = h
                /\ \A k \in q + 1 .. Len(by_address') : addr < by_handle'[by_address'[k]].start
      BY <2>2, <2>3, <2>4 DEF n
    <2>6. QED
      BY <2>5 DEF Latest, Contains
  <1>17. QED
    BY <1>15, <1>16 DEF new, n

-----------------------------------------------------------------------------
(* The invariant and its consequences.                                       *)

LEMMA BookInit == Init => BookInv
  <1> SUFFICES ASSUME Init PROVE BookInv
    OBVIOUS
  <1>1. LayoutOK /\ answer.kind # "placed"
    BY DEF Init, LayoutInit, LayoutOK, NoAnswer
  <1>2. by_handle = <<>> /\ by_address = <<>> /\ Len(by_handle) = 0 /\ Len(by_address) = 0
    BY DEF Init
  <1>3. by_handle \in Seq(RangesIn(layout)) /\ by_address \in Seq(Nat)
    BY <1>2
  <1>4. QED
    BY <1>1, <1>2, <1>3 DEF BookInv, BookOK, PlacedOK

\* The tables stay; only the answer changes.
LEMMA BookStays ==
    ASSUME BookOK, UNCHANGED <<layout, by_handle, by_address>>
    PROVE  BookOK' /\ \A i, addr : Latest(i, addr) => Latest(i, addr)'
  BY DEF BookOK, LayoutOK, Latest, Contains

LEMMA FromAddressStep ==
    ASSUME BookInv, NEW addr \in Addrs, FromAddress(addr)
    PROVE  BookInv'
  <1>0. BookOK /\ layout' = layout
    BY DEF BookInv, FromAddress
  <1>1. CASE FindByAddress(addr) # 0
    <2> DEFINE i == FindByAddress(addr)
    <2>1. answer' = [kind |-> "placed", addr |-> addr, at |-> i] /\ UNCHANGED <<by_handle, by_address>>
      BY <1>1 DEF FromAddress, ranges
    <2>2. Latest(i, addr)
      BY <1>0, <1>1, FoundIsLatest
    <2>3. PICK h : h = i
      OBVIOUS
    <2> HIDE DEF i
    <2>4. BookOK' /\ Latest(h, addr)'
      BY <1>0, <2>1, <2>2, <2>3, BookStays
    <2>5. answer'.kind = "placed" /\ answer'.addr = addr /\ answer'.at = h
      BY <2>1, <2>3
    <2>6. h \in 1 .. Len(by_handle')
      BY <2>4 DEF Latest
    <2>7. QED
      BY <2>4, <2>5, <2>6 DEF BookInv, PlacedOK
  <1>2. CASE FindByAddress(addr) = 0 /\ RangeAround(addr).addrs = <<>>
    <2>1. answer' = Failed /\ UNCHANGED <<by_handle, by_address>>
      BY <1>2 DEF FromAddress, ranges
    <2>2. BookOK' /\ answer'.kind # "placed"
      BY <1>0, <2>1, BookStays DEF Failed
    <2>3. QED
      BY <2>2 DEF BookInv, PlacedOK
  <1>3. CASE FindByAddress(addr) = 0 /\ RangeAround(addr).addrs # <<>>
    <2>1. PICK h : h = Len(by_handle) + 1
      OBVIOUS
    <2>2. /\ by_handle' = Append(by_handle, RangeAround(addr))
          /\ by_address' = Insertion(RangeAround(addr))
          /\ answer' = [kind |-> "placed", addr |-> addr, at |-> h]
      BY <1>3, <2>1 DEF FromAddress
    <2>3. BookOK' /\ (Contains(RangeAround(addr), addr) => Latest(h, addr)')
      BY <1>0, <1>3, <2>1, <2>2, AddedIsOK
    <2>4. Contains(RangeAround(addr), addr) \/ (Len(RangeAround(addr).addrs) = 1 /\ ~HasSymbol(addr))
      BY <1>0, <1>3, RangeAroundIs DEF BookOK
    <2>5. answer'.kind = "placed" /\ answer'.addr = addr /\ answer'.at = h
      BY <2>2
    <2>6. h \in 1 .. Len(by_handle') /\ by_handle'[h] = RangeAround(addr)
      <3>1. by_handle \in Seq(RangesIn(layout))
        BY <1>0 DEF BookOK
      <3>2. QED
        BY <2>1, <2>2, <3>1
    <2>7. HasSymbol(addr)' <=> HasSymbol(addr)
      BY <1>0 DEF HasSymbol, In
    <2>8. Latest(h, addr)' \/ (Len(by_handle'[h].addrs) = 1 /\ ~HasSymbol(addr)')
      BY <2>3, <2>4, <2>6, <2>7
    <2>9. PlacedOK'
      BY <2>5, <2>6, <2>8 DEF PlacedOK, HasSymbol, In
    <2>10. QED
      BY <2>3, <2>9 DEF BookInv
  <1>4. QED
    BY <1>1, <1>2, <1>3

LEMMA BookStep == BookInv /\ [Next]_vars => BookInv'
  <1> SUFFICES ASSUME BookInv, [Next]_vars PROVE BookInv'
    OBVIOUS
  <1>1. ASSUME NEW addr \in Addrs, FromAddress(addr) PROVE BookInv'
    BY <1>1, FromAddressStep
  <1>2. CASE SetTarget
    <2>1. by_handle' = <<>> /\ by_address' = <<>> /\ Len(by_handle') = 0 /\ Len(by_address') = 0
      BY <1>2 DEF SetTarget
    <2>2. by_handle' \in Seq(RangesIn(layout')) /\ by_address' \in Seq(Nat)
      BY <2>1
    <2>3. LayoutOK' /\ answer'.kind # "placed"
      BY <1>2 DEF SetTarget, BookInv, BookOK, LayoutOK, NoAnswer
    <2>4. QED
      BY <2>1, <2>2, <2>3 DEF BookInv, BookOK, PlacedOK
  <1>3. ASSUME NEW base \in Addrs, NEW offset \in -MaxOffset .. MaxOffset, NEW count \in 0 .. MaxCount,
               HandleDisassemble(base, offset, count)
        PROVE  BookInv'
    <2>1. UNCHANGED <<layout, by_handle, by_address>> /\ answer'.kind # "placed"
      BY <1>3 DEF HandleDisassemble, ranges
    <2>2. QED
      BY <2>1, BookStays DEF BookInv, PlacedOK
  <1>4. CASE AnswerTaken
    <2>1. UNCHANGED <<layout, by_handle, by_address>> /\ answer'.kind # "placed"
      BY <1>4 DEF AnswerTaken, ranges, NoAnswer
    <2>2. QED
      BY <2>1, BookStays DEF BookInv, PlacedOK
  <1>5. CASE UNCHANGED vars
    BY <1>5 DEF vars, ranges, BookInv, BookOK, LayoutOK, PlacedOK, Latest, Contains, HasSymbol, In
  <1>6. QED
    BY <1>1, <1>2, <1>3, <1>4, <1>5 DEF Next

\* The tables of ranges agree with each other and with the memory at all times, and
\* what from_address has answered is found again (from_address, add).
THEOREM TablesAgree == Spec => []BookInv
  BY BookInit, BookStep, PTL DEF Spec

\* Looking an address up finds a range that contains it whenever there is one, but
\* for ranges inside a longer one, and from_address answers with a range that the
\* next lookup finds again: for any memory and any sequence of lookups, by the
\* halving search that the code does (find_by_address, from_address, add).
THEOREM LookupIsRight == Spec => []LookupFindsRange
  <1>1. BookInv => LookupFindsRange
    <2> SUFFICES ASSUME BookInv PROVE LookupFindsRange
      OBVIOUS
    <2>0. BookOK /\ DOMAIN by_handle = 1 .. Len(by_handle)
      BY HandlesAre DEF BookInv
    <2>1. ASSUME NEW addr \in Addrs
          PROVE  IF FindByAddress(addr) # 0 THEN Contains(by_handle[FindByAddress(addr)], addr)
                 ELSE \A i \in DOMAIN by_handle : Contains(by_handle[i], addr) =>
                          \E j \in DOMAIN by_handle :
                              /\ by_handle[j].start \in by_handle[i].start .. addr
                              /\ by_handle[j].end <= addr
      <3>1. CASE FindByAddress(addr) # 0
        BY <2>0, <3>1, FoundIsLatest DEF Latest
      <3>2. CASE FindByAddress(addr) = 0
        BY <2>0, <3>2, NotFoundIsCovered
      <3>3. QED
        BY <3>1, <3>2
    <2>2. ASSUME answer.kind = "placed"
          PROVE  \/ FindByAddress(answer.addr) = answer.at
                 \/ Len(by_handle[answer.at].addrs) = 1 /\ ~HasSymbol(answer.addr)
      BY <2>0, <2>2, LatestIsFound DEF BookInv, PlacedOK
    <2>3. QED
      BY <2>1, <2>2 DEF LookupFindsRange
  <1>2. QED
    BY <1>1, TablesAgree, PTL

\* The line of the k-th instruction.
LEMMA LineIs ==
    ASSUME NEW r, RangeOK(r), NEW k \in 1 .. Len(r.addrs)
    PROVE  LineNumByAddress(r, r.addrs[k]) = k + 2
  <1> DEFINE list == r.addrs
  <1>1. list \in Seq(Addrs) /\ Ascending(list) /\ Len(list) \in Nat
    BY DEF RangeOK
  <1> HIDE DEF list
  <1>2. list \in Seq(Int) /\ \A j \in 1 .. Len(list) : list[j] \in Int
    <2>0. \A j \in 1 .. Len(list) : list[j] \in Addrs
      BY <1>1
    <2>1. \A j \in 1 .. Len(list) : list[j] \in Int
      BY <2>0 DEF Addrs
    <2>2. list = [j \in 1 .. Len(list) |-> list[j]]
      BY <1>1
    <2>3. list \in [1 .. Len(list) -> Int]
      BY <2>1, <2>2
    <2>4. QED
      BY <1>1, <2>1, <2>3
  <1>3. k \in 1 .. Len(list) /\ k \in Nat /\ list[k] \in Int /\ k - 1 \in 0 .. Len(list)
    BY <1>1, <1>2 DEF list
  <1>4. ASSUME NEW j \in 1 .. Len(list) PROVE list[j] < list[k] <=> j <= k - 1
    <2>1. (j < k => list[j] < list[k]) /\ (k < j => list[k] < list[j])
      BY <1>1, <1>3 DEF Ascending
    <2>2. list[j] \in Int /\ j \in Nat /\ (j < k \/ j = k \/ k < j)
      BY <1>1, <1>2, <1>3
    <2>3. QED
      BY <1>3, <2>1, <2>2
  <1>5. Partitioned(list, list[k], k - 1)
    BY <1>3, <1>4 DEF Partitioned
  <1>6. PartitionPoint(list, list[k]) = k - 1
    BY <1>2, <1>3, <1>5, PartitionPointIs
  <1>7. QED
    BY <1>3, <1>6 DEF LineNumByAddress, list

\* The address that adding up the saved offsets gives for that line.
LEMMA SavedLineIs ==
    ASSUME NEW r, RangeOK(r), NEW k \in 1 .. Len(r.addrs)
    PROVE  LET saved == LinesFromAdapterData(AdapterData(r))
           IN  /\ k + 2 \in DOMAIN saved /\ saved[k + 2] = r.addrs[k]
               /\ DOMAIN saved = 0 .. Len(r.addrs) + 2
               /\ \A line \in 0 .. 2 : saved[line] = r.start
  <1> DEFINE n == Len(r.addrs)
             m == n - 1
             offsets == [i \in 1 .. m |-> r.addrs[i + 1] - r.addrs[i]]
             a == AdapterData(r)
             Adds(f) == f = [i \in 0 .. Len(a.line_offsets) |->
                                IF i = 0 THEN a.start ELSE f[i - 1] + a.line_offsets[i]]
             f0 == CHOOSE f : Adds(f)
             g == [i \in 0 .. m |-> r.addrs[i + 1]]
  <1>1. n \in Nat /\ m \in Nat /\ n = m + 1 /\ k \in 1 .. n /\ \A i \in 1 .. n : r.addrs[i] \in Int
    <2>1. r.addrs \in Seq(Addrs) /\ r.addrs # <<>>
      BY DEF RangeOK
    <2>2. \A i \in 1 .. n : r.addrs[i] \in Addrs
      BY <2>1
    <2>3. n \in Nat /\ n # 0
      BY <2>1
    <2>4. QED
      BY <2>2, <2>3 DEF Addrs
  <1>2. r.addrs[1] = r.start
    BY DEF RangeOK
  <1> HIDE DEF n, m
  <1>3. offsets \in [1 .. m -> Int] /\ \A i \in 1 .. m : offsets[i] = r.addrs[i + 1] - r.addrs[i]
    <2>1. \A i \in 1 .. m : i \in 1 .. n /\ i + 1 \in 1 .. n
      BY <1>1
    <2>2. \A i \in 1 .. m : r.addrs[i + 1] - r.addrs[i] \in Int
      BY <1>1, <2>1
    <2>3. QED
      BY <2>2
  <1> HIDE DEF offsets
  <1>4. Len(offsets) = m
    <2>1. offsets \in Seq(Int)
      BY <1>1, <1>3
    <2>2. DOMAIN offsets = 1 .. m /\ DOMAIN offsets = 1 .. Len(offsets) /\ Len(offsets) \in Nat
      BY <1>3, <2>1
    <2>3. QED
      BY <1>1, <2>2
  <1>5. ASSUME NEW i \in 1 .. m
        PROVE  i - 1 \in 0 .. m /\ r.addrs[i + 1] = r.addrs[i - 1 + 1] + offsets[i]
    <2>1. i \in 1 .. n /\ i + 1 \in 1 .. n /\ i - 1 + 1 = i /\ i - 1 \in 0 .. m
      BY <1>1
    <2>2. r.addrs[i] \in Int /\ r.addrs[i + 1] \in Int
      BY <1>1, <2>1
    <2>3. offsets[i] = r.addrs[i + 1] - r.addrs[i]
      BY <1>3
    <2>4. r.addrs[i + 1] = r.addrs[i] + offsets[i]
      BY <2>2, <2>3
    <2>5. QED
      BY <2>1, <2>4
  <1>6. a.start = r.start /\ a.line_offsets = offsets
    BY DEF AdapterData, offsets, m, n
  <1>7. LinesFromAdapterData(a) = [line \in 0 .. Len(a.line_offsets) + 3 |-> f0[Greatest(line - 3, 0)]]
    <2> HIDE DEF a
    <2>1. QED
      BY DEF LinesFromAdapterData
  <1> HIDE DEF a
  <1>8. Adds(g)
    <2>1. ASSUME NEW i \in 0 .. m PROVE g[i] = IF i = 0 THEN r.start ELSE g[i - 1] + offsets[i]
      <3>1. CASE i = 0
        BY <1>2, <3>1
      <3>2. CASE i # 0
        <4>1. i \in 1 .. m
          BY <1>1, <3>2
        <4>2. g[i] = r.addrs[i + 1] /\ g[i - 1] = r.addrs[i - 1 + 1]
          BY <1>5, <4>1
        <4>3. QED
          BY <1>5, <3>2, <4>1, <4>2
      <3>3. QED
        BY <3>1, <3>2
    <2>2. g = [i \in 0 .. m |-> IF i = 0 THEN r.start ELSE g[i - 1] + offsets[i]]
      BY <2>1
    <2> HIDE DEF g
    <2>3. QED
      BY <1>4, <1>6, <2>2
  <1>9. \A i \in 0 .. m : f0[i] = IF i = 0 THEN r.start ELSE f0[i - 1] + offsets[i]
    <2>1. Adds(f0)
      <3> HIDE DEF Adds
      <3>1. QED
        BY <1>8
    <2> HIDE DEF f0
    <2>2. f0 = [i \in 0 .. m |-> IF i = 0 THEN r.start ELSE f0[i - 1] + offsets[i]]
      BY <1>4, <1>6, <2>1
    <2>3. QED
      BY <2>2
  <1> HIDE DEF f0
  <1> DEFINE S == {i \in Nat : i <= m => f0[i] = r.addrs[i + 1]}
  <1>10. 0 \in S
    BY <1>1, <1>2, <1>9
  <1>11. ASSUME NEW i \in Nat, i \in S PROVE i + 1 \in S
    <2> SUFFICES ASSUME i + 1 <= m PROVE f0[i + 1] = r.addrs[i + 1 + 1]
      OBVIOUS
    <2>1. i + 1 \in 1 .. m /\ i + 1 \in 0 .. m /\ i + 1 # 0 /\ i + 1 - 1 = i /\ i <= m
      BY <1>1
    <2>2. f0[i + 1] = f0[i] + offsets[i + 1] /\ f0[i] = r.addrs[i + 1]
      BY <1>9, <1>11, <2>1
    <2>3. r.addrs[i + 1 + 1] = r.addrs[i + 1] + offsets[i + 1]
      BY <1>5, <2>1
    <2>4. QED
      BY <2>2, <2>3
  <1>12. Nat \subseteq S
    <2> HIDE DEF S
    <2>1. QED
      BY <1>10, <1>11, Induction
  <1>13. k - 1 \in Nat /\ k - 1 <= m /\ k - 1 + 1 = k /\ k + 2 \in 0 .. m + 3 /\ k + 2 - 3 = k - 1
    BY <1>1
  <1>14. f0[k - 1] = r.addrs[k]
    BY <1>12, <1>13
  <1>15. Greatest(k + 2 - 3, 0) = k - 1
    BY <1>13 DEF Greatest
  <1>16. m + 3 = Len(r.addrs) + 2
    BY <1>1 DEF n
  <1>17. \A line \in 0 .. 2 : line \in 0 .. m + 3 /\ Greatest(line - 3, 0) = 0 /\ f0[0] = r.start
    BY <1>1, <1>9 DEF Greatest
  <1>18. QED
    BY <1>4, <1>6, <1>7, <1>13, <1>14, <1>15, <1>16, <1>17 DEF a

\* The line shown for an instruction leads back to it, by the range itself and by the
\* adapter data saved with a breakpoint, and the two agree on every line but those of the
\* header, whatever the size of the instructions and of the range
\* (line_num_by_address, address_by_line_num, lines_from_adapter_data).
THEOREM LinesLeadBack == Spec => []LinesAgree
  <1>1. BookInv => LinesAgree
    <2> SUFFICES ASSUME BookInv, NEW i \in DOMAIN by_handle
                 PROVE  LET range == by_handle[i]
                            saved == LinesFromAdapterData(AdapterData(range))
                        IN  /\ \A k \in DOMAIN range.addrs :
                                  LET line == LineNumByAddress(range, range.addrs[k])
                                  IN  /\ AddressByLineNum(range, line) = range.addrs[k]
                                      /\ line \in DOMAIN saved /\ saved[line] = range.addrs[k]
                            /\ \A line \in DOMAIN saved :
                                  IF line < 3
                                  THEN AddressByLineNum(range, line) = Panic /\ saved[line] = range.start
                                  ELSE AddressByLineNum(range, line) = saved[line]
      BY DEF LinesAgree
    <2> DEFINE r == by_handle[i]
               saved == LinesFromAdapterData(AdapterData(r))
    <2>1. RangeOK(r)
      BY HandlesAre DEF BookInv
    <2> HIDE DEF r
    <2>2. DOMAIN r.addrs = 1 .. Len(r.addrs) /\ Len(r.addrs) \in Nat /\ 1 \in 1 .. Len(r.addrs)
      BY <2>1 DEF RangeOK
    <2>3. ASSUME NEW k \in 1 .. Len(r.addrs)
          PROVE  /\ LineNumByAddress(r, r.addrs[k]) = k + 2
                 /\ AddressByLineNum(r, k + 2) = r.addrs[k]
                 /\ k + 2 \in DOMAIN saved /\ saved[k + 2] = r.addrs[k]
                 /\ DOMAIN saved = 0 .. Len(r.addrs) + 2 /\ \A line \in 0 .. 2 : saved[line] = r.start
      <3>1. LineNumByAddress(r, r.addrs[k]) = k + 2
        BY <2>1, LineIs
      <3>2. k + 2 - 2 = k
        OBVIOUS
      <3>3. AddressByLineNum(r, k + 2) = r.addrs[k]
        BY <2>2, <3>2 DEF AddressByLineNum
      <3>4. QED
        BY <2>1, <3>1, <3>3, SavedLineIs
    <2> HIDE DEF saved
    <2>4. ASSUME NEW line \in DOMAIN saved
          PROVE  IF line < 3 THEN AddressByLineNum(r, line) = Panic /\ saved[line] = r.start
                 ELSE AddressByLineNum(r, line) = saved[line]
      <3>1. line \in 0 .. Len(r.addrs) + 2 /\ \A x \in 0 .. 2 : saved[x] = r.start
        BY <2>2, <2>3
      <3>2. CASE line < 3
        <4>1. line \in 0 .. 2 /\ line - 2 \notin 1 .. Len(r.addrs)
          BY <2>2, <3>1, <3>2
        <4>2. QED
          BY <2>2, <3>1, <3>2, <4>1 DEF AddressByLineNum
      <3>3. CASE ~(line < 3)
        <4>1. line - 2 \in 1 .. Len(r.addrs) /\ line - 2 + 2 = line
          BY <2>2, <3>1, <3>3
        <4>2. AddressByLineNum(r, line) = r.addrs[line - 2] /\ saved[line] = r.addrs[line - 2]
          BY <2>3, <4>1
        <4>3. QED
          BY <3>3, <4>2
      <3>4. QED
        BY <3>2, <3>3
    <2>5. QED
      BY <2>2, <2>3, <2>4 DEF r, saved
  <1>2. QED
    BY <1>1, TablesAgree, PTL

-----------------------------------------------------------------------------
(* read_memory.                                                              *)

\* From start to end, what is before p cannot be read and what is after p can.
ReadableFrom(p, start, end) == \A a \in start .. end - 1 : ~Readable(a) <=> a < p

LEMMA FirstReadableIs ==
    ASSUME NEW start \in Int, NEW end \in Int, start <= end
    PROVE  /\ FirstReadable(start, end) \in start .. end
           /\ \A p \in start .. end :
                 ReadableFrom(p, start, end) => FirstReadable(start, end) = p
  <1> DEFINE W == Windows(start, end)
             V == start .. end
             Up(w) == <<Middle(w) + 1, w[2]>>
             Down(w) == <<w[1], Middle(w)>>
             Done == {w \in W : w[1] >= w[2]}
             mu == [w \in W |-> IF w[1] < w[2] THEN w[2] - w[1] ELSE 0]
             c == [w \in W |-> w[1]]
             step == [w \in W |-> [v \in V |-> v]]
             next == [w \in W |-> IF w[1] >= w[2] THEN w ELSE IF ~Readable(Middle(w)) THEN Up(w) ELSE Down(w)]
             Halves(f) ==
                 f = [w \in W |-> IF w[1] >= w[2] THEN w[1]
                                  ELSE IF ~Readable(Middle(w)) THEN f[Up(w)] ELSE f[Down(w)]]
             f0 == CHOOSE f : Halves(f)
  <1>1. \A w \in W : w[1] \in V /\ w[2] \in V /\ w[1] \in Int /\ w[2] \in Int
    BY DEF Windows
  <1>2. ASSUME NEW w \in W, w[1] < w[2]
        PROVE  /\ Middle(w) \in V /\ Middle(w) \in Int /\ w[1] <= Middle(w) /\ Middle(w) < w[2]
               /\ Up(w) \in W /\ Down(w) \in W
    <2>1. /\ Middle(w) \in start .. end /\ w[1] <= Middle(w) /\ Middle(w) < w[2]
          /\ Up(w) \in W /\ Down(w) \in W
      BY <1>2, MiddleIsBetween
    <2>2. QED
      BY <2>1
  <1>3. \A w \in W : w[1] < w[2] \/ w[1] >= w[2]
    BY <1>1
  <1>4. Halves(f0)
    <2>1. end - start \in Nat
      OBVIOUS
    <2>2. mu \in [W -> 0 .. end - start]
      <3>1. \A w \in W : (IF w[1] < w[2] THEN w[2] - w[1] ELSE 0) \in 0 .. end - start
        BY <1>1, <2>1
      <3>2. QED
        BY <3>1
    <2>3. c \in [W -> V] /\ step \in [W -> [V -> V]]
      BY <1>1
    <2>4. next \in [W -> W]
      <3>1. \A w \in W : (IF w[1] >= w[2] THEN w ELSE IF ~Readable(Middle(w)) THEN Up(w) ELSE Down(w)) \in W
        BY <1>2, <1>3
      <3>2. QED
        BY <3>1
    <2>5. ASSUME NEW w \in W \ Done PROVE mu[next[w]] < mu[w]
      <3>1. w \in W /\ w[1] < w[2] /\ ~(w[1] >= w[2]) /\ w[1] \in Int /\ w[2] \in Int
        BY <1>1, <1>3
      <3>2. mu[w] = w[2] - w[1] /\ mu[w] > 0
        BY <3>1
      <3>3. /\ Middle(w) \in Int /\ w[1] <= Middle(w) /\ Middle(w) < w[2] /\ Up(w) \in W /\ Down(w) \in W
        BY <1>2, <3>1
      <3>4. mu[Up(w)] < w[2] - w[1] /\ mu[Down(w)] < w[2] - w[1]
        <4>1. mu[Up(w)] = IF Middle(w) + 1 < w[2] THEN w[2] - (Middle(w) + 1) ELSE 0
          BY <3>3
        <4>2. mu[Down(w)] = IF w[1] < Middle(w) THEN Middle(w) - w[1] ELSE 0
          BY <3>3
        <4> HIDE DEF mu, Up, Down
        <4>3. QED
          BY <3>1, <3>3, <4>1, <4>2
      <3>5. next[w] = Up(w) \/ next[w] = Down(w)
        BY <3>1
      <3> HIDE DEF mu, next, Up, Down
      <3>6. QED
        BY <3>2, <3>4, <3>5
    <2>6. PICK g \in [W -> V] : Recurs(g, W, Done, c, step, next)
      <3> HIDE DEF W, V, Done, mu, c, step, next
      <3>1. QED
        BY <2>1, <2>2, <2>3, <2>4, <2>5, RecursionExists
    <2>7. ASSUME NEW w \in W
          PROVE  g[w] = IF w[1] >= w[2] THEN w[1]
                        ELSE IF ~Readable(Middle(w)) THEN g[Up(w)] ELSE g[Down(w)]
      <3>1. g[w] = IF w \in Done THEN c[w] ELSE step[w][g[next[w]]]
        BY <2>6 DEF Recurs
      <3>2. CASE w[1] >= w[2]
        BY <3>1, <3>2
      <3>3. CASE ~(w[1] >= w[2])
        <4>1. w \notin Done /\ next[w] \in W /\ g[next[w]] \in V
          BY <2>4, <2>6, <3>3
        <4>2. step[w][g[next[w]]] = g[next[w]]
          BY <4>1
        <4>3. next[w] = IF ~Readable(Middle(w)) THEN Up(w) ELSE Down(w)
          BY <3>3
        <4> HIDE DEF step, next, Done, c, W, V, Up, Down
        <4>4. QED
          BY <3>1, <3>3, <4>1, <4>2, <4>3
      <3>4. QED
        BY <3>2, <3>3
    <2>8. Halves(g)
      <3> HIDE DEF W, V, Up, Down
      <3>1. QED
        BY <2>6, <2>7
    <2> HIDE DEF Halves
    <2>9. QED
      BY <2>8
  <1>5. FirstReadable(start, end) = f0[<<start, end>>]
    BY DEF FirstReadable
  <1> HIDE DEF f0
  <1>6. \A w \in W : f0[w] = IF w[1] >= w[2] THEN w[1]
                              ELSE IF ~Readable(Middle(w)) THEN f0[Up(w)] ELSE f0[Down(w)]
    BY <1>4
  <1> DEFINE Good(w) == /\ f0[w] \in w[1] .. w[2]
                        /\ \A p \in w[1] .. w[2] : ReadableFrom(p, start, end) => f0[w] = p
             S == {d \in Nat : \A w \in W : w[1] <= w[2] /\ w[2] - w[1] <= d => Good(w)}
  <1>7. ASSUME NEW w \in W, w[1] = w[2] PROVE Good(w)
    <2>0. w[1] \in Int /\ w[1] >= w[2]
      BY <1>1, <1>7
    <2>1. f0[w] = w[1]
      BY <1>6, <2>0
    <2>2. QED
      BY <1>7, <2>0, <2>1
  <1>8. 0 \in S
    <2>1. \A w \in W : w[1] <= w[2] /\ w[2] - w[1] <= 0 => w[1] = w[2]
      BY <1>1
    <2> HIDE DEF Good
    <2>2. QED
      BY <1>7, <2>1
  <1>9. ASSUME NEW d \in Nat, d \in S PROVE d + 1 \in S
    <2> SUFFICES ASSUME NEW w \in W, w[1] <= w[2], w[2] - w[1] <= d + 1 PROVE Good(w)
      BY <1>9
    <2>0. w[1] \in Int /\ w[2] \in Int
      BY <1>1
    <2>1. CASE w[1] = w[2]
      BY <1>7, <2>1
    <2>2. CASE w[1] < w[2]
      <3>1. /\ Middle(w) \in V /\ Middle(w) \in Int /\ w[1] <= Middle(w) /\ Middle(w) < w[2]
            /\ Up(w) \in W /\ Down(w) \in W
        BY <1>2, <2>2
      <3>2. f0[w] = IF ~Readable(Middle(w)) THEN f0[Up(w)] ELSE f0[Down(w)]
        <4>1. ~(w[1] >= w[2])
          BY <2>0, <2>2
        <4>2. QED
          BY <1>6, <4>1
      <3>3. Middle(w) \in start .. end - 1
        <4>1. w[1] \in start .. end /\ w[2] \in start .. end
          BY <1>1
        <4>2. QED
          BY <3>1, <4>1
      <3>4. Up(w)[1] = Middle(w) + 1 /\ Up(w)[2] = w[2] /\ Down(w)[1] = w[1] /\ Down(w)[2] = Middle(w)
        OBVIOUS
      <3> HIDE DEF Up, Down
      <3>5. CASE ~Readable(Middle(w))
        <4>1. Good(Up(w))
          <5>1. Up(w)[1] <= Up(w)[2] /\ Up(w)[2] - Up(w)[1] <= d
            BY <2>0, <3>1, <3>4
          <5>2. QED
            BY <1>9, <3>1, <5>1
        <4>2. f0[w] = f0[Up(w)]
          BY <3>2, <3>5
        <4>3. f0[w] \in w[1] .. w[2]
          BY <2>0, <3>1, <3>4, <4>1, <4>2
        <4>4. ASSUME NEW p \in w[1] .. w[2], ReadableFrom(p, start, end) PROVE f0[w] = p
          <5>1. Middle(w) < p
            BY <3>3, <3>5, <4>4 DEF ReadableFrom
          <5>2. p \in Up(w)[1] .. Up(w)[2]
            BY <2>0, <3>1, <3>4, <5>1
          <5>3. QED
            BY <4>1, <4>2, <4>4, <5>2
        <4>5. QED
          BY <4>3, <4>4
      <3>6. CASE Readable(Middle(w))
        <4>1. Good(Down(w))
          <5>1. Down(w)[1] <= Down(w)[2] /\ Down(w)[2] - Down(w)[1] <= d
            BY <2>0, <3>1, <3>4
          <5>2. QED
            BY <1>9, <3>1, <5>1
        <4>2. f0[w] = f0[Down(w)]
          BY <3>2, <3>6
        <4>3. f0[w] \in w[1] .. w[2]
          BY <2>0, <3>1, <3>4, <4>1, <4>2
        <4>4. ASSUME NEW p \in w[1] .. w[2], ReadableFrom(p, start, end) PROVE f0[w] = p
          <5>1. ~(Middle(w) < p)
            BY <3>3, <3>6, <4>4 DEF ReadableFrom
          <5>2. p \in Down(w)[1] .. Down(w)[2]
            BY <2>0, <3>1, <3>4, <5>1
          <5>3. QED
            BY <4>1, <4>2, <4>4, <5>2
        <4>5. QED
          BY <4>3, <4>4
      <3>7. QED
        BY <3>5, <3>6
    <2>3. QED
      BY <2>0, <2>1, <2>2
  <1>10. Nat \subseteq S
    <2> HIDE DEF S
    <2>1. QED
      BY <1>8, <1>9, Induction
  <1>11. <<start, end>> \in W /\ end - start \in S
    BY <1>10 DEF Windows
  <1>12. Good(<<start, end>>)
    <2> HIDE DEF Good
    <2>1. QED
      BY <1>11
  <1>13. QED
    BY <1>5, <1>12

\* The bytes that read_memory returns are readable. They begin where the request does,
\* if that can be read, and with the readable area if that begins inside the request
\* and does not end there.
LEMMA ReadMemoryIs ==
    ASSUME LayoutOK, NEW start \in 0 .. EndAddr, NEW end \in start .. EndAddr
    PROVE  LET mem == ReadMemory(start, end)
               lo == layout.readable[1]
               hi == layout.readable[2]
           IN  /\ mem[1] \in start .. end /\ mem[2] \in mem[1] .. end
               /\ \A b \in mem[1] .. mem[2] - 1 : Readable(b)
               /\ start < end /\ Readable(start) => mem[1] = start /\ mem[2] = Least(end, hi)
               /\ start < lo /\ lo < end /\ end <= hi => mem[1] = lo /\ mem[2] = end
  <1> DEFINE mem == ReadMemory(start, end)
             lo == layout.readable[1]
             hi == layout.readable[2]
             first == FirstReadable(start, end)
  <1>1. /\ lo \in Nat /\ hi \in Nat /\ start \in Nat /\ end \in Nat /\ start <= end
        /\ \A a : Readable(a) <=> lo <= a /\ a < hi
    BY LayoutFacts DEF Readable, In
  <1>2. /\ first \in start .. end
        /\ \A p \in start .. end : ReadableFrom(p, start, end) => first = p
    BY <1>1, FirstReadableIs
  <1>3. /\ ProcessRead(start, end) = IF Readable(start) THEN <<start, Least(end, hi)>> ELSE <<>>
        /\ ProcessRead(first, end) = IF Readable(first) THEN <<first, Least(end, hi)>> ELSE <<>>
    BY DEF ProcessRead
  <1>4. mem = IF start < end /\ ProcessRead(start, end) # <<>> THEN ProcessRead(start, end)
              ELSE IF first < end /\ ProcessRead(first, end) # <<>> THEN ProcessRead(first, end)
              ELSE <<first, first>>
    BY DEF ReadMemory
  <1> HIDE DEF lo, hi, first, mem
  <1>5. Least(end, hi) \in Nat /\ Least(end, hi) <= end /\ Least(end, hi) <= hi
        /\ (end <= hi => Least(end, hi) = end) /\ \A a \in Nat : a < end /\ a < hi => a < Least(end, hi)
    BY <1>1 DEF Least
  <1> DEFINE l == Least(end, hi)
  <1> HIDE DEF l
  <1>6. CASE start < end /\ Readable(start)
    <2>1. mem = <<start, l>>
      BY <1>3, <1>4, <1>6 DEF l
    <2>2. mem[1] = start /\ mem[2] = l
      BY <2>1
    <2>3. start \in start .. end /\ l \in start .. end
      BY <1>1, <1>5, <1>6 DEF l
    <2>4. ASSUME NEW b \in start .. l - 1 PROVE Readable(b)
      BY <1>1, <1>5, <1>6 DEF l
    <2>5. ~(start < lo)
      BY <1>1, <1>6
    <2>6. QED
      BY <2>2, <2>3, <2>4, <2>5 DEF mem, lo, hi, l
  <1>7. CASE ~(start < end /\ Readable(start))
    <2>1. mem = IF first < end /\ Readable(first) THEN <<first, l>> ELSE <<first, first>>
      BY <1>3, <1>4, <1>7 DEF l
    <2>2. CASE first < end /\ Readable(first)
      <3>1. mem[1] = first /\ mem[2] = l
        BY <2>1, <2>2
      <3>2. first \in start .. end /\ l \in first .. end
        BY <1>1, <1>2, <1>5, <2>2 DEF l
      <3>3. ASSUME NEW b \in first .. l - 1 PROVE Readable(b)
        BY <1>1, <1>2, <1>5, <2>2 DEF l
      <3>4. ASSUME start < lo, lo < end, end <= hi PROVE first = lo /\ l = end
        <4>1. ReadableFrom(lo, start, end) /\ lo \in start .. end
          BY <1>1, <3>4 DEF ReadableFrom
        <4>2. QED
          BY <1>2, <1>5, <3>4, <4>1 DEF l
      <3>5. QED
        BY <1>7, <3>1, <3>2, <3>3, <3>4 DEF mem, lo, hi
    <2>3. CASE ~(first < end /\ Readable(first))
      <3>1. mem[1] = first /\ mem[2] = first
        BY <2>1, <2>3
      <3>2. first \in start .. end /\ first \in first .. end /\ \A b \in first .. first - 1 : Readable(b)
        BY <1>1, <1>2
      <3>3. ASSUME start < lo, lo < end, end <= hi PROVE FALSE
        <4>1. ReadableFrom(lo, start, end) /\ lo \in start .. end
          BY <1>1, <3>3 DEF ReadableFrom
        <4>2. first = lo
          BY <1>2, <4>1
        <4>3. QED
          BY <1>1, <2>3, <3>3, <4>2
      <3>4. QED
        BY <1>7, <3>1, <3>2, <3>3 DEF mem, lo, hi
    <2>4. QED
      BY <2>2, <2>3
  <1>8. QED
    BY <1>6, <1>7

-----------------------------------------------------------------------------
(* disassemble_bytes.                                                        *)

Item(addr, end) == [addr |-> addr, ok |-> Decodes(addr, end)]
Items == [addr : Nat, ok : BOOLEAN]
After(addr, end) == addr + (IF Decodes(addr, end) THEN layout.size[addr] ELSE 1)

LEMMA AfterIs ==
    ASSUME LayoutOK, NEW end \in 0 .. EndAddr, NEW a \in Nat, a < end
    PROVE  /\ a \in Addrs /\ After(a, end) \in Nat /\ a < After(a, end) /\ After(a, end) <= a + MaxBytes
           /\ Item(a, end) \in Items /\ Item(a, end).addr = a /\ Item(a, end).ok = Decodes(a, end)
  <1>1. a \in Addrs /\ end \in Nat /\ EndAddr \in Nat /\ MaxBytes \in Nat /\ MaxBytes > 0
    BY LayoutFacts DEF Addrs
  <1>2. layout.size[a] \in 0 .. MaxBytes
    BY <1>1, LayoutFacts
  <1>3. After(a, end) \in Nat /\ a < After(a, end) /\ After(a, end) <= a + MaxBytes
    BY <1>1, <1>2 DEF After, Decodes
  <1>4. Decodes(a, end) \in BOOLEAN
    BY DEF Decodes
  <1>5. QED
    BY <1>1, <1>3, <1>4 DEF Item, Items

\* The instructions of a list follow on each other from a to the end.
Tiles(L, a, end) ==
    /\ L \in Seq(Items)
    /\ IF a >= end THEN L = <<>>
       ELSE L # <<>> /\ L[1].addr = a /\ After(L[Len(L)].addr, end) >= end
    /\ \A i \in 1 .. Len(L) : L[i].addr \in a .. end - 1 /\ L[i].ok = Decodes(L[i].addr, end)
    /\ \A i \in 1 .. Len(L) - 1 : L[i + 1].addr = After(L[i].addr, end)

\* What precedes a sequence.
LEMMA Prepended ==
    ASSUME NEW S, NEW x \in S, NEW s \in Seq(S)
    PROVE  LET t == <<x>> \o s
           IN  /\ t \in Seq(S) /\ Len(t) = Len(s) + 1 /\ t[1] = x
               /\ \A i \in 1 .. Len(s) : t[i + 1] = s[i]
  <1> DEFINE t == <<x>> \o s
  <1>1. <<x>> \in Seq(S) /\ Len(<<x>>) = 1 /\ Len(s) \in Nat
    OBVIOUS
  <1>2. t \in Seq(S) /\ Len(t) = Len(s) + 1
    BY <1>1
  <1>3. t[1] = x
    BY <1>1
  <1>4. \A i \in 1 .. Len(s) : t[i + 1] = s[i]
    BY <1>1
  <1>5. QED
    BY <1>2, <1>3, <1>4

LEMMA TilesGoOn ==
    ASSUME LayoutOK, NEW end \in 0 .. EndAddr, NEW a \in Nat, a < end,
           NEW M, Tiles(M, After(a, end), end)
    PROVE  Tiles(<<Item(a, end)>> \o M, a, end)
  <1> DEFINE x == Item(a, end)
             b == After(a, end)
             L == <<x>> \o M
             n == Len(M)
  <1>1. a \in Addrs /\ b \in Nat /\ a < b /\ x \in Items /\ x.addr = a /\ x.ok = Decodes(a, end)
    BY AfterIs
  <1>2. M \in Seq(Items) /\ n \in Nat
    BY DEF Tiles
  <1>3. L \in Seq(Items) /\ Len(L) = n + 1 /\ L[1] = x /\ \A i \in 1 .. n : L[i + 1] = M[i]
    <2> HIDE DEF x
    <2>1. QED
      BY <1>1, <1>2, Prepended
  <1>4. /\ IF b >= end THEN M = <<>> ELSE M # <<>> /\ M[1].addr = b /\ After(M[n].addr, end) >= end
        /\ \A i \in 1 .. n : M[i].addr \in b .. end - 1 /\ M[i].ok = Decodes(M[i].addr, end)
        /\ \A i \in 1 .. n - 1 : M[i + 1].addr = After(M[i].addr, end)
    BY DEF Tiles
  <1>5. end \in Nat
    OBVIOUS
  <1> HIDE DEF x, b, L, n
  <1>6. ASSUME NEW i \in 1 .. n + 1 PROVE L[i].addr \in a .. end - 1 /\ L[i].ok = Decodes(L[i].addr, end)
    <2>1. CASE i = 1
      BY <1>1, <1>3, <1>5, <2>1
    <2>2. CASE i # 1
      <3>1. i - 1 \in 1 .. n /\ i - 1 + 1 = i
        BY <1>2, <2>2
      <3>2. L[i] = M[i - 1]
        BY <1>3, <3>1
      <3>3. M[i - 1].addr \in b .. end - 1 /\ M[i - 1].ok = Decodes(M[i - 1].addr, end)
        BY <1>4, <3>1
      <3>4. QED
        BY <1>1, <1>5, <3>2, <3>3
    <2>3. QED
      BY <2>1, <2>2
  <1>7. ASSUME NEW i \in 1 .. n PROVE L[i + 1].addr = After(L[i].addr, end)
    <2>1. CASE i = 1
      <3>1. n # 0 /\ M # <<>>
        BY <1>2, <2>1 DEF n
      <3>2. M[1].addr = b
        BY <1>4, <3>1
      <3>3. L[i + 1] = M[1] /\ L[i] = x
        BY <1>3, <2>1
      <3>4. QED
        BY <1>1, <3>2, <3>3 DEF b
    <2>2. CASE i # 1
      <3>1. i - 1 \in 1 .. n /\ i - 1 \in 1 .. n - 1 /\ i - 1 + 1 = i
        BY <1>2, <2>2
      <3>2. L[i] = M[i - 1] /\ L[i + 1] = M[i]
        BY <1>3, <3>1
      <3>3. M[i].addr = After(M[i - 1].addr, end)
        BY <1>4, <3>1
      <3>4. QED
        BY <3>2, <3>3
    <2>3. QED
      BY <2>1, <2>2
  <1>8. After(L[n + 1].addr, end) >= end
    <2>1. CASE b >= end
      <3>1. n = 0
        BY <1>4, <2>1 DEF n
      <3>2. QED
        BY <1>1, <1>3, <2>1, <3>1 DEF b
    <2>2. CASE ~(b >= end)
      <3>1. M # <<>> /\ After(M[n].addr, end) >= end
        BY <1>4, <2>2
      <3>2. n \in 1 .. n
        BY <1>2, <3>1 DEF n
      <3>3. QED
        BY <1>3, <3>1, <3>2
    <2>3. QED
      BY <2>1, <2>2
  <1>9. L # <<>> /\ ~(a >= end) /\ L[1].addr = a
    BY <1>1, <1>2, <1>3, <1>5
  <1>10. Len(L) = n + 1 /\ Len(L) - 1 = n
    BY <1>2, <1>3
  <1>11. Tiles(L, a, end)
    <2>1. \A i \in 1 .. Len(L) : L[i].addr \in a .. end - 1 /\ L[i].ok = Decodes(L[i].addr, end)
      BY <1>6, <1>10
    <2>2. \A i \in 1 .. Len(L) - 1 : L[i + 1].addr = After(L[i].addr, end)
      BY <1>7, <1>10
    <2>3. After(L[Len(L)].addr, end) >= end
      BY <1>8, <1>10
    <2>4. QED
      BY <1>3, <1>9, <2>1, <2>2, <2>3 DEF Tiles
  <1>12. QED
    BY <1>11 DEF L, x

\* The recursion that disassemble_bytes is a loop of, and what it yields.
Chains(f, start, end) ==
    \A a \in start .. end + MaxBytes :
        f[a] = IF a >= end THEN <<>> ELSE <<Item(a, end)>> \o f[After(a, end)]

LEMMA ChainIs ==
    ASSUME LayoutOK, NEW end \in 0 .. EndAddr, NEW start \in 0 .. end
    PROVE  \E f : /\ DisassembleBytes(start, end) = f[start] /\ Chains(f, start, end)
                  /\ \A a \in start .. end : Tiles(f[a], a, end)
  <1> DEFINE top == end + MaxBytes
             D == start .. top
             V == Seq(Items)
             Done == {a \in D : a >= end}
             mu == [a \in D |-> top - a]
             c == [a \in D |-> <<>>]
             step == [a \in D |-> [v \in V |-> IF a >= end THEN v ELSE <<Item(a, end)>> \o v]]
             next == [a \in D |-> IF a >= end THEN a ELSE After(a, end)]
             Follows(f) == f = [a \in D |-> IF a >= end THEN <<>>
                                            ELSE <<Item(a, end)>> \o f[After(a, end)]]
             f0 == CHOOSE f : Follows(f)
  <1>1. start \in Nat /\ end \in Nat /\ MaxBytes \in Nat /\ MaxBytes > 0 /\ top \in Nat /\ top >= end
    BY LayoutFacts
  <1>2. \A a \in D : a \in Nat
    BY <1>1
  <1>3. ASSUME NEW a \in D, ~(a >= end)
        PROVE  a \in Nat /\ a < end /\ Item(a, end) \in Items /\ After(a, end) \in D /\ a < After(a, end)
    <2>1. a \in Nat /\ a < end
      BY <1>1, <1>3
    <2>2. After(a, end) \in Nat /\ a < After(a, end) /\ After(a, end) <= a + MaxBytes /\ Item(a, end) \in Items
      BY <2>1, AfterIs
    <2>3. After(a, end) \in D
      BY <1>1, <2>1, <2>2
    <2>4. QED
      BY <2>1, <2>2, <2>3
  <1>4. Follows(f0)
    <2>1. mu \in [D -> 0 .. top - start] /\ top - start \in Nat
      BY <1>1
    <2>2. c \in [D -> V]
      OBVIOUS
    <2>3. step \in [D -> [V -> V]]
      <3>1. ASSUME NEW a \in D, NEW v \in V PROVE (IF a >= end THEN v ELSE <<Item(a, end)>> \o v) \in V
        <4>1. CASE a >= end
          BY <4>1
        <4>2. CASE ~(a >= end)
          <5>1. Item(a, end) \in Items
            BY <1>3, <4>2
          <5>2. <<Item(a, end)>> \o v \in V
            BY <5>1, Prepended
          <5>3. QED
            BY <4>2, <5>2
        <4>3. QED
          BY <4>1, <4>2
      <3> HIDE DEF D, V
      <3>2. QED
        BY <3>1
    <2>4. next \in [D -> D]
      <3>1. \A a \in D : (IF a >= end THEN a ELSE After(a, end)) \in D
        BY <1>3
      <3> HIDE DEF D
      <3>2. QED
        BY <3>1
    <2>5. ASSUME NEW a \in D \ Done PROVE mu[next[a]] < mu[a]
      <3>1. a \in D /\ ~(a >= end)
        OBVIOUS
      <3>2. next[a] = After(a, end) /\ After(a, end) \in D /\ a < After(a, end)
        BY <1>3, <3>1
      <3>3. mu[After(a, end)] = top - After(a, end) /\ mu[a] = top - a
        BY <3>1, <3>2
      <3> HIDE DEF mu, next
      <3>4. After(a, end) \in Nat /\ a \in Nat
        BY <1>2, <3>1, <3>2
      <3>5. QED
        BY <1>1, <3>2, <3>3, <3>4
    <2>6. PICK g \in [D -> V] : Recurs(g, D, Done, c, step, next)
      <3> HIDE DEF D, V, Done, mu, c, step, next
      <3>1. QED
        BY <2>1, <2>2, <2>3, <2>4, <2>5, RecursionExists
    <2>7. ASSUME NEW a \in D
          PROVE  g[a] = IF a >= end THEN <<>> ELSE <<Item(a, end)>> \o g[After(a, end)]
      <3>1. g[a] = IF a \in Done THEN c[a] ELSE step[a][g[next[a]]]
        BY <2>6 DEF Recurs
      <3>2. CASE a >= end
        BY <3>1, <3>2
      <3>3. CASE ~(a >= end)
        <4>1. next[a] = After(a, end) /\ After(a, end) \in D /\ a \notin Done
          BY <1>3, <3>3
        <4>2. g[After(a, end)] \in V
          BY <2>6, <4>1
        <4>3. step[a][g[After(a, end)]] = <<Item(a, end)>> \o g[After(a, end)]
          <5> HIDE DEF V, D
          <5>1. QED
            BY <3>3, <4>2
        <4> HIDE DEF step, next, Done, c, D, V
        <4>4. QED
          BY <3>1, <3>3, <4>1, <4>3
      <3>4. QED
        BY <3>2, <3>3
    <2>8. Follows(g)
      <3> HIDE DEF D, V
      <3>1. QED
        BY <2>6, <2>7
    <2> HIDE DEF Follows
    <2>9. QED
      BY <2>8
  <1>5. DisassembleBytes(start, end) = f0[start]
    BY DEF DisassembleBytes, Item, After
  <1> HIDE DEF f0
  <1>6. \A a \in D : f0[a] = IF a >= end THEN <<>> ELSE <<Item(a, end)>> \o f0[After(a, end)]
    <2> HIDE DEF D
    <2>1. QED
      BY <1>4
  <1> DEFINE S == {d \in Nat : \A a \in D : top - a <= d => Tiles(f0[a], a, end)}
  <1>7. ASSUME NEW a \in D, a >= end PROVE Tiles(f0[a], a, end)
    <2>1. f0[a] = <<>>
      BY <1>6, <1>7
    <2>2. QED
      BY <1>7, <2>1 DEF Tiles
  <1>8. 0 \in S
    <2>1. \A a \in D : top - a <= 0 => a >= end
      BY <1>1
    <2>2. QED
      BY <1>7, <2>1
  <1>9. ASSUME NEW d \in Nat, d \in S PROVE d + 1 \in S
    <2> SUFFICES ASSUME NEW a \in D, top - a <= d + 1 PROVE Tiles(f0[a], a, end)
      BY <1>9
    <2>1. CASE ~(a >= end)
      <3>1. a \in Nat /\ a < end /\ After(a, end) \in D /\ a < After(a, end)
        BY <1>3, <2>1
      <3>2. top - After(a, end) <= d
        <4>1. After(a, end) \in Nat
          BY <1>2, <3>1
        <4>2. QED
          BY <1>1, <3>1, <4>1
      <3>3. Tiles(f0[After(a, end)], After(a, end), end)
        BY <1>9, <3>1, <3>2
      <3>4. f0[a] = <<Item(a, end)>> \o f0[After(a, end)]
        BY <1>6, <2>1
      <3>5. QED
        BY <3>1, <3>3, <3>4, TilesGoOn
    <2>2. QED
      BY <1>7, <2>1
  <1>10. Nat \subseteq S
    <2> HIDE DEF S
    <2>1. QED
      BY <1>8, <1>9, Induction
  <1>11. \A a \in start .. end : Tiles(f0[a], a, end)
    <2> TAKE a \in start .. end
    <2>1. a \in D /\ top - a \in Nat
      BY <1>1
    <2>2. top - a \in S
      BY <1>10, <2>1
    <2>3. QED
      BY <1>1, <2>1, <2>2
  <1>12. Chains(f0, start, end)
    BY <1>6 DEF Chains
  <1>13. QED
    BY <1>5, <1>11, <1>12

-----------------------------------------------------------------------------
(* The window around the base.                                               *)

\* No instruction is longer than MaxBytes: so many there are at least from the base on.
LEMMA EnoughInstructions ==
    ASSUME LayoutOK, NEW end \in 0 .. EndAddr, NEW a \in Nat, NEW L, Tiles(L, a, end),
           NEW b \in 1 .. Len(L)
    PROVE  end <= L[b].addr + (Len(L) - b + 1) * MaxBytes
  <1> DEFINE n == Len(L)
             base == L[b].addr
             S == {j \in Nat : b + j <= n => L[b + j].addr <= base + j * MaxBytes}
  <1>1. /\ L \in Seq(Items) /\ n \in Nat /\ b \in Nat /\ end \in Nat
        /\ MaxBytes \in Nat /\ MaxBytes > 0
    BY LayoutFacts DEF Tiles
  <1>2. \A i \in 1 .. n : L[i].addr \in Nat /\ L[i].addr < end
    <2>1. \A i \in 1 .. n : L[i].addr \in a .. end - 1
      BY DEF Tiles
    <2>2. QED
      BY <1>1, <2>1
  <1>3. \A i \in 1 .. n : After(L[i].addr, end) \in Nat /\ After(L[i].addr, end) <= L[i].addr + MaxBytes
    BY <1>2, AfterIs
  <1>4. \A i \in 1 .. n - 1 : L[i + 1].addr = After(L[i].addr, end)
    BY DEF Tiles
  <1>5. After(L[n].addr, end) >= end
    <2>1. L # <<>> /\ n # 0
      BY <1>1
    <2>2. QED
      BY <2>1 DEF Tiles
  <1> HIDE DEF n
  <1>6. base \in Nat
    BY <1>2 DEF n
  <1> HIDE DEF base
  <1>7. 0 \in S
    <2>1. b + 0 = b /\ base + 0 * MaxBytes = base
      BY <1>1, <1>6
    <2>2. QED
      BY <1>6, <2>1 DEF base
  <1>8. ASSUME NEW j \in Nat, j \in S PROVE j + 1 \in S
    <2> SUFFICES ASSUME b + (j + 1) <= n PROVE L[b + (j + 1)].addr <= base + (j + 1) * MaxBytes
      OBVIOUS
    <2>1. b + j \in 1 .. n /\ b + j \in 1 .. n - 1 /\ b + (j + 1) = b + j + 1 /\ b + j <= n
      BY <1>1
    <2>2. L[b + j].addr <= base + j * MaxBytes
      BY <1>8, <2>1
    <2>3. L[b + (j + 1)].addr = After(L[b + j].addr, end)
      BY <1>4, <2>1
    <2>4. After(L[b + j].addr, end) \in Nat /\ After(L[b + j].addr, end) <= L[b + j].addr + MaxBytes
          /\ L[b + j].addr \in Nat
      BY <1>2, <1>3, <2>1
    <2>5. (j + 1) * MaxBytes = j * MaxBytes + MaxBytes /\ j * MaxBytes \in Nat
      BY <1>1
    <2>6. QED
      BY <1>1, <1>6, <2>2, <2>3, <2>4, <2>5
  <1>9. Nat \subseteq S
    <2> HIDE DEF S
    <2>1. QED
      BY <1>7, <1>8, Induction
  <1>10. n - b \in Nat /\ b + (n - b) = n /\ n \in 1 .. n
    BY <1>1 DEF n
  <1>11. L[n].addr <= base + (n - b) * MaxBytes
    BY <1>9, <1>10
  <1>12. After(L[n].addr, end) \in Nat /\ After(L[n].addr, end) <= L[n].addr + MaxBytes /\ L[n].addr \in Nat
    BY <1>2, <1>3, <1>10
  <1>13. (n - b + 1) * MaxBytes = (n - b) * MaxBytes + MaxBytes /\ (n - b) * MaxBytes \in Nat
    BY <1>1, <1>10
  <1>14. end <= base + (n - b + 1) * MaxBytes
    BY <1>1, <1>5, <1>6, <1>11, <1>12, <1>13
  <1>15. QED
    BY <1>14 DEF n, base

\* The recursion behind Leads.
Goes(a) == a + Greatest(layout.size[a], 1)

LEMMA GoesIs ==
    ASSUME LayoutOK, NEW a \in Addrs
    PROVE  /\ Goes(a) \in Nat /\ a < Goes(a) /\ Goes(a) <= a + MaxBytes
           /\ \A end \in 0 .. EndAddr : Goes(a) <= end => After(a, end) = Goes(a)
  <1>1. layout.size[a] \in 0 .. MaxBytes /\ a \in Nat /\ MaxBytes \in Nat /\ MaxBytes > 0 /\ EndAddr \in Nat
    BY LayoutFacts DEF Addrs
  <1>2. QED
    BY <1>1 DEF Goes, Greatest, After, Decodes

LEMMA LeadsIs ==
    ASSUME LayoutOK, NEW base \in Addrs, NEW start \in 0 .. base
    PROVE  \E f : /\ Leads(start, base) = f[start]
                  /\ \A a \in start .. base : f[a] = (a = base \/ (a < base /\ f[Goes(a)]))
                  /\ \A a \in start .. EndAddr + MaxBytes : base < a => ~f[a]
  <1> DEFINE top == EndAddr + MaxBytes
             D == start .. top
             Done == {a \in D : a >= base}
             mu == [a \in D |-> top - a]
             c == [a \in D |-> a = base]
             step == [a \in D |-> [v \in BOOLEAN |-> v]]
             next == [a \in D |-> IF a >= base THEN a ELSE Goes(a)]
             Follows(f) == f = [a \in D |-> a = base \/ (a < base /\ f[Goes(a)])]
             f0 == CHOOSE f : Follows(f)
  <1>1. start \in Nat /\ base \in Nat /\ base < EndAddr /\ top \in Nat /\ MaxBytes \in Nat /\ EndAddr \in Nat
    BY LayoutFacts DEF Addrs
  <1>2. ASSUME NEW a \in D, ~(a >= base)
        PROVE  a \in Nat /\ a < base /\ Goes(a) \in D /\ Goes(a) \in Nat /\ a < Goes(a)
    <2>1. a \in Nat /\ a < base /\ a \in Addrs
      BY <1>1, <1>2 DEF Addrs
    <2>2. Goes(a) \in Nat /\ a < Goes(a) /\ Goes(a) <= a + MaxBytes
      BY <2>1, GoesIs
    <2>3. Goes(a) \in D
      BY <1>1, <2>1, <2>2
    <2>4. QED
      BY <2>1, <2>2, <2>3
  <1>3. Follows(f0)
    <2>1. mu \in [D -> 0 .. top - start] /\ top - start \in Nat
      BY <1>1
    <2>2. c \in [D -> BOOLEAN] /\ step \in [D -> [BOOLEAN -> BOOLEAN]]
      OBVIOUS
    <2>3. next \in [D -> D]
      <3>1. \A a \in D : (IF a >= base THEN a ELSE Goes(a)) \in D
        BY <1>2
      <3> HIDE DEF D
      <3>2. QED
        BY <3>1
    <2>4. ASSUME NEW a \in D \ Done PROVE mu[next[a]] < mu[a]
      <3>1. a \in D /\ ~(a >= base)
        OBVIOUS
      <3>2. next[a] = Goes(a) /\ Goes(a) \in D /\ a < Goes(a) /\ Goes(a) \in Nat /\ a \in Nat
        BY <1>2, <3>1
      <3>3. mu[Goes(a)] = top - Goes(a) /\ mu[a] = top - a
        BY <3>1, <3>2
      <3> HIDE DEF mu, next
      <3>4. QED
        BY <1>1, <3>2, <3>3
    <2>5. PICK g \in [D -> BOOLEAN] : Recurs(g, D, Done, c, step, next)
      <3> HIDE DEF D, Done, mu, c, step, next
      <3>1. QED
        BY <2>1, <2>2, <2>3, <2>4, RecursionExists
    <2>6. ASSUME NEW a \in D PROVE g[a] = (a = base \/ (a < base /\ g[Goes(a)]))
      <3>0. g[a] = (IF a \in Done THEN c[a] ELSE step[a][g[next[a]]]) /\ a \in Nat
        BY <1>1, <2>5 DEF Recurs
      <3>1. CASE a >= base
        <4>1. a \in Done /\ c[a] = (a = base) /\ ~(a < base)
          BY <1>1, <3>0, <3>1
        <4> HIDE DEF c, Done
        <4>2. QED
          BY <3>0, <4>1
      <3>2. CASE ~(a >= base)
        <4>1. next[a] = Goes(a) /\ Goes(a) \in D /\ a \notin Done /\ a < base /\ a # base
          BY <1>1, <1>2, <3>2
        <4>2. g[Goes(a)] \in BOOLEAN
          BY <2>5, <4>1
        <4>3. step[a][g[Goes(a)]] = g[Goes(a)]
          BY <4>2
        <4> HIDE DEF step, next, Done, c, D
        <4>4. QED
          BY <3>0, <4>1, <4>2, <4>3
      <3>3. QED
        BY <3>1, <3>2
    <2>7. Follows(g)
      <3> HIDE DEF D
      <3>1. QED
        BY <2>5, <2>6
    <2> HIDE DEF Follows
    <2>8. QED
      BY <2>7
  <1>4. Leads(start, base) = f0[start]
    BY DEF Leads, Goes
  <1> HIDE DEF f0
  <1>5. \A a \in D : f0[a] = (a = base \/ (a < base /\ f0[Goes(a)]))
    <2> HIDE DEF D
    <2>1. QED
      BY <1>3
  <1>6. \A a \in start .. base : a \in D
    BY <1>1
  <1>7. \A a \in D : base < a => ~f0[a]
    <2> TAKE a \in D
    <2>1. a \in Nat
      BY <1>1
    <2>2. f0[a] = (a = base \/ (a < base /\ f0[Goes(a)]))
      BY <1>5
    <2>3. base < a => a # base /\ ~(a < base)
      BY <1>1, <2>1
    <2>4. QED
      BY <2>2, <2>3
  <1>8. QED
    BY <1>4, <1>5, <1>6, <1>7

\* Where decoding leads to the base, the base is among the instructions.
LEMMA LeadsTo ==
    ASSUME LayoutOK, NEW base \in Addrs, NEW end \in 0 .. EndAddr, base < end,
           NEW start \in 0 .. base, Leads(start, base)
    PROVE  \E i \in DOMAIN DisassembleBytes(start, end) : DisassembleBytes(start, end)[i].addr = base
  <1>1. base \in Nat /\ end \in Nat /\ start \in Nat /\ start \in 0 .. end /\ EndAddr \in Nat /\ MaxBytes \in Nat
    BY LayoutFacts DEF Addrs
  <1>2. PICK f : /\ DisassembleBytes(start, end) = f[start] /\ Chains(f, start, end)
                 /\ \A a \in start .. end : Tiles(f[a], a, end)
    BY <1>1, ChainIs
  <1>3. PICK r : /\ Leads(start, base) = r[start]
                 /\ \A a \in start .. base : r[a] = (a = base \/ (a < base /\ r[Goes(a)]))
                 /\ \A a \in start .. EndAddr + MaxBytes : base < a => ~r[a]
    BY LeadsIs
  <1> DEFINE Found(a) == \E i \in 1 .. Len(f[a]) : f[a][i].addr = base
             S == {d \in Nat : \A a \in start .. base : base - a <= d /\ r[a] => Found(a)}
  <1>4. Found(base)
    <2>1. base \in start .. end /\ ~(base >= end)
      BY <1>1
    <2>2. f[base] \in Seq(Items) /\ f[base] # <<>> /\ f[base][1].addr = base
      BY <1>2, <2>1 DEF Tiles
    <2>3. 1 \in 1 .. Len(f[base])
      BY <2>2
    <2>4. QED
      BY <2>2, <2>3
  <1> HIDE DEF Found
  <1>5. 0 \in S
    <2>1. \A a \in start .. base : base - a <= 0 => a = base
      BY <1>1
    <2>2. QED
      BY <1>4, <2>1
  <1>6. ASSUME NEW d \in Nat, d \in S PROVE d + 1 \in S
    <2> SUFFICES ASSUME NEW a \in start .. base, base - a <= d + 1, r[a] PROVE Found(a)
      BY <1>6
    <2>1. CASE a = base
      BY <1>4, <2>1
    <2>2. CASE a # base
      <3>1. a \in Addrs /\ a \in Nat /\ a < base /\ a < end /\ start <= a
        BY <1>1, <2>2 DEF Addrs
      <3>2. /\ Goes(a) \in Nat /\ a < Goes(a) /\ Goes(a) <= a + MaxBytes
            /\ Goes(a) <= end => After(a, end) = Goes(a)
        BY <3>1, GoesIs
      <3>3. r[Goes(a)]
        <4>1. r[a] = (a = base \/ (a < base /\ r[Goes(a)]))
          BY <1>3
        <4>2. QED
          BY <2>2, <4>1
      <3>4. Goes(a) <= base
        <4>1. Goes(a) \in start .. EndAddr + MaxBytes
          BY <1>1, <3>1, <3>2
        <4>2. ~(base < Goes(a))
          BY <1>3, <3>3, <4>1
        <4>3. QED
          BY <1>1, <3>2, <4>2
      <3>5. Goes(a) \in start .. base /\ base - Goes(a) <= d /\ After(a, end) = Goes(a) /\ Goes(a) \in start .. end
        BY <1>1, <3>1, <3>2, <3>4
      <3>6. Found(Goes(a))
        BY <1>6, <3>3, <3>5
      <3>7. PICK i \in 1 .. Len(f[Goes(a)]) : f[Goes(a)][i].addr = base
        BY <3>6 DEF Found
      <3>8. f[a] = <<Item(a, end)>> \o f[Goes(a)]
        <4>1. a \in start .. end + MaxBytes /\ ~(a >= end)
          BY <1>1, <3>1
        <4>2. QED
          BY <1>2, <3>5, <4>1 DEF Chains
      <3>9. Item(a, end) \in Items /\ f[Goes(a)] \in Seq(Items)
        BY <1>2, <3>1, <3>5, AfterIs DEF Tiles
      <3>10. Len(f[a]) = Len(f[Goes(a)]) + 1 /\ \A k \in 1 .. Len(f[Goes(a)]) : f[a][k + 1] = f[Goes(a)][k]
        BY <3>8, <3>9, Prepended
      <3>11. i + 1 \in 1 .. Len(f[a]) /\ f[a][i + 1].addr = base
        <4>1. Len(f[Goes(a)]) \in Nat
          BY <3>9
        <4>2. QED
          BY <3>7, <3>10, <4>1
      <3>12. QED
        BY <3>11 DEF Found
    <2>3. QED
      BY <2>1, <2>2
  <1>7. Nat \subseteq S
    <2> HIDE DEF S
    <2>1. QED
      BY <1>5, <1>6, Induction
  <1>8. start \in start .. base /\ base - start \in S /\ base - start <= base - start
    BY <1>1, <1>7
  <1>9. Found(start)
    BY <1>3, <1>8
  <1>10. f[start] \in Seq(Items) /\ DOMAIN f[start] = 1 .. Len(f[start])
    <2>1. start \in start .. end
      BY <1>1
    <2>2. QED
      BY <1>2, <2>1 DEF Tiles
  <1>11. QED
    BY <1>2, <1>9, <1>10 DEF Found

LEMMA RequestedIs ==
    ASSUME LayoutOK, NEW base \in Addrs, NEW offset \in Int, NEW count \in Nat
    PROVE  LET req == Requested(base, offset, count)
               last == base + (count + offset) * MaxBytes
           IN  /\ req[1] \in 0 .. base /\ req[2] \in base .. EndAddr /\ last \in Int
               /\ count + offset > 0 => base < req[2] /\ req[2] <= last
               /\ count + offset > 0 /\ last <= EndAddr => req[2] = last
  <1> DEFINE req == Requested(base, offset, count)
             before == (-Least(offset, 0)) * MaxBytes
             more == Greatest(count + offset, 0)
             behind == more * MaxBytes
             last == base + (count + offset) * MaxBytes
  <1>1. base \in Nat /\ base < EndAddr /\ EndAddr \in Nat /\ MaxBytes \in Nat /\ MaxBytes > 0
    BY LayoutFacts DEF Addrs
  <1>2. -Least(offset, 0) \in Nat /\ more \in Nat /\ (count + offset > 0 => more = count + offset)
    BY DEF Least, Greatest
  <1>3. before \in Nat /\ behind \in Nat
    <2> HIDE DEF more
    <2>1. \A x \in Nat : x * MaxBytes \in Nat
      BY <1>1
    <2>2. QED
      BY <1>2, <2>1
  <1>4. (count + offset) * MaxBytes \in Int
    BY <1>1
  <1>5. ASSUME count + offset > 0 PROVE behind > 0 /\ last = base + behind
    <2>1. more = count + offset /\ more \in Nat /\ more > 0
      BY <1>2, <1>5
    <2> HIDE DEF more
    <2>2. more * MaxBytes > 0
      BY <1>1, <2>1
    <2>3. QED
      BY <2>1, <2>2
  <1>6. req[1] = Greatest(base - before, 0) /\ req[2] = Least(base + behind, EndAddr)
    BY DEF Requested
  <1> HIDE DEF before, behind, more, req
  <1>7. req[1] \in 0 .. base /\ req[2] \in base .. EndAddr
    BY <1>1, <1>3, <1>6 DEF Greatest, Least
  <1>8. last \in Int
    BY <1>1, <1>4
  <1> HIDE DEF last
  <1>9. count + offset > 0 => base < req[2] /\ req[2] <= last
    BY <1>1, <1>3, <1>5, <1>6, <1>8 DEF Least
  <1>10. count + offset > 0 /\ last <= EndAddr => req[2] = last
    BY <1>1, <1>3, <1>5, <1>6, <1>8 DEF Least
  <1>11. QED
    BY <1>7, <1>8, <1>9, <1>10 DEF req, last

\* The order of a window: addresses increase, and padding wraps at the end of the
\* address space.
Follows(x, y) == x.addr < y.addr \/ (~x.ok /\ x.addr = EndAddr /\ y.addr = 0)

\* The remainder is determined by its equation, and counting on wraps.
LEMMA RemainderIs ==
    ASSUME NEW n \in Nat, n > 0, NEW q \in Int, NEW m \in Nat, m < n
    PROVE  (q * n + m) % n = m
  OBVIOUS

LEMMA CountingWraps ==
    ASSUME NEW n \in Nat, n > 0, NEW x \in Int
    PROVE  /\ x % n \in 0 .. n - 1
           /\ x % n < (x + 1) % n \/ (x % n = n - 1 /\ (x + 1) % n = 0)
           /\ x \in 0 .. n - 1 => x % n = x
  <1> DEFINE q == x \div n
             m == x % n
  <1>1. q \in Int /\ m \in Nat /\ m < n /\ x = q * n + m
    OBVIOUS
  <1> HIDE DEF q, m
  <1>2. CASE m + 1 < n
    <2>1. x + 1 = q * n + (m + 1) /\ m + 1 \in Nat
      BY <1>1
    <2>2. (x + 1) % n = m + 1
      BY <1>1, <1>2, <2>1, RemainderIs
    <2>3. QED
      BY <1>1, <2>2 DEF m
  <1>3. CASE m + 1 = n
    <2>1. x + 1 = (q + 1) * n + 0 /\ q + 1 \in Int
      BY <1>1, <1>3
    <2>2. (x + 1) % n = 0
      BY <1>1, <2>1, RemainderIs
    <2>3. QED
      BY <1>1, <1>3, <2>2 DEF m
  <1>4. QED
    BY <1>1, <1>2, <1>3

\* What WindowIsExact says of the list of an answer.
ExactList(list, base, offset, count) ==
    /\ Len(list) = count
    /\ \A i \in 1 .. Len(list) - 1 : Follows(list[i], list[i + 1])
    /\ 1 - offset \in DOMAIN list => list[1 - offset].addr = base
    /\ \A i \in DOMAIN list : list[i].ok =>
          \A k \in 0 .. layout.size[list[i].addr] - 1 : Readable(list[i].addr + k)

LEMMA WindowFits ==
    ASSUME LayoutOK, NEW end \in 0 .. EndAddr, NEW start \in Nat, NEW L, Tiles(L, start, end),
           start < end, \A k \in start .. end - 1 : Readable(k),
           NEW b \in 1 .. Len(L), NEW offset \in Int, NEW count \in Nat,
           b - 1 + offset + count <= Len(L)
    PROVE  ExactList(Window(L, b, <<start, end>>, offset, count), L[b].addr, offset, count)
  <1> DEFINE n == Len(L)
             At(i) == b + offset + i - 1
             list == [i \in 1 .. count |->
                         IF At(i) < 1 THEN Invalid(start + At(i) - 1) ELSE L[At(i)]]
  <1>1. L \in Seq(Items) /\ n \in Nat /\ b \in Nat /\ end \in Nat
    BY DEF Tiles
  <1>2. \A i \in 1 .. n : L[i] \in Items /\ L[i].addr \in Nat /\ start <= L[i].addr /\ L[i].addr < end
                         /\ L[i].ok = Decodes(L[i].addr, end)
    <2> TAKE i \in 1 .. n
    <2>1. L[i].addr \in start .. end - 1 /\ L[i].ok = Decodes(L[i].addr, end)
      BY DEF Tiles
    <2>2. L[i] \in Items
      BY <1>1
    <2>3. QED
      BY <1>1, <2>1, <2>2
  <1>3. ASSUME NEW i \in 1 .. n - 1 PROVE L[i].addr < L[i + 1].addr
    <2>1. L[i + 1].addr = After(L[i].addr, end) /\ i \in 1 .. n
      BY <1>1 DEF Tiles
    <2>2. L[i].addr < After(L[i].addr, end)
      BY <1>2, <2>1, AfterIs
    <2>3. QED
      BY <2>1, <2>2
  <1>4. L[1].addr = start /\ 1 \in 1 .. n
    BY <1>1 DEF Tiles
  <1>5. Window(L, b, <<start, end>>, offset, count) = list
    <2>1. <<start, end>>[1] = start
      OBVIOUS
    <2>2. QED
      BY <2>1 DEF Window
  <1> HIDE DEF n
  <1>6. \A i \in 1 .. count : At(i) \in Int /\ At(i) <= n /\ (~(At(i) < 1) => At(i) \in 1 .. n)
    BY <1>1 DEF n
  <1>7. \A i \in 1 .. count : list[i] = IF At(i) < 1 THEN Invalid(start + At(i) - 1) ELSE L[At(i)]
    OBVIOUS
  <1>8. list \in Seq(Items \cup {Invalid(k) : k \in Int}) /\ Len(list) = count /\ DOMAIN list = 1 .. count
    <2> DEFINE T == Items \cup {Invalid(k) : k \in Int}
    <2>1. ASSUME NEW i \in 1 .. count PROVE list[i] \in T
      <3>1. CASE At(i) < 1
        <4>1. start + At(i) - 1 \in Int
          BY <1>6
        <4>2. QED
          BY <1>7, <3>1, <4>1
      <3>2. CASE ~(At(i) < 1)
        <4>1. L[At(i)] \in Items
          BY <1>2, <1>6, <3>2
        <4>2. QED
          BY <1>7, <3>2, <4>1
      <3>3. QED
        BY <3>1, <3>2
    <2>2. DOMAIN list = 1 .. count /\ list = [i \in 1 .. count |-> list[i]]
      OBVIOUS
    <2> HIDE DEF list, T
    <2>3. list \in [1 .. count -> T]
      BY <2>1, <2>2
    <2>4. list \in Seq(T)
      BY <2>3
    <2>5. DOMAIN list = 1 .. Len(list) /\ Len(list) \in Nat
      BY <2>4
    <2>6. Len(list) = count
      BY <2>2, <2>5
    <2>7. QED
      BY <2>2, <2>4, <2>6 DEF T
  <1> HIDE DEF list
  <1>9. \A k : Invalid(k).addr = k % (EndAddr + 1) /\ Invalid(k).ok = FALSE
    BY DEF Invalid
  <1>e. EndAddr \in Nat /\ EndAddr + 1 \in Nat /\ EndAddr + 1 > 0 /\ EndAddr + 1 - 1 = EndAddr
    BY LayoutAssumption
  <1>10. ASSUME NEW i \in 1 .. count - 1 PROVE Follows(list[i], list[i + 1])
    <2> DEFINE x == At(i)
    <2>1. i \in 1 .. count /\ i + 1 \in 1 .. count /\ At(i + 1) = x + 1 /\ x \in Int /\ x + 1 <= n
      BY <1>1, <1>6
    <2>2. /\ list[i] = IF x < 1 THEN Invalid(start + x - 1) ELSE L[x]
          /\ list[i + 1] = IF x + 1 < 1 THEN Invalid(start + (x + 1) - 1) ELSE L[x + 1]
      BY <1>7, <2>1
    <2> HIDE DEF x, At
    <2>w. ASSUME NEW y \in Int
          PROVE  /\ Invalid(y).addr < (y + 1) % (EndAddr + 1)
                       \/ (Invalid(y).addr = EndAddr /\ (y + 1) % (EndAddr + 1) = 0)
                 /\ y + 1 \in 0 .. EndAddr => (y + 1) % (EndAddr + 1) = y + 1
      <3>1. y % (EndAddr + 1) < (y + 1) % (EndAddr + 1)
               \/ (y % (EndAddr + 1) = EndAddr + 1 - 1 /\ (y + 1) % (EndAddr + 1) = 0)
        BY <1>e, CountingWraps
      <3>2. y + 1 \in Int /\ (y + 1 \in 0 .. EndAddr + 1 - 1 => (y + 1) % (EndAddr + 1) = y + 1)
        BY <1>e, CountingWraps
      <3>3. QED
        BY <1>e, <1>9, <3>1, <3>2
    <2>y. start + x - 1 \in Int /\ start + (x + 1) - 1 = (start + x - 1) + 1
      BY <2>1
    <2>3. CASE x + 1 < 1
      <3>1. x < 1
        BY <2>1, <2>3
      <3>2. list[i] = Invalid(start + x - 1) /\ list[i + 1] = Invalid((start + x - 1) + 1)
        BY <2>2, <2>3, <2>y, <3>1
      <3>3. list[i + 1].addr = ((start + x - 1) + 1) % (EndAddr + 1) /\ ~list[i].ok
        BY <1>9, <3>2
      <3>4. QED
        BY <2>w, <2>y, <3>2, <3>3 DEF Follows
    <2>4. CASE x = 0
      <3>1. list[i] = Invalid(start + x - 1) /\ list[i + 1] = L[1]
        BY <2>2, <2>4
      <3>2. (start + x - 1) + 1 = start /\ start \in 0 .. EndAddr
        BY <1>1, <1>e, <2>1, <2>4
      <3>3. list[i + 1].addr = ((start + x - 1) + 1) % (EndAddr + 1) /\ ~list[i].ok
        BY <1>4, <1>9, <2>w, <2>y, <3>1, <3>2
      <3>4. QED
        BY <2>w, <2>y, <3>1, <3>3 DEF Follows
    <2>5. CASE x >= 1
      <3>1. x \in 1 .. n - 1 /\ ~(x < 1) /\ ~(x + 1 < 1)
        BY <1>1, <2>1, <2>5
      <3>2. list[i] = L[x] /\ list[i + 1] = L[x + 1]
        BY <2>2, <3>1
      <3>3. QED
        BY <1>3, <3>1, <3>2 DEF Follows
    <2>6. QED
      BY <2>1, <2>3, <2>4, <2>5
  <1>11. ASSUME 1 - offset \in 1 .. count PROVE list[1 - offset].addr = L[b].addr
    <2>1. At(1 - offset) = b /\ ~(b < 1)
      BY <1>1
    <2>2. list[1 - offset] = L[b]
      BY <1>7, <1>11, <2>1
    <2>3. QED
      BY <2>2
  <1>12. ASSUME NEW i \in 1 .. count, list[i].ok, NEW k \in 0 .. layout.size[list[i].addr] - 1
         PROVE  Readable(list[i].addr + k)
    <2> DEFINE x == At(i)
               a == L[x].addr
    <2>1. ~(x < 1)
      <3>1. ASSUME x < 1 PROVE FALSE
        <4>1. list[i] = Invalid(start + x - 1)
          BY <1>7, <3>1
        <4>2. QED
          BY <1>9, <1>12, <4>1
      <3>2. QED
        BY <3>1
    <2>2. x \in 1 .. n /\ list[i] = L[x]
      BY <1>6, <1>7, <2>1
    <2>3. a \in Nat /\ start <= a /\ a < end /\ Decodes(a, end)
      BY <1>2, <1>12, <2>2
    <2> HIDE DEF x
    <2>4. a \in Addrs /\ layout.size[a] \in Nat /\ a + layout.size[a] <= end
      <3>1. a \in Addrs
        BY <2>3, AfterIs
      <3>2. layout.size[a] \in 0 .. MaxBytes /\ MaxBytes \in Nat
        BY <3>1, LayoutFacts
      <3>3. QED
        BY <2>3, <3>1, <3>2 DEF Decodes
    <2>5. list[i].addr = a
      BY <2>2
    <2> HIDE DEF a
    <2>6. a + k \in start .. end - 1
      BY <1>1, <2>3, <2>4, <2>5
    <2>7. QED
      BY <2>5, <2>6
  <1>13. ExactList(list, L[b].addr, offset, count)
    BY <1>8, <1>10, <1>11, <1>12 DEF ExactList
  <1>14. QED
    BY <1>5, <1>13

\* The memory that is read for a request whose base can be read.
LEMMA MemoryIs ==
    ASSUME LayoutOK, NEW base \in Addrs, NEW offset \in Int, NEW count \in Nat,
           count + offset > 0, Readable(base),
           \/ Readable(Requested(base, offset, count)[1])
           \/ base + (count + offset) * MaxBytes <= layout.readable[2]
    PROVE  LET req == Requested(base, offset, count)
               mem == ReadMemory(req[1], req[2])
           IN  /\ mem[1] = Greatest(req[1], layout.readable[1])
               /\ mem[2] = Least(req[2], layout.readable[2])
               /\ base < mem[2] /\ mem[2] \in 0 .. EndAddr /\ mem[1] \in Nat
  <1> DEFINE req == Requested(base, offset, count)
             r1 == req[1]
             r2 == req[2]
             mem == ReadMemory(r1, r2)
             lo == layout.readable[1]
             hi == layout.readable[2]
             last == base + (count + offset) * MaxBytes
  <1>1. /\ base \in Nat /\ lo \in Nat /\ hi \in Nat /\ EndAddr \in Nat /\ hi <= EndAddr
        /\ \A a : Readable(a) <=> lo <= a /\ a < hi
    BY LayoutFacts DEF Addrs, Readable, In
  <1>2. r1 \in 0 .. base /\ r2 \in base .. EndAddr /\ last \in Int /\ base < r2 /\ r2 <= last
    BY RequestedIs
  <1>3. lo <= base /\ base < hi /\ (Readable(r1) \/ last <= hi)
    BY <1>1
  <1> HIDE DEF req, last, lo, hi, r1, r2
  <1>4. r1 \in 0 .. EndAddr /\ r2 \in r1 .. EndAddr /\ r1 < r2 /\ r1 \in Nat /\ r2 \in Nat
    BY <1>1, <1>2
  <1>5. /\ Readable(r1) => mem[1] = r1 /\ mem[2] = Least(r2, hi)
        /\ r1 < lo /\ lo < r2 /\ r2 <= hi => mem[1] = lo /\ mem[2] = r2
    BY <1>4, ReadMemoryIs DEF lo, hi
  <1> HIDE DEF mem
  <1>6. CASE Readable(r1)
    <2>1. Greatest(r1, lo) = r1
      BY <1>1, <1>4, <1>6 DEF Greatest
    <2>2. base < Least(r2, hi) /\ Least(r2, hi) \in 0 .. EndAddr
      BY <1>1, <1>2, <1>3, <1>4 DEF Least
    <2>3. QED
      BY <1>4, <1>5, <1>6, <2>1, <2>2 DEF mem, req, r1, r2, lo, hi
  <1>7. CASE ~Readable(r1)
    <2>1. r1 < lo /\ lo < r2 /\ r2 <= hi
      BY <1>1, <1>2, <1>3, <1>4, <1>7
    <2>2. Greatest(r1, lo) = lo /\ Least(r2, hi) = r2
      BY <1>1, <1>4, <2>1 DEF Greatest, Least
    <2>3. base < r2 /\ r2 \in 0 .. EndAddr
      BY <1>1, <1>2
    <2>4. QED
      BY <1>1, <1>5, <2>1, <2>2, <2>3 DEF mem, req, r1, r2, lo, hi
  <1>8. QED
    BY <1>6, <1>7

LEMMA PositionIs ==
    ASSUME NEW S, NEW L \in Seq(S), NEW x
    PROVE  /\ Position(L, x) # 0 => Position(L, x) \in 1 .. Len(L) /\ L[Position(L, x)].addr = x
           /\ (\E i \in DOMAIN L : L[i].addr = x) => Position(L, x) # 0
  <1>1. DOMAIN L = 1 .. Len(L) /\ Len(L) \in Nat
    OBVIOUS
  <1>2. ASSUME \E i \in DOMAIN L : L[i].addr = x
        PROVE  Position(L, x) \in DOMAIN L /\ L[Position(L, x)].addr = x
    BY <1>2 DEF Position
  <1>3. ASSUME ~(\E i \in DOMAIN L : L[i].addr = x) PROVE Position(L, x) = 0
    BY <1>3 DEF Position
  <1>4. QED
    BY <1>1, <1>2, <1>3

\* The memory of an answer and the start that decoding succeeds from.
ReadFor(base, offset, count) ==
    ReadMemory(Requested(base, offset, count)[1], Requested(base, offset, count)[2])
Hits(mem, base) ==
    {s \in mem[1] .. Least(mem[1] + MaxBytes, mem[2]) - 1 :
        Position(DisassembleBytes(s, mem[2]), base) # 0}

\* A start that leads to the base is among those that are tried.
LEMMA SomeStartHits ==
    ASSUME LayoutOK, NEW base \in Addrs, NEW offset \in Int, NEW count \in Nat,
           count + offset > 0, Readable(base),
           \/ Readable(Requested(base, offset, count)[1])
           \/ base + (count + offset) * MaxBytes <= layout.readable[2],
           NEW first, first = Greatest(Requested(base, offset, count)[1], layout.readable[1]),
           NEW a \in first .. Least(first + MaxBytes - 1, base), Leads(a, base)
    PROVE  a \in Hits(ReadFor(base, offset, count), base)
  <1> DEFINE mem == ReadFor(base, offset, count)
             m2 == mem[2]
  <1>1. mem[1] = first /\ base < m2 /\ m2 \in 0 .. EndAddr /\ first \in Nat
    BY MemoryIs DEF ReadFor
  <1> HIDE DEF mem, m2
  <1>2. base \in Nat /\ MaxBytes \in Nat /\ MaxBytes > 0 /\ m2 \in Nat
    BY <1>1, LayoutFacts DEF Addrs
  <1>3. a \in Nat /\ first <= a /\ a <= base /\ a < first + MaxBytes
    BY <1>1, <1>2 DEF Least
  <1>4. a \in first .. Least(first + MaxBytes, m2) - 1
    BY <1>1, <1>2, <1>3 DEF Least
  <1>5. a \in 0 .. base /\ a \in 0 .. m2
    BY <1>1, <1>2, <1>3
  <1>6. \E i \in DOMAIN DisassembleBytes(a, m2) : DisassembleBytes(a, m2)[i].addr = base
    BY <1>1, <1>5, LeadsTo
  <1>7. DisassembleBytes(a, m2) \in Seq(Items)
    <2>1. PICK f : /\ DisassembleBytes(a, m2) = f[a]
                   /\ \A x \in a .. m2 : Tiles(f[x], x, m2)
      BY <1>1, <1>5, ChainIs
    <2>2. a \in a .. m2
      BY <1>2, <1>5
    <2>3. QED
      BY <2>1, <2>2 DEF Tiles
  <1>8. Position(DisassembleBytes(a, m2), base) # 0
    BY <1>6, <1>7, PositionIs
  <1>9. QED
    BY <1>1, <1>4, <1>8 DEF Hits, mem, m2

\* If there is room for the instructions that were asked for, they are there.
LEMMA RoomIsEnough ==
    ASSUME LayoutOK, NEW base \in Addrs, NEW offset \in Int, NEW count \in Nat,
           base + (count + offset) * MaxBytes <= layout.readable[2],
           NEW start \in Nat, NEW L, Tiles(L, start, ReadFor(base, offset, count)[2]),
           NEW b \in 1 .. Len(L), L[b].addr = base, Readable(base)
    PROVE  b - 1 + offset + count <= Len(L)
  <1> DEFINE last == base + (count + offset) * MaxBytes
             req == Requested(base, offset, count)
             m2 == ReadFor(base, offset, count)[2]
             hi == layout.readable[2]
             n == Len(L)
             k == n - b + 1
  <1>1. L \in Seq(Items) /\ n \in Nat /\ b \in Nat /\ k \in Nat
    BY DEF Tiles
  <1>2. base \in Nat /\ MaxBytes \in Nat /\ MaxBytes > 0 /\ hi \in Nat /\ hi <= EndAddr /\ EndAddr \in Nat
    BY LayoutFacts DEF Addrs
  <1>3. ASSUME count + offset > k PROVE FALSE
    <2>1. count + offset > 0
      BY <1>1, <1>3
    <2>2. m2 = Least(req[2], hi) /\ m2 \in 0 .. EndAddr
      BY <2>1, MemoryIs DEF ReadFor
    <2>3. last \in Int /\ last <= hi /\ req[2] = last
      <3>1. last \in Int /\ (count + offset > 0 /\ last <= EndAddr => req[2] = last)
        BY RequestedIs
      <3>2. last <= hi
        OBVIOUS
      <3> HIDE DEF last, req, hi
      <3>3. QED
        BY <1>2, <2>1, <3>1, <3>2
    <2> HIDE DEF m2, req, hi, n
    <2>4. m2 = last
      <3> HIDE DEF last
      <3>1. QED
        BY <1>2, <2>2, <2>3 DEF Least
    <2>5. m2 <= base + k * MaxBytes
      BY <2>2, EnoughInstructions DEF m2, n
    <2> DEFINE c == count + offset
    <2>6. c \in Nat /\ k + 1 <= c
      BY <1>1, <1>3, <2>1
    <2> HIDE DEF c, k
    <2>7. (k + 1) * MaxBytes <= c * MaxBytes /\ (k + 1) * MaxBytes = k * MaxBytes + MaxBytes
          /\ k * MaxBytes \in Nat /\ c * MaxBytes \in Nat
      BY <1>1, <1>2, <2>6
    <2>8. last = base + c * MaxBytes
      BY DEF c
    <2> HIDE DEF last
    <2>9. QED
      BY <1>2, <2>4, <2>5, <2>7, <2>8
  <1>4. QED
    BY <1>1, <1>3

\* FailsForCause with the layout and the answer as parameters.
LeadsIn(l, addr, base) ==
    LET reaches[a \in addr .. EndAddr + MaxBytes] ==
            \/ a = base
            \/ a < base /\ reaches[a + Greatest(l.size[a], 1)]
    IN reaches[addr]
EndsIn(l, ans) == l.readable[2] < ans.base + (ans.count + ans.offset) * MaxBytes
CauseIn(l, ans) ==
    LET req == Requested(ans.base, ans.offset, ans.count)
        first == Greatest(req[1], l.readable[1])
    IN  /\ ans.kind = "unreadable" =>
              \/ ~In(ans.base, l.readable)
              \/ EndsIn(l, ans) /\ ~In(req[1], l.readable)
              \/ \A a \in first .. Least(first + MaxBytes - 1, ans.base) :
                     ~LeadsIn(l, a, ans.base)
              \/ ans.count + ans.offset <= 0
        /\ ans.kind = "panic" => EndsIn(l, ans)

LEMMA CauseIs ==
    /\ FailsForCause <=> CauseIn(layout, answer)
    /\ FailsForCause' <=> CauseIn(layout', answer')
    /\ \A a, base : Leads(a, base) = LeadsIn(layout, a, base)
  BY DEF FailsForCause, MemoryCause, WhollyBefore, Ends, CauseIn, EndsIn, Leads, LeadsIn, Readable, In

\* handle_disassemble: a window is exact, a failure has a cause.
LEMMA HandledIs ==
    ASSUME LayoutOK, NEW base \in Addrs, NEW offset \in Int, NEW count \in Nat,
           HandleDisassemble(base, offset, count)
    PROVE  /\ CauseIn(layout, answer')
           /\ answer'.kind = "window" =>
                 ExactList(answer'.list, answer'.base, answer'.offset, answer'.count)
  <1> DEFINE mem == ReadFor(base, offset, count)
             m1 == mem[1]
             m2 == mem[2]
             hits == Hits(mem, base)
             start == CHOOSE s \in hits : \A t \in hits : s <= t
             L == DisassembleBytes(start, m2)
             b == Position(L, base)
             req == Requested(base, offset, count)
             outcome == IF hits = {} THEN "unreadable"
                        ELSE IF b - 1 + offset + count > Len(L) THEN "panic" ELSE "window"
  <1>1. answer' = [kind |-> outcome, base |-> base, offset |-> offset, count |-> count,
                   list |-> IF outcome # "window" THEN <<>> ELSE Window(L, b, <<start, m2>>, offset, count)]
    BY DEF HandleDisassemble, ReadFor, Hits
  <1>2. /\ answer'.kind = outcome /\ answer'.base = base /\ answer'.offset = offset
        /\ answer'.count = count
        /\ outcome = "window" => answer'.list = Window(L, b, <<start, m2>>, offset, count)
    <2> HIDE DEF outcome, mem, start, L, b
    <2>1. QED
      BY <1>1
  <1>3. /\ m1 \in Nat /\ m2 \in 0 .. EndAddr /\ m1 <= m2 /\ m2 \in Nat
        /\ \A k \in m1 .. m2 - 1 : Readable(k)
    <2>1. req[1] \in 0 .. base /\ req[2] \in base .. EndAddr
      BY RequestedIs
    <2>2. base \in Nat /\ base < EndAddr /\ EndAddr \in Nat
      BY LayoutFacts DEF Addrs
    <2> HIDE DEF req
    <2>3. req[1] \in 0 .. EndAddr /\ req[2] \in req[1] .. EndAddr
      BY <2>1, <2>2
    <2>4. /\ m1 \in req[1] .. req[2] /\ m2 \in m1 .. req[2] /\ \A k \in m1 .. m2 - 1 : Readable(k)
      <3>1. mem = ReadMemory(req[1], req[2])
        BY DEF ReadFor, req
      <3> HIDE DEF mem
      <3>2. QED
        BY <2>3, <3>1, ReadMemoryIs
    <2> HIDE DEF m1, m2
    <2>5. QED
      BY <2>1, <2>2, <2>3, <2>4
  <1>4. base \in Nat /\ MaxBytes \in Nat /\ MaxBytes > 0
    BY LayoutFacts DEF Addrs
  <1>5. ASSUME hits # {}
        PROVE  /\ start \in Nat /\ m1 <= start /\ start < m2 /\ Tiles(L, start, m2)
               /\ b \in 1 .. Len(L) /\ L[b].addr = base /\ Readable(base)
    <2>1. hits \in SUBSET Nat
      <3> HIDE DEF mem
      <3>1. QED
        BY <1>3, <1>4 DEF Hits, Least
    <2>2. start \in hits
      <3> HIDE DEF hits
      <3>1. \E s \in hits : \A t \in hits : s <= t
        BY <1>5, <2>1, LeastExists
      <3>2. QED
        BY <3>1
    <2> HIDE DEF start, mem
    <2>3. start \in m1 .. Least(m1 + MaxBytes, m2) - 1 /\ b # 0
      BY <2>2 DEF Hits
    <2> HIDE DEF m1, m2
    <2>4. start \in Nat /\ m1 <= start /\ start < m2 /\ start \in 0 .. m2 /\ start \in start .. m2
      BY <1>3, <1>4, <2>3 DEF Least
    <2>5. Tiles(L, start, m2)
      <3>1. PICK f : L = f[start] /\ \A x \in start .. m2 : Tiles(f[x], x, m2)
        BY <1>3, <2>4, ChainIs
      <3>2. QED
        BY <2>4, <3>1
    <2> HIDE DEF L
    <2>6. L \in Seq(Items)
      BY <2>5 DEF Tiles
    <2>7. b \in 1 .. Len(L) /\ L[b].addr = base
      BY <2>3, <2>6, PositionIs
    <2>8. Readable(base)
      <3>1. base \in start .. m2 - 1
        BY <2>5, <2>7 DEF Tiles
      <3>2. base \in m1 .. m2 - 1
        BY <1>3, <2>4, <3>1
      <3>3. QED
        BY <1>3, <3>2
    <2>9. QED
      BY <2>4, <2>5, <2>7, <2>8
  <1> HIDE DEF start, L, b
  <1>6. CASE hits = {}
    <2>1. answer'.kind = "unreadable"
      BY <1>2, <1>6
    <2> DEFINE lo == layout.readable[1]
               hi == layout.readable[2]
               first == Greatest(req[1], lo)
               last == base + (count + offset) * MaxBytes
    <2>2. SUFFICES ASSUME ~(count + offset <= 0), Readable(base), ~(hi < last /\ ~Readable(req[1])),
                          NEW a \in first .. Least(first + MaxBytes - 1, base), Leads(a, base)
                   PROVE  FALSE
      BY <1>2, <2>1, CauseIs DEF CauseIn, EndsIn, Readable, In
    <2>3. count + offset > 0 /\ hi \in Nat /\ last \in Int
      <3>1. hi \in Nat
        BY LayoutFacts
      <3>2. last \in Int
        BY RequestedIs
      <3>3. QED
        BY <2>2, <3>1, <3>2
    <2>4. Readable(req[1]) \/ last <= hi
      <3> HIDE DEF last, hi, req
      <3>1. QED
        BY <2>2, <2>3
    <2>5. a \in hits
      BY <2>2, <2>3, <2>4, SomeStartHits
    <2>6. QED
      BY <1>6, <2>5
  <1>7. CASE hits # {} /\ b - 1 + offset + count > Len(L)
    <2>1. answer'.kind = "panic"
      BY <1>2, <1>7
    <2> DEFINE hi == layout.readable[2]
               last == base + (count + offset) * MaxBytes
    <2>2. hi \in Nat /\ last \in Int /\ Len(L) \in Nat /\ b \in Nat
      <3>1. hi \in Nat
        BY LayoutFacts
      <3>2. last \in Int
        BY RequestedIs
      <3>3. L \in Seq(Items)
        BY <1>5, <1>7 DEF Tiles
      <3>4. QED
        BY <1>5, <1>7, <3>1, <3>2, <3>3
    <2>3. ASSUME last <= hi PROVE FALSE
      <3>1. b - 1 + offset + count <= Len(L)
        BY <1>5, <1>7, <2>3, RoomIsEnough
      <3>2. QED
        BY <1>7, <2>2, <3>1
    <2>4. hi < last
      <3> HIDE DEF hi, last
      <3>1. QED
        BY <2>2, <2>3
    <2>5. QED
      BY <1>2, <2>1, <2>4 DEF CauseIn, EndsIn
  <1>8. CASE hits # {} /\ ~(b - 1 + offset + count > Len(L))
    <2>1. answer'.kind = "window" /\ answer'.list = Window(L, b, <<start, m2>>, offset, count)
      BY <1>2, <1>8
    <2>2. /\ start \in Nat /\ m1 <= start /\ start < m2 /\ Tiles(L, start, m2)
          /\ b \in 1 .. Len(L) /\ L[b].addr = base
      BY <1>5, <1>8
    <2> HIDE DEF m1, m2, hits
    <2>3. \A k \in start .. m2 - 1 : Readable(k)
      <3>1. \A k \in start .. m2 - 1 : k \in m1 .. m2 - 1
        BY <1>3, <2>2
      <3>2. QED
        BY <1>3, <3>1
    <2>4. b - 1 + offset + count <= Len(L)
      <3>1. L \in Seq(Items)
        BY <2>2 DEF Tiles
      <3>2. Len(L) \in Nat /\ b \in Nat
        BY <2>2, <3>1
      <3>3. QED
        BY <1>8, <3>2
    <2>5. ExactList(Window(L, b, <<start, m2>>, offset, count), base, offset, count)
      BY <1>3, <2>2, <2>3, <2>4, WindowFits
    <2>6. CauseIn(layout, answer')
      BY <2>1 DEF CauseIn
    <2>7. QED
      BY <1>2, <2>1, <2>5, <2>6
  <1>9. QED
    BY <1>6, <1>7, <1>8

\* WindowIsExact by the list of the answer.
LEMMA ExactIs ==
    /\ (answer.kind = "window" => ExactList(answer.list, answer.base, answer.offset, answer.count))
          <=> WindowIsExact
    /\ layout' = layout /\ (answer'.kind = "window" =>
          ExactList(answer'.list, answer'.base, answer'.offset, answer'.count)) => WindowIsExact'
  BY DEF ExactList, Follows, WindowIsExact, Readable, In

AnswerOK == LayoutOK /\ WindowIsExact /\ FailsForCause

\* Another answer than that to a disassemble request.
OtherAnswer(ans) == ans.kind \notin {"window", "unreadable", "panic"}

LEMMA AnswerStep == AnswerOK /\ [Next]_vars => AnswerOK'
  <1> SUFFICES ASSUME AnswerOK, [Next]_vars PROVE AnswerOK'
    OBVIOUS
  <1>0. layout' = layout
    <2>1. \A addr : FromAddress(addr) => layout' = layout
      BY DEF FromAddress
    <2>2. ASSUME NEW base, NEW offset, NEW count, HandleDisassemble(base, offset, count)
          PROVE  layout' = layout
      BY <2>2 DEF HandleDisassemble
    <2>3. (SetTarget \/ AnswerTaken \/ UNCHANGED vars) => layout' = layout
      BY DEF SetTarget, AnswerTaken, vars
    <2>4. QED
      BY <2>1, <2>2, <2>3 DEF Next
  <1>1. LayoutOK'
    BY <1>0 DEF AnswerOK, LayoutOK
  <1>2. CASE OtherAnswer(answer')
    <2>1. WindowIsExact'
      BY <1>0, <1>2, ExactIs DEF OtherAnswer
    <2>2. FailsForCause'
      BY <1>2, CauseIs DEF OtherAnswer, CauseIn
    <2>3. QED
      BY <1>1, <2>1, <2>2 DEF AnswerOK
  <1>3. ASSUME NEW addr \in Addrs, FromAddress(addr) PROVE AnswerOK'
    <2>1. OtherAnswer(answer')
      BY <1>3 DEF FromAddress, OtherAnswer, Failed
    <2>2. QED
      BY <1>2, <2>1
  <1>4. CASE SetTarget \/ AnswerTaken
    <2>1. OtherAnswer(answer')
      BY <1>4 DEF SetTarget, AnswerTaken, OtherAnswer, NoAnswer
    <2>2. QED
      BY <1>2, <2>1
  <1>5. ASSUME NEW base \in Addrs, NEW offset \in -MaxOffset .. MaxOffset, NEW count \in 0 .. MaxCount,
               HandleDisassemble(base, offset, count)
        PROVE  AnswerOK'
    <2>1. offset \in Int /\ count \in Nat
      BY DisassemblyAssumption
    <2>2. /\ CauseIn(layout, answer')
          /\ answer'.kind = "window" => ExactList(answer'.list, answer'.base, answer'.offset, answer'.count)
      BY <1>5, <2>1, HandledIs DEF AnswerOK
    <2>3. WindowIsExact'
      BY <1>0, <2>2, ExactIs
    <2>4. FailsForCause'
      BY <1>0, <2>2, CauseIs
    <2>5. QED
      BY <1>1, <2>3, <2>4 DEF AnswerOK
  <1>6. CASE UNCHANGED vars
    <2>1. answer' = answer
      BY <1>6 DEF vars
    <2>2. WindowIsExact' /\ FailsForCause'
      BY <1>0, <2>1, ExactIs, CauseIs DEF AnswerOK
    <2>3. QED
      BY <1>1, <2>2 DEF AnswerOK
  <1>7. QED
    BY <1>3, <1>4, <1>5, <1>6 DEF Next

LEMMA AnswersAreOK == Spec => []AnswerOK
  <1>1. Init => AnswerOK
    <2> SUFFICES ASSUME Init PROVE AnswerOK
      OBVIOUS
    <2>1. LayoutOK /\ OtherAnswer(answer)
      BY DEF Init, LayoutInit, LayoutOK, NoAnswer, OtherAnswer
    <2>2. WindowIsExact /\ FailsForCause
      BY <2>1, ExactIs, CauseIs DEF OtherAnswer, CauseIn
    <2>3. QED
      BY <2>1, <2>2 DEF AnswerOK
  <1>2. QED
    BY <1>1, AnswerStep, PTL DEF Spec

\* A window has the number of instructions that was asked for, with the base where the
\* offset says, and what decodes is whole and readable; its addresses increase, except
\* where padding wraps around address 0: for any memory, offset and count
\* (handle_disassemble).
THEOREM WindowsAreExact == Spec => []WindowIsExact
  <1>1. AnswerOK => WindowIsExact
    BY DEF AnswerOK
  <1>2. QED
    BY <1>1, AnswersAreOK, PTL

\* A request fails only for a cause in memory or because its window lies wholly before
\* the base (the failure that BaseIsInRange refutes), and panics only where readable
\* memory ends inside the request: for any memory, offset and count
\* (handle_disassemble, read_memory, partition_point).
THEOREM FailuresHaveCause == Spec => []FailsForCause
  <1>1. AnswerOK => FailsForCause
    BY DEF AnswerOK
  <1>2. QED
    BY <1>1, AnswersAreOK, PTL

=============================================================================
