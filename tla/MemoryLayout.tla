---------------------------- MODULE MemoryLayout ----------------------------
(***************************************************************************)
(* The debuggee's memory, as the session sees it through LLDB (external):   *)
(* which addresses are readable, where instructions decode, and which of     *)
(* them belong to a symbol. The layout is chosen at the start and stays.     *)
(***************************************************************************)
EXTENDS Integers, Sequences

CONSTANTS
    EndAddr,     \* bound: u64::MAX in the code; memory is at 0 .. EndAddr - 1
    MaxBytes,    \* max_instruction_bytes: 4 or 16 in the code
    Readables,   \* readable areas <<lo, hi>> that a layout may have
    Symbols      \* ranges <<start, end>> that a symbol may have, empty for none

ASSUME LayoutAssumption ==
    /\ EndAddr \in Nat \ {0} /\ MaxBytes \in Nat \ {0}
    /\ Readables \cup Symbols \subseteq (0 .. EndAddr) \X (0 .. EndAddr)
    /\ \A r \in Readables \cup Symbols : r[1] <= r[2]

VARIABLES
    layout,  \* [size, readable, symbol]; size 0 where nothing decodes
    answer   \* what the request just handled was answered with

Addrs == 0 .. EndAddr - 1
NoAnswer == [kind |-> "none"]
Failed == [kind |-> "failed"]

In(addr, range) == range[1] <= addr /\ addr < range[2]
Readable(addr) == In(addr, layout.readable)
HasSymbol(addr) == In(addr, layout.symbol)

\* Instructions are where they can be read, in memory or in a symbol's file.
LayoutInit ==
    /\ layout \in [size : [Addrs -> 0 .. MaxBytes], readable : Readables, symbol : Symbols]
    /\ \A addr \in Addrs : layout.size[addr] > 0 => Readable(addr) \/ HasSymbol(addr)
    /\ answer = NoAnswer

Least(a, b) == IF a < b THEN a ELSE b
Greatest(a, b) == IF a < b THEN b ELSE a

\* SBProcess::read_memory: bytes from addr up to the first that is not readable;
\* an error, modelled by <<>>, if that is the first.
ProcessRead(addr, end) ==
    IF Readable(addr) THEN <<addr, Least(end, layout.readable[2])>> ELSE <<>>

\* LLDB decodes the instruction at addr from the bytes before end.
Decodes(addr, end) == layout.size[addr] > 0 /\ addr + layout.size[addr] <= end

\* One instruction more, if it decodes: where decoding has got to and the addresses.
Decoded(before, end) ==
    IF before.next < end /\ Decodes(before.next, end)
    THEN [next |-> before.next + layout.size[before.next],
          addrs |-> Append(before.addrs, before.next)]
    ELSE before

\* At most n instructions decoded in a row from addr on, as their addresses.
Instructions(addr, end, n) ==
    LET list[k \in 0 .. n] ==
            IF k = 0 THEN [next |-> addr, addrs |-> <<>>] ELSE Decoded(list[k - 1], end)
    IN list[n].addrs
=============================================================================
