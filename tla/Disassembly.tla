----------------------------- MODULE Disassembly -----------------------------
(***************************************************************************)
(* Disassembly: the ranges that stand in for source files (DisassembledRanges*)
(* with the lines that stack frames and breakpoints refer to), and the       *)
(* `disassemble` request with its window of instructions around an address.  *)
(***************************************************************************)
EXTENDS MemoryLayout

CONSTANTS
    NoSymbolInstructions, \* NO_SYMBOL_INSTRUCTIONS: 32 in the code
    MaxOffset, MaxCount,  \* bounds: arguments of a disassemble request
    MaxRanges             \* bound: number of ranges

ASSUME DisassemblyAssumption ==
    NoSymbolInstructions \in Nat /\ MaxOffset \in Nat /\ MaxCount \in Nat /\ MaxRanges \in Nat

VARIABLES
    by_handle,   \* ranges in the order of their handles, 1000 and up
    by_address   \* their positions in by_handle, by start address

ranges == <<by_handle, by_address>>
vars == <<layout, answer, ranges>>

Init == LayoutInit /\ by_handle = <<>> /\ by_address = <<>>

-----------------------------------------------------------------------------
(* DisassembledRanges                                                        *)

\* What a halving search has left, <<low, high>>, and where it looks next.
Windows(start, end) == (start .. end) \X (start .. end)
Middle(w) == w[1] + (w[2] - w[1]) \div 2

\* slice::partition_point for a list of numbers: how many are below the limit,
\* found by halving.
PartitionPoint(list, limit) ==
    LET search[w \in Windows(0, Len(list))] ==
            IF w[1] >= w[2] THEN w[1]
            ELSE IF list[Middle(w) + 1] < limit THEN search[<<Middle(w) + 1, w[2]>>]
                 ELSE search[<<w[1], Middle(w)>>]
    IN search[<<0, Len(list)>>]

Starts == [i \in DOMAIN by_address |-> by_handle[by_address[i]].start]
Contains(range, addr) == range.start <= addr /\ addr < range.end

\* Mutant of FindByAddress: the range that starts at the address is left out.
FindByAddressBefore(addr) ==
    LET idx == PartitionPoint(Starts, addr) IN
    IF idx > 0 /\ Contains(by_handle[by_address[idx]], addr) THEN by_address[idx] ELSE 0

\* The last range that starts at or before the address, if it contains it; 0 if not.
FindByAddress(addr) ==
    LET idx == PartitionPoint(Starts, addr + 1) IN
    IF idx > 0 /\ Contains(by_handle[by_address[idx]], addr) THEN by_address[idx] ELSE 0

\* Where a new range goes in by_address.
Insertion(range) ==
    LET idx == PartitionPoint(Starts, range.start) IN
    SubSeq(by_address, 1, idx) \o <<Len(by_handle) + 1>>
        \o SubSeq(by_address, idx + 1, Len(by_address))

\* The range around an address: its symbol, or a number of instructions, of which
\* the last one marks the end.
RangeAround(addr) ==
    IF HasSymbol(addr)
    THEN [start |-> layout.symbol[1], end |-> layout.symbol[2],
          addrs |-> Instructions(layout.symbol[1], layout.symbol[2], EndAddr)]
    ELSE LET addrs == IF Readable(addr)
                      THEN Instructions(addr, layout.readable[2], NoSymbolInstructions + 1)
                      ELSE <<>>
         IN [start |-> addr, end |-> IF addrs = <<>> THEN addr ELSE addrs[Len(addrs)],
             addrs |-> addrs]

\* from_address, for the pc of a stack frame or the address of a breakpoint.
FromAddress(addr) ==
    LET found == FindByAddress(addr)
        new == RangeAround(addr) IN
    /\ IF found # 0 THEN
          /\ answer' = [kind |-> "placed", addr |-> addr, at |-> found]
          /\ UNCHANGED ranges
       ELSE IF new.addrs = <<>> THEN
          /\ answer' = Failed
          /\ UNCHANGED ranges
       ELSE /\ Len(by_handle) < MaxRanges
            /\ by_handle' = Append(by_handle, new)
            /\ by_address' = Insertion(new)
            /\ answer' = [kind |-> "placed", addr |-> addr, at |-> Len(by_handle) + 1]
    /\ UNCHANGED layout

\* Lines of a range's text: two of header, then one for each instruction. The index
\* of a line without an instruction panics.
LineNumByAddress(range, addr) == PartitionPoint(range.addrs, addr) + 3
Panic == -1
AddressByLineNum(range, line) ==
    IF line - 2 \in DOMAIN range.addrs THEN range.addrs[line - 2] ELSE Panic

\* Mutant of LinesFromAdapterData: the line of the first instruction is forgotten.
LinesFromAdapterDataShort(adapter) ==
    LET offsets == adapter.line_offsets
        addr[i \in 0 .. Len(offsets)] ==
            IF i = 0 THEN adapter.start ELSE addr[i - 1] + offsets[i]
    IN [line \in 0 .. Len(offsets) + 2 |-> addr[Greatest(line - 2, 0)]]

\* What a breakpoint keeps of a range beyond the session, and how a later session
\* gets the address of a line from it: four times the start, then the offsets.
AdapterData(range) ==
    [start |-> range.start, end |-> range.end,
     line_offsets |-> [i \in 1 .. Len(range.addrs) - 1 |->
                           range.addrs[i + 1] - range.addrs[i]]]
LinesFromAdapterData(adapter) ==
    LET offsets == adapter.line_offsets
        addr[i \in 0 .. Len(offsets)] ==
            IF i = 0 THEN adapter.start ELSE addr[i - 1] + offsets[i]
    IN [line \in 0 .. Len(offsets) + 3 |-> addr[Greatest(line - 3, 0)]]

\* set_target: a new target has no ranges.
SetTarget ==
    /\ by_handle' = <<>> /\ by_address' = <<>>
    /\ answer' = NoAnswer
    /\ UNCHANGED layout

-----------------------------------------------------------------------------
(* The disassemble request.                                                  *)

\* Mutant of FirstReadable: the search ends one address too early.
FirstReadableShort(start, end) ==
    LET search[w \in Windows(start, end)] ==
            IF w[1] + 1 >= w[2] THEN w[1]
            ELSE IF ~Readable(Middle(w)) THEN search[<<Middle(w), w[2]>>]
                 ELSE search[<<w[1], Middle(w)>>]
    IN search[<<start, end>>]

\* partition_point: "the first value in the range for which the predicate returns
\* false", provided that it is true before and false after.
FirstReadable(start, end) ==
    LET search[w \in Windows(start, end)] ==
            IF w[1] >= w[2] THEN w[1]
            ELSE IF ~Readable(Middle(w)) THEN search[<<Middle(w) + 1, w[2]>>]
                 ELSE search[<<w[1], Middle(w)>>]
    IN search[<<start, end>>]

\* read_memory: the bytes that are there, as a range of addresses.
ReadMemory(start, end) ==
    LET read == ProcessRead(start, end)
        first == FirstReadable(start, end)
        rest == ProcessRead(first, end)
    IN IF start < end /\ read # <<>> THEN read
       ELSE IF first < end /\ rest # <<>> THEN rest ELSE <<first, first>>

\* disassemble_bytes: what decodes, and single bytes between, from start to end.
DisassembleBytes(start, end) ==
    LET chain[addr \in start .. end + MaxBytes] ==
            IF addr >= end THEN <<>>
            ELSE LET ok == Decodes(addr, end)
                     next == addr + (IF ok THEN layout.size[addr] ELSE 1)
                 IN <<[addr |-> addr, ok |-> ok]>> \o chain[next]
    IN chain[start]

\* position() of the instruction at the address, from 1; 0 if there is none.
Position(instructions, addr) ==
    IF \E i \in DOMAIN instructions : instructions[i].addr = addr
    THEN CHOOSE i \in DOMAIN instructions : instructions[i].addr = addr
    ELSE 0

\* invalid_memory, after the wrapping addition that the padding makes.
Invalid(addr) == [addr |-> addr % (EndAddr + 1), ok |-> FALSE]

\* Mutant of Window: the instruction at the base address is one off.
WindowOffByOne(instructions, base_index, area, offset, count) ==
    LET start_idx == base_index + offset + 1
    IN [i \in 1 .. count |->
           LET idx == start_idx + i - 1 IN
           IF idx < 1 THEN Invalid(area[1] + idx - 1)
           ELSE IF idx > Len(instructions) THEN Invalid(area[2]) ELSE instructions[idx]]

\* The part of the decoded instructions that was asked for, with invalid memory
\* before it where it begins too early.
Window(instructions, base_index, area, offset, count) ==
    LET start_idx == base_index + offset
    IN [i \in 1 .. count |->
           LET idx == start_idx + i - 1 IN
           IF idx < 1 THEN Invalid(area[1] + idx - 1) ELSE instructions[idx]]

\* The bytes that are surely enough for the window.
Requested(base, offset, count) ==
    <<Greatest(base - (-Least(offset, 0)) * MaxBytes, 0),
      Least(base + Greatest(count + offset, 0) * MaxBytes, EndAddr)>>

\* handle_disassemble: the bytes are decoded from the first start that leads to
\* the base. The slice of the instructions panics if it ends behind them.
HandleDisassemble(base, offset, count) ==
    LET req == Requested(base, offset, count)
        mem == ReadMemory(req[1], req[2])
        starts == mem[1] .. Least(mem[1] + MaxBytes, mem[2]) - 1
        hits == {s \in starts : Position(DisassembleBytes(s, mem[2]), base) # 0}
        start == CHOOSE s \in hits : \A t \in hits : s <= t
        instructions == DisassembleBytes(start, mem[2])
        base_index == Position(instructions, base)
        outcome == IF hits = {} THEN "unreadable"
                   ELSE IF base_index - 1 + offset + count > Len(instructions) THEN "panic"
                   ELSE "window"
    IN /\ answer' = [kind |-> outcome, base |-> base, offset |-> offset, count |-> count,
                     list |-> IF outcome # "window" THEN <<>>
                              ELSE Window(instructions, base_index, <<start, mem[2]>>,
                                          offset, count)]
       /\ UNCHANGED <<layout, ranges>>

-----------------------------------------------------------------------------

\* The client takes the answer; the next request follows.
AnswerTaken ==
    /\ answer # NoAnswer
    /\ answer' = NoAnswer
    /\ UNCHANGED <<layout, ranges>>

\* Bound: a disassemble request reads no range and is explored where none exists.
Next ==
    \/ /\ answer = NoAnswer
       /\ \/ \E addr \in Addrs : FromAddress(addr)
          \/ SetTarget
          \/ /\ by_handle = <<>>
             /\ \E base \in Addrs, offset \in -MaxOffset .. MaxOffset, count \in 0 .. MaxCount :
                   HandleDisassemble(base, offset, count)
    \/ AnswerTaken

Spec == Init /\ [][Next]_vars

-----------------------------------------------------------------------------
(* Properties.                                                               *)

\* Looking an address up finds a range that contains it whenever there is one,
\* although only the last range that starts before it is looked at; unless that
\* one lies inside a longer range and ends before the address. from_address
\* answers with a range that contains the address and that the next lookup finds
\* again, unless it is a range of one instruction, which is empty
\* (find_by_address, from_address, add).
LookupFindsRange ==
    /\ \A addr \in Addrs :
          IF FindByAddress(addr) # 0 THEN Contains(by_handle[FindByAddress(addr)], addr)
          ELSE \A i \in DOMAIN by_handle : Contains(by_handle[i], addr) =>
                   \E j \in DOMAIN by_handle :
                       /\ by_handle[j].start \in by_handle[i].start .. addr
                       /\ by_handle[j].end <= addr
    /\ answer.kind = "placed" =>
          \/ FindByAddress(answer.addr) = answer.at
          \/ Len(by_handle[answer.at].addrs) = 1 /\ ~HasSymbol(answer.addr)

\* The line shown for an instruction leads back to it: by the range itself, and in
\* a later session by the adapter data saved with a breakpoint. Of the lines that the
\* saved data knows, the two agree on all but the header, where the range panics and
\* the saved data has the start (line_num_by_address, address_by_line_num,
\* adapter_data, lines_from_adapter_data).
LinesAgree ==
    \A i \in DOMAIN by_handle :
        LET range == by_handle[i]
            saved == LinesFromAdapterData(AdapterData(range))
        IN /\ \A k \in DOMAIN range.addrs :
                 LET line == LineNumByAddress(range, range.addrs[k]) IN
                 /\ AddressByLineNum(range, line) = range.addrs[k]
                 /\ line \in DOMAIN saved /\ saved[line] = range.addrs[k]
           /\ \A line \in DOMAIN saved :
                 IF line < 3 THEN AddressByLineNum(range, line) = Panic /\ saved[line] = range.start
                 ELSE AddressByLineNum(range, line) = saved[line]

\* A window has the number of instructions that was asked for, with the base where
\* the offset says; what decodes is whole and lies in readable memory. The addresses
\* increase, save that padding before address 0 is at the end of the address space,
\* from where it wraps to 0 (handle_disassemble).
WindowIsExact ==
    answer.kind = "window" =>
        LET list == answer.list IN
        /\ Len(list) = answer.count
        /\ \A i \in 1 .. Len(list) - 1 :
              \/ list[i].addr < list[i + 1].addr
              \/ ~list[i].ok /\ list[i].addr = EndAddr /\ list[i + 1].addr = 0
        /\ 1 - answer.offset \in DOMAIN list => list[1 - answer.offset].addr = answer.base
        /\ \A i \in DOMAIN list : list[i].ok =>
              \A b \in 0 .. layout.size[list[i].addr] - 1 : Readable(list[i].addr + b)

\* Decoding from the address, one arrives at the base.
Leads(addr, base) ==
    LET reaches[a \in addr .. EndAddr + MaxBytes] ==
            \/ a = base
            \/ a < base /\ reaches[a + Greatest(layout.size[a], 1)]
    IN reaches[addr]

\* The readable area ends inside the request.
Ends == layout.readable[2] < answer.base + (answer.count + answer.offset) * MaxBytes

\* The memory explains that the base was not found: it is not readable, the readable
\* area begins and ends inside the request (so that halving may miss it), or no start
\* among the first ones readable leads to the base.
MemoryCause ==
    LET req == Requested(answer.base, answer.offset, answer.count)
        first == Greatest(req[1], layout.readable[1])
    IN  \/ ~Readable(answer.base)
        \/ Ends /\ ~Readable(req[1])
        \/ \A a \in first .. Least(first + MaxBytes - 1, answer.base) : ~Leads(a, answer.base)

\* All of the instructions asked for precede the base.
WhollyBefore == answer.count + answer.offset <= 0

\* A request fails only for a cause in memory, or because it lies wholly before its
\* base (refuted as a cause by BaseIsInRange). It panics only if the readable area
\* ends inside the request (handle_disassemble, read_memory, partition_point).
FailsForCause ==
    /\ answer.kind = "unreadable" => MemoryCause \/ WhollyBefore
    /\ answer.kind = "panic" => Ends

\* disassemble.rs: "We want to disassemble enough bytes so that: 1. The instruction at
\* base_addr is within the range", so that only memory can keep a request for some
\* instructions, with room for them, from being answered.  Refuted by a window wholly
\* before its base, for which the bytes that are read end at the base.
BaseIsInRange ==
    answer.kind = "unreadable" /\ answer.count > 0 /\ Readable(answer.base + answer.offset)
        => MemoryCause

\* disassemble.rs: "We may end up with out-of-range indices, in which case we'll
\* pad with "invalid memory" instructions."  Refuted at the end of readable memory,
\* where the slice of instructions panics before anything is padded.
PadsOutOfRange == answer.kind = "panic" => answer.count = 0
=============================================================================
