-------------------------------- MODULE EvmDump --------------------------------
(***************************************************************************)
(* x/anchoring/evmlayout/dump.go: writes put one at a time into blocks of  *)
(* a file, each behind a header with its pair count.  The file is the      *)
(* sequence of the writes the io.Writer accepted; `fault` is the number of *)
(* the one it fails, 0 for none.                                           *)
(***************************************************************************)
EXTENDS Integers, Sequences

CONSTANT DumpBlockPairs     \* pairs in a block; 2^20 in the code

ASSUME DumpAssumption == DumpBlockPairs \in Nat \ {0}

Header(n) == [kind |-> "header", count |-> n]
Pairs(pairs) == [kind |-> "pairs", pairs |-> pairs]

NewDump == [out |-> <<>>, pending |-> <<>>, err |-> FALSE]

\* A flush that keeps what it wrote.
FlushKeeps(dump, fault) ==
    LET file == dump.out \o <<Header(Len(dump.pending)), Pairs(dump.pending)>>
    IN  IF dump.pending = <<>> THEN dump
        ELSE IF fault \in Len(dump.out) + 1 .. Len(file)
        THEN [dump EXCEPT !.out = SubSeq(file, 1, fault - 1), !.err = TRUE]
        ELSE [dump EXCEPT !.out = file]

\* Nothing to write, or the header and the pairs; what was written before a
\* failure stays in the file.
Flush(dump, fault) ==
    LET file == dump.out \o <<Header(Len(dump.pending)), Pairs(dump.pending)>>
    IN  IF dump.pending = <<>> THEN dump
        ELSE IF fault \in Len(dump.out) + 1 .. Len(file)
        THEN [dump EXCEPT !.out = SubSeq(file, 1, fault - 1), !.err = TRUE]
        ELSE [dump EXCEPT !.out = file, !.pending = <<>>]

PutPair(dump, write, fault) ==
    LET filled == [dump EXCEPT !.pending = Append(@, write)]
    IN  IF Len(filled.pending) = DumpBlockPairs THEN Flush(filled, fault) ELSE filled

Close(dump, fault) == Flush(dump, fault)

\* An error of Put stops the walk.
Sink(dump, write, fault) == IF dump.err THEN dump ELSE PutPair(dump, write, fault)

\* The dump after each of a migration's writes.
DumpAfter(writes, fault) ==
    LET after[n \in 0 .. Len(writes)] ==
            IF n = 0 THEN NewDump ELSE Sink(after[n - 1], writes[n], fault)
    IN  after

\* Nothing is closed after an error.
DumpOf(writes, fault) ==
    LET last == DumpAfter(writes, fault)[Len(writes)]
    IN  IF last.err THEN last ELSE Close(last, fault)

\* The parts one after another.
JoinedUpTo(parts) ==
    LET upTo[n \in 0 .. Len(parts)] ==
            IF n = 0 THEN <<>> ELSE upTo[n - 1] \o parts[n]
    IN  upTo

Joined(parts) == JoinedUpTo(parts)[Len(parts)]

\* The writes a loader reads from a file whose headers and pairs agree.
Loads(out, writes) ==
    /\ \A i \in DOMAIN out :
          IF i % 2 = 1
          THEN out[i].kind = "header"
          ELSE out[i].kind = "pairs" /\ Len(out[i].pairs) = out[i - 1].count
    /\ Len(out) % 2 = 0
    /\ Joined([i \in 1 .. Len(out) \div 2 |-> out[2 * i].pairs]) = writes
=============================================================================
