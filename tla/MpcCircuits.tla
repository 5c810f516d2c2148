---------------------------- MODULE MpcCircuits ----------------------------
(* The circuits of src/volePSI/MpMpcWire.cpp, MpMpcWireOps.cpp and
   MpMpcWireDriver.cpp as sequences of gates for MpcWire, at any bit width: the
   code's 64-bit keys are sequences of registers, lowest bit first, and an
   element is a key and a payload. Register 0 holds 0. *)
EXTENDS Integers, Sequences, SequencesExt, TLC

Zero == 0
Result == 1
Decided == 2
First == 3
Contrib == 4
Temporaries == 0..4

Of(r) == [l |-> r, r |-> Zero, neg |-> 0]
Not(r) == [l |-> r, r |-> Zero, neg |-> 1]
Both(r, s) == [l |-> r, r |-> s, neg |-> 0]
Same(r, s) == [l |-> r, r |-> s, neg |-> 1]
NoCopy == [r \in {} |-> 0]

And(x, y, d) == [x |-> x, y |-> y, out |-> (d :> "set"), copy |-> NoCopy]
Or(r, s, d) == [x |-> Not(r), y |-> Not(s), out |-> (d :> "not"), copy |-> NoCopy]

\* wireSecureLessThan: from the highest bit, the first that differs decides.
\* Result and Decided are zero before the first.
LessThan(x, y) ==
  LET n == Len(x)
      was(i, r) == IF i = n THEN Zero ELSE r
      step(i) == << And(Both(x[i], y[i]), Not(was(i, Decided)), First),
                    And(Of(First), Of(y[i]), Contrib),
                    Or(was(i, Result), Contrib, Result),
                    Or(was(i, Decided), First, Decided) >>
  IN FlattenSeq([k \in 1..n |-> step(n + 1 - k)])

\* wireSecureEqual: a tree of ANDs over the bits that agree; an odd one at the
\* end of a level moves up as it is. A leaf is an operand, a node a register.
RECURSIVE AndTree(_, _)
AndTree(level, fresh) ==
  IF Len(level) = 1 THEN <<>>
  ELSE LET pairs == Len(level) \div 2
           next == [k \in 1..pairs |-> Of(fresh + k)]
                     \o (IF Len(level) % 2 = 1 THEN <<Last(level)>> ELSE <<>>)
       IN [k \in 1..pairs |-> And(level[2*k - 1], level[2*k], fresh + k)] \o AndTree(next, fresh + pairs)
Equal(x, y, fresh) == AndTree([i \in DOMAIN x |-> Same(x[i], y[i])], fresh)

\* wireConditionalSwap, on the selector in Result.
Bits(a) == a.key \o a.payload
ConditionalSwap(a, b) ==
  [i \in DOMAIN Bits(a) |-> [x |-> Of(Result), y |-> Both(Bits(a)[i], Bits(b)[i]),
                             out |-> (Bits(a)[i] :> "xor" @@ Bits(b)[i] :> "xor"), copy |-> NoCopy]]
\* Mutant: the direction is ignored.
CompareAndSwapUp(a, b, ascending) == LessThan(b.key, a.key) \o ConditionalSwap(a, b)
CompareAndSwap(a, b, ascending) ==
  (IF ascending THEN LessThan(b.key, a.key) ELSE LessThan(a.key, b.key)) \o ConditionalSwap(a, b)

\* wireMpcBitonicSort, on a sequence padded to a power of two.
RECURSIVE Merge(_, _, _, _)
Merge(xs, low, cnt, ascending) ==
  IF cnt <= 1 THEN <<>>
  ELSE LET k == cnt \div 2 IN
       FlattenSeq([i \in 1..k |-> CompareAndSwap(xs[low + i], xs[low + k + i], ascending)])
         \o Merge(xs, low, k, ascending) \o Merge(xs, low + k, k, ascending)
RECURSIVE SortHelper(_, _, _, _)
SortHelper(xs, low, cnt, ascending) ==
  IF cnt <= 1 THEN <<>>
  ELSE LET k == cnt \div 2 IN
       SortHelper(xs, low, k, TRUE) \o SortHelper(xs, low + k, k, FALSE) \o Merge(xs, low, cnt, ascending)
NextPow2(n) == CHOOSE p \in {2^i : i \in 0..n} : p >= n /\ \A q \in {2^i : i \in 0..n} : q >= n => p <= q
\* The sentinels are elements of their own, all-one keys and empty payloads.
Sort(xs, sentinels) == SortHelper(xs \o sentinels, 0, Len(xs) + Len(sentinels), TRUE)

\* wireMpcCrossProductExpand: for every window of N*M elements and every choice
\* of one of M per party, a row is copied and its parties' is_real bits ANDed.
\* A row is an element as the filter sorts it: its key is the negated
\* is_intersection below zeros, its payload the id, the data and the bit.
Digit(combo, p, M) == (combo \div M^p) % M
ExtractId(key, partyIdxBits) ==
  [i \in DOMAIN key |-> IF i + partyIdxBits <= Len(key) THEN key[i + partyIdxBits] ELSE Zero]
ExpandRow(parts, partyIdxBits, row) ==
  LET real(p) == parts[p].payload[1]
      copied == ExtractId(parts[1].key, partyIdxBits) \o FlattenSeq([p \in DOMAIN parts |-> Tail(parts[p].payload)])
      copy == [r \in {row.payload[i] : i \in DOMAIN copied} |->
                 copied[CHOOSE i \in DOMAIN copied : row.payload[i] = r]]
      bit == Last(row.payload)
      N == Len(parts)
  IN [p \in 1..(N - 1) |->
        [x |-> Of(IF p = 1 THEN real(1) ELSE bit), y |-> Of(real(p + 1)),
         out |-> IF p = N - 1 THEN (bit :> "set" @@ row.key[1] :> "not") ELSE (bit :> "set"),
         copy |-> IF p = 1 THEN copy ELSE NoCopy]]
CrossProductExpand(bag, N, M, partyIdxBits, rows) ==
  LET combos == M^N
      parts(w, combo) == [p \in 1..N |-> bag[w * N * M + (p - 1) * M + Digit(combo, p - 1, M) + 1]]
  IN FlattenSeq([k \in DOMAIN rows |-> ExpandRow(parts((k - 1) \div combos, (k - 1) % combos), partyIdxBits, rows[k])])

\* wireMpcExecutePrivateJoin: sort the bag of all parties, expand, and sort the
\* rows so that the intersection comes first.
PrivateJoin(bag, bagPad, N, M, partyIdxBits, rows, rowPad) ==
  Sort(bag, bagPad) \o CrossProductExpand(bag, N, M, partyIdxBits, rows) \o Sort(rows, rowPad)

\* The triples the code says its circuits cost.
\* Mutant: one OR of a bit is not counted.
LessThanCostThree(width) == width * 3
LessThanCost(width) == width * 4
EqualCost(width) == width - 1
CompareSwapCount(n) ==
  LET log == CHOOSE l \in 0..n : 2^l = n IN IF n <= 1 THEN 0 ELSE ((n \div 2) * log * (log + 1)) \div 2
SortCost(n, width, payload) ==
  IF n <= 1 THEN 0 ELSE CompareSwapCount(NextPow2(n)) * (LessThanCost(width) + width + payload)
ExpandCost(windows, N, M) == IF N <= 1 THEN 0 ELSE windows * M^N * (N - 1)
JoinCost(N, M, universe, width, data) ==
  SortCost(N * M * universe, width, 1 + data) + ExpandCost(universe, N, M)
    + SortCost(universe * M^N, width, width + N * data + 1)
=============================================================================
