------------------------------- MODULE Joins -------------------------------
(* The table-valued private join where one process sees the tables
   (src/volePSI/MpsaJoinDriver.cpp, MpJoinExpander.cpp, MpJoinFilter.cpp), as the
   service provider runs it on the senders' blobs (MpsaJoinDriverWire.cpp), and on
   shares in one process (MpsaJoinMpcDriver.cpp, MpMpcJoin.cpp). A table is a
   sequence of rows, an id and W blocks of data each; parties count from 0 and
   are at the place after in a sequence. *)
EXTENDS SharedArithmetic

\* A join either throws or returns rows.
Threw == [threw |-> TRUE, rows |-> <<>>]
Returned(rows) == [threw |-> FALSE, rows |-> rows]

\* obliviousBitonicSort: as the shared network, but two equal keys change places
\* in a descending comparison.
ClearLayer(xs, size, gap) ==
  [i \in DOMAIN xs |->
     LET lower == ((i - 1) \div gap) % 2 = 0
         a == IF lower THEN i ELSE i - gap
         ascending == ((i - 1) \div size) % 2 = 0
         shouldSwap == (xs[a + gap].key < xs[a].key) = ascending
     IN IF lower = shouldSwap THEN xs[a + gap] ELSE xs[a]]
ObliviousSort(xs, blank) ==
  LET padded == Padded(xs, [key |-> AllOnes, payload |-> blank])
  IN SubSeq(FoldLeft(LAMBDA ys, layer : ClearLayer(ys, layer[1], layer[2]), padded, Layers(Len(padded))), 1, Len(xs))
-----------------------------------------------------------------------------
\* padAndAggregate and spAssemblePaddedBag: every party has M tuples of every id
\* of any party, its rows first; a party with more throws.
NoData(W) == [w \in 1..W |-> 0]
Tuple(party, row, real, data) == [party |-> party, row |-> row, real |-> real, data |-> data]
Universe(tables) == SetToSortSeq(UNION {{r.id : r \in Range(t)} : t \in Range(tables)}, <)
RowsOf(table, id) == SelectSeq(table, LAMBDA r : r.id = id)
OverCap(tables, M) == \E t \in Range(tables) : \E r \in Range(t) : Len(RowsOf(t, r.id)) > M
PaddedTuple(rows, party, row, W) ==
  IF row < Len(rows) THEN Tuple(party, row, TRUE, rows[row + 1].data) ELSE Tuple(party, row, FALSE, NoData(W))
PadAndAggregate(tables, M, W) ==
  FlattenSeq([u \in DOMAIN Universe(tables) |->
    [k \in 1..(Len(tables) * M) |->
       LET p == (k - 1) \div M id == Universe(tables)[u]
       IN [key |-> id, payload |-> PaddedTuple(RowsOf(tables[p + 1], id), p, (k - 1) % M, W)]]])

\* The windows of equal ids.
WindowStarts(sorted) == {i \in DOMAIN sorted : i = 1 \/ sorted[i].key # sorted[i-1].key}
WindowEnds(sorted) == {i \in DOMAIN sorted : i = Len(sorted) \/ sorted[i+1].key # sorted[i].key}
WindowAt(sorted, start) == SubSeq(sorted, start, Min({e \in WindowEnds(sorted) : e >= start}))
OfParty(window, p) == SelectSeq(window, LAMBDA e : e.payload.party = p)
Malformed(window, N, M) ==
  \/ Len(window) # N * M
  \/ \E e \in Range(window) : e.payload.party >= N
  \/ \E p \in 0..(N - 1) : Len(OfParty(window, p)) # M

\* crossProductExpand: an odometer over one tuple per party, party 0's fastest.
Digit(combo, p, M) == (combo \div M^p) % M
JoinedRow(id, picks) ==
  [id |-> id, intersection |-> \A i \in DOMAIN picks : picks[i].real,
   joined |-> FlattenSeq([i \in DOMAIN picks |-> picks[i].data])]
ExpandWindow(window, N, M) ==
  [k \in 1..(M^N) |->
     JoinedRow(window[1].key, [i \in 1..N |-> OfParty(window, i - 1)[Digit(k - 1, i - 1, M) + 1].payload])]
CrossProductExpand(sorted, N, M) ==
  LET starts == SetToSortSeq(WindowStarts(sorted), <)
      windows == [w \in DOMAIN starts |-> WindowAt(sorted, starts[w])]
  IN IF \E w \in Range(windows) : Malformed(w, N, M) THEN Threw
     ELSE Returned(FlattenSeq([w \in DOMAIN windows |-> ExpandWindow(windows[w], N, M)]))

\* obliviousFilterIntersection: the rows of the intersection first; truncateToK
\* cuts the others off.
EncodeRow(row) == [key |-> IF row.intersection THEN 0 ELSE 1, payload |-> row]
CountIntersection(rows) == Len(SelectSeq(rows, LAMBDA r : r.intersection))
FilterAndTruncate(rows) ==
  LET blank == [id |-> 0, intersection |-> FALSE, joined |-> <<>>]
      sorted == ObliviousSort([i \in DOMAIN rows |-> EncodeRow(rows[i])], blank)
      decoded == [i \in DOMAIN sorted |-> sorted[i].payload]
  IN SubSeq(decoded, 1, CountIntersection(decoded))

\* executePrivateJoinInMemory.
PrivateJoinInMemory(tables, M, W) ==
  IF OverCap(tables, M) THEN Threw
  ELSE LET bag == PadAndAggregate(tables, M, W)
           expanded == CrossProductExpand(ObliviousSort(bag, Tuple(0, 0, FALSE, NoData(W))), Len(tables), M)
       IN IF expanded.threw THEN Threw ELSE Returned(FilterAndTruncate(expanded.rows))
-----------------------------------------------------------------------------
\* A sender's blob: the number of rows it says, and its blocks.
Table(columns, W) == [k \in DOMAIN columns[1] |-> [id |-> columns[1][k], data |-> [w \in 1..W |-> columns[1 + w][k]]]]
SerializeRows(table) == [n |-> Len(table), blocks |-> FlattenSeq([k \in DOMAIN table |-> <<table[k].id>> \o table[k].data])]
WellSized(blob, W) == Len(blob.blocks) = blob.n * (1 + W)
DeserializeRows(blob, W) ==
  [k \in 1..blob.n |-> LET at == (k - 1) * (1 + W) + 1
                       IN [id |-> blob.blocks[at], data |-> SubSeq(blob.blocks, at + 1, at + W)]]
\* runSpRoleJoin, from the opened blobs: a blob that is not of the provider's own
\* width throws, and the rows are written in a random order.
SpJoin(blobs, M, W, order) ==
  IF \E b \in Range(blobs) : ~WellSized(b, W) THEN Threw
  ELSE LET join == PrivateJoinInMemory([p \in DOMAIN blobs |-> DeserializeRows(blobs[p], W)], M, W)
       IN [join EXCEPT !.rows = [i \in DOMAIN @ |-> @[order[Len(@)][i]]]]
-----------------------------------------------------------------------------
\* The join on shares. makeCompositeKey puts a party's index below the id, whose
\* highest bits fall off.
MakeCompositeKey(id, partyIdxBits, party) == Wrap(id * 2^partyIdxBits) + (party % 2^partyIdxBits)
ExtractId(key, partyIdxBits) == ShiftRight(key, partyIdxBits)

\* buildSharedTables: per party, M tuples of every id.
SharedTable(tables, party, M, W) ==
  FlattenSeq([u \in DOMAIN Universe(tables) |->
    [row \in 1..M |-> LET id == Universe(tables)[u]
                      IN [id |-> id, tuple |-> PaddedTuple(RowsOf(tables[party + 1], id), party, row - 1, W)]]])
MpcBag(tables, partyIdxBits, M, W) ==
  FlattenSeq([i \in DOMAIN tables |->
    LET shared == SharedTable(tables, i - 1, M, W)
    IN [k \in DOMAIN shared |-> [key |-> MakeCompositeKey(shared[k].id, partyIdxBits, i - 1),
                                 payload |-> [real |-> shared[k].tuple.real, data |-> shared[k].tuple.data]]]])

\* mpcWindowEnds: a tuple ends a window when the next one's id is another.
MpcWindowEnds(sorted, partyIdxBits) ==
  [i \in DOMAIN sorted |->
     IF i = Len(sorted) THEN 1
     ELSE Negation(SecureEqual(Bits(ExtractId(sorted[i].key, partyIdxBits)), Bits(ExtractId(sorted[i+1].key, partyIdxBits))))]

\* mpcCrossProductExpand: windows and parties are where M tuples of every id of
\* every party put them; nothing is looked at.
MpcPicks(sorted, N, M, w, combo) ==
  [i \in 1..N |-> sorted[w * N * M + (i - 1) * M + Digit(combo, i - 1, M) + 1]]
MpcCrossProductExpand(sorted, N, M, partyIdxBits) ==
  [k \in 1..((Len(sorted) \div (N * M)) * M^N) |->
     LET picks == MpcPicks(sorted, N, M, (k - 1) \div M^N, (k - 1) % M^N)
     IN JoinedRow(ExtractId(picks[1].key, partyIdxBits), [i \in 1..N |-> picks[i].payload])]

\* mpcFilterIntersection keeps every row, and writeMpcJoinCsv writes those of the
\* intersection.
MpcFilterIntersection(rows) ==
  LET blank == [key |-> AllOnes, payload |-> [id |-> 0, intersection |-> FALSE, joined |-> <<>>]]
      sorted == NetworkSort([i \in DOMAIN rows |-> EncodeRow(rows[i])], blank)
  IN [i \in DOMAIN rows |-> sorted[i].payload]
WrittenRows(rows) == SelectSeq(rows, LAMBDA r : r.intersection)
MpcPrivateJoin(tables, partyIdxBits, M, W) ==
  IF OverCap(tables, M) THEN Threw
  ELSE LET blank == [key |-> AllOnes, payload |-> [real |-> FALSE, data |-> NoData(W)]]
           sorted == NetworkSort(MpcBag(tables, partyIdxBits, M, W), blank)
       IN Returned(WrittenRows(MpcFilterIntersection(MpcCrossProductExpand(sorted, Len(tables), M, partyIdxBits))))
=============================================================================
