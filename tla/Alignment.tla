----------------------------- MODULE Alignment -----------------------------
(* Preparing the agencies' records and aligning them: src/volePSI/MpsvsLocalPrep.cpp,
   MpsvsAlignment.cpp and its shared form MpsvsAlignmentWire.cpp, as operators on
   tables. An agency's raw record becomes a prepared one, a prepared one a row with
   the bin and key its tag gives it, a bin of rows a run of union rows. *)
EXTENDS SharedWords

CONSTANTS
  Canonical,   \* the entity a spelling of its id stands for
  Attribute,   \* per agency: the attributes of its records
  Ranges,      \* per attribute: the values that are valid
  Cap,         \* cap_P, rows an agency may have in a bin
  Beta         \* 2^Beta bins

MAS == 0
DOS == 1
MOM == 2
Agency == 0..2
DeadSource == 4
Bins == 0..(2^Beta - 1)
-----------------------------------------------------------------------------
\* checkAttr and put: a value counts when there is one and it is in range.
InRange(value, r) == r.min <= value /\ value <= r.max
CheckAttr(raw, r) == [nonMissing |-> Truth(raw.present), valid |-> Truth(raw.present /\ InRange(raw.value, r))]
Stored(raw, r) == IF CheckAttr(raw, r).valid = 1 THEN raw.value ELSE 0

\* prepareMas, prepareDos and prepareMom.
Prepare(s, raw) ==
  [entity |-> Canonical[raw.id], period |-> raw.period, sector |-> raw.sector, memb |-> Truth(raw.member),
   v |-> [a \in Attribute[s] |-> Stored(raw.attr[a], Ranges[a])],
   status |-> [a \in Attribute[s] |-> CheckAttr(raw.attr[a], Ranges[a])]]
\* dummyMas and its like: a random id that no agency uses, and nothing else.
DummyRecord(s, nobody, period, sector) ==
  [entity |-> nobody, period |-> period, sector |-> sector, memb |-> 0,
   v |-> [a \in Attribute[s] |-> 0], status |-> [a \in Attribute[s] |-> [nonMissing |-> 0, valid |-> 0]]]

\* The records that repeat an earlier one's id and period.
IdPeriodKey(p) == <<p.entity, p.period>>
DuplicateIndices(records) ==
  {i \in DOMAIN records : \E j \in 1..(i-1) : IdPeriodKey(records[j]) = IdPeriodKey(records[i])}

\* A prepared record as a row: its tag is the OPRF's, its validity bits are those
\* of its attributes, and a growth rate has a validity of its own.
EmptyPayload(s) == [v |-> [a \in Attribute[s] |-> 0], valid |-> [a \in Attribute[s] |-> 0]]
RowOf(s, tag, p) ==
  [bin |-> tag[p.entity].bin, source |-> s, key |-> tag[p.entity].key, memb |-> p.memb,
   period |-> p.period, sector |-> p.sector,
   payload |-> [v |-> p.v, valid |-> [a \in Attribute[s] |-> p.status[a].valid]]]
-----------------------------------------------------------------------------
\* packBins.
Real(rows) == SelectSeq(rows, LAMBDA r : r.memb = 1)
DuplicateEntityPeriod(rows) ==
  \E i, j \in DOMAIN Real(rows) : i < j /\ Real(rows)[i].key = Real(rows)[j].key /\ Real(rows)[i].period = Real(rows)[j].period
Malformed(s, rows) == \E i \in DOMAIN rows : rows[i].bin \notin Bins \/ rows[i].source # s \/ rows[i].memb # 1
InBin(rows, b) == SelectSeq(rows, LAMBDA r : r.bin = b)
\* Mutant: a full bin takes one row more.
OverflowsLate(rows) == \E b \in Bins : Len(InBin(rows, b)) > Cap + 1
Overflows(rows) == \E b \in Bins : Len(InBin(rows, b)) > Cap

\* The padding: membership 0, no period, no sector, and a random key.
Dummy(s, b, key) ==
  [bin |-> b, source |-> s, key |-> key, memb |-> 0, period |-> 0, sector |-> 0, payload |-> EmptyPayload(s)]
Pack(s, rows, keys) ==
  [b \in Bins |-> InBin(rows, b) \o [k \in 1..(Cap - Len(InBin(rows, b))) |-> Dummy(s, b, keys[s, k])]]
-----------------------------------------------------------------------------
\* withinBinSort: by key and source, dead rows of a source beyond all appended to
\* reach a power of two and cut off again.
DeadRow(b) == [Dummy(MAS, b, AllOnes) EXCEPT !.source = DeadSource]
KeyAndSource(r) == [key |-> r.key * 256 + r.source, row |-> r]
WithinBinSort(rows) ==
  LET sorted == NetworkSort([i \in DOMAIN rows |-> KeyAndSource(rows[i])], KeyAndSource(DeadRow(rows[1].bin)))
  IN [i \in DOMAIN rows |-> sorted[i].row]

\* windowedMerge: a row sees itself and the two after it.
KeyEq(x, y) == x.key = y.key /\ x.memb = 1 /\ y.memb = 1
\* Mutant: the row after only.
WindowShort(sorted, i) == {j \in i..(i + 1) : j <= Len(sorted) /\ KeyEq(sorted[j], sorted[i])}
Window(sorted, i) == {j \in i..(i + 2) : j <= Len(sorted) /\ KeyEq(sorted[j], sorted[i])}
Canonical1(sorted, i) ==
  i = 1 \/ sorted[i-1].key # sorted[i].key \/ sorted[i-1].memb = 0 \/ sorted[i].memb = 0
\* The first of an agency in the window; sectors are the first agency's that has one.
Held(sorted, i, s) == {j \in Window(sorted, i) : sorted[j].source = s}
BlankPayloads == [s \in Agency |-> EmptyPayload(s)]
MergedRow(sorted, i) ==
  LET r == sorted[i]
      has == {s \in Agency : Held(sorted, i, s) # {}}
      first(s) == sorted[Min(Held(sorted, i, s))]
      blank == [bin |-> r.bin, period |-> 0, sector |-> 0, b |-> [s \in Agency |-> 0], p |-> BlankPayloads,
                canonical |-> Truth(Canonical1(sorted, i)), live |-> 0, conflict |-> 0]
  IN IF r.memb = 0 THEN blank
     ELSE [blank EXCEPT
       !.period = r.period, !.b = [s \in Agency |-> Truth(s \in has)],
       !.p = [s \in Agency |-> IF s \in has THEN first(s).payload ELSE EmptyPayload(s)],
       !.sector = first(Min(has)).sector,
       !.conflict = Truth(\E x, y \in UNION {Held(sorted, i, s) : s \in has} : sorted[x].sector # sorted[y].sector)]
WindowedMerge(sorted) == [i \in DOMAIN sorted |-> MergedRow(sorted, i)]

\* markLive.
MarkLive(rows) == [i \in DOMAIN rows |-> [rows[i] EXCEPT !.live = rows[i].canonical * Disjunction(rows[i].b)]]
ComposedShuffle(rows, order) == [i \in DOMAIN rows |-> rows[order[i]]]

\* runFPsa, from the packed tables.
BinUnion(tables, b) == tables[MAS][b] \o tables[DOS][b] \o tables[MOM][b]
UnionTable(tables, order) ==
  LET merged == FlattenSeq([n \in 1..(2^Beta) |-> WindowedMerge(WithinBinSort(BinUnion(tables, n - 1)))])
  IN ComposedShuffle(MarkLive(merged), order)
\* auditAlignment.
AuditAlignment(table) ==
  [totalRows |-> Len(table),
   liveRows |-> Quantify(DOMAIN table, LAMBDA i : table[i].live = 1),
   canonicalRows |-> Quantify(DOMAIN table, LAMBDA i : table[i].canonical = 1),
   conflicts |-> Quantify(DOMAIN table, LAMBDA i : table[i].conflict = 1)]
-----------------------------------------------------------------------------
\* The shared form, on a bin of rows with one payload word. toSortElement and
\* fromSortElement carry a row's fields through the network, which sorts by key
\* alone; the padding stays.
SharedBinRow(r, word) == [bin |-> r.bin, source |-> r.source, key |-> r.key, memb |-> r.memb,
                          sector |-> r.sector, payload |-> word]
DeadSharedRow(b) == [bin |-> b, source |-> DeadSource, key |-> AllOnes, memb |-> 0, sector |-> 0, payload |-> 0]
WithinBinSortWire(rows) == IF rows = <<>> THEN <<>> ELSE Bitonic(Padded(rows, DeadSharedRow(rows[1].bin)))

\* windowedMergeWire: a row is live when the next has its key and both are real;
\* it then carries the next one's payload. The last is never live.
WindowedMergeWire(sorted) ==
  [i \in DOMAIN sorted |->
     LET live == IF i = Len(sorted) THEN 0
                 ELSE Conjunction(<<Truth(sorted[i].key = sorted[i+1].key), sorted[i].memb, sorted[i+1].memb>>)
     IN [bin |-> sorted[i].bin, live |-> live, key |-> sorted[i].key, sector |-> sorted[i].sector,
         payload |-> IF live = 1 THEN sorted[i+1].payload ELSE sorted[i].payload]]
=============================================================================
