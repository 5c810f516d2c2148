--------------------------- MODULE StatisticsWire ---------------------------
(* The same statistics on shared words: src/volePSI/MpsvsRatioBucketWire.cpp,
   MpsvsGoldschmidtWire.cpp, MpsvsRankWire.cpp, MpsvsCompositeWire.cpp,
   MpsvsPercentilesWire.cpp and MpsvsSectorAggWire.cpp. What the code reveals to
   choose its way (a scale, a key, a count of metrics) is read here as it is there. *)
EXTENDS Statistics

CONSTANTS
  PopkeyBits,   \* of a sort key: 8
  ScaleBits     \* of a quantile that is no power of 1/2: 20

\* mulPublicConstBitShared: one addition per bit of the constant that is set.
MulPublicConst(x, c) == TimesPublic(x, c)

\* bucketIndexWire: one comparison for each edge, one-hot from neighbours. A ratio
\* at or above the last edge, or below the first, sets no bit.
OneHot(num, den, edges, incl, scale) ==
  LET lt == [b \in 0..Buckets |-> Truth(MulPublicConst(num, scale) < MulPublicConst(den, edges[b]))]
  IN [b \in 0..(Buckets - 1) |-> Conjunction(<<Negation(lt[b]), lt[b + 1], incl>>)]
BucketIndexWire(onehot) == MapThenSumSet(LAMBDA b : b * onehot[b], DOMAIN onehot)
BucketOfWire(pair, m) ==
  BucketIndexWire(OneHot(pair.num, pair.den, DefaultBucketEdges[m], pair.incl, RatioScaleFor(m)))

\* goldschmidtRecipWire: the shift and the scaled word are revealed, the rest is
\* the same arithmetic modulo 2^128.
RecipWire(x) == Recip(x)
\* bitSubOneU64.
MinusOne(x) == Wrap(x - 1)
-----------------------------------------------------------------------------
\* rankViaHistogramWire, on rows whose num is already the bucket. The sort key is
\* the population key, then whether the row is excluded, then the bucket.
Prebucketed(rows, m) == [i \in DOMAIN rows |-> [rows[i] EXCEPT !.metrics[m].num = BucketOfWire(rows[i].metrics[m], m)]]
BucketSpan == NextPowerOfTwo(Buckets)
Padding == 2^PopkeyBits - 1
SortKey(popkey, incl, bucket) == ((popkey % 2^PopkeyBits) * 2 + Negation(incl)) * BucketSpan + bucket
RankElement(r, m, i) ==
  [key |-> SortKey(r.sector, r.metrics[m].incl, r.metrics[m].num % BucketSpan),
   entity |-> i, incl |-> r.metrics[m].incl, bucket |-> r.metrics[m].num % BucketSpan]
PaddingElement == [key |-> SortKey(Padding, 0, 0), entity |-> 0, incl |-> 0, bucket |-> 0]
PopkeyOf(x) == x.key \div (2 * BucketSpan)
\* The counter goes up after every row that counts; it is also what an excluded
\* row gets. Rows with the padding's population key are passed over.
\* Mutant: the counter is not set back for a new population.
RunningRankOn(sorted, i) == Quantify(1..(i - 1), LAMBDA j : sorted[j].incl = 1)
RunningRank(sorted, i) == Quantify(1..(i - 1), LAMBDA j : PopkeyOf(sorted[j]) = PopkeyOf(sorted[i]) /\ sorted[j].incl = 1)
RankWire(rows, m) ==
  LET sorted == Bitonic(Padded([i \in DOMAIN rows |-> RankElement(rows[i], m, i)], PaddingElement))
      ranked == [i \in DOMAIN sorted |->
                   [entity |-> sorted[i].entity, popkey |-> PopkeyOf(sorted[i]), incl |-> sorted[i].incl,
                    bucket |-> sorted[i].bucket, rank |-> RunningRank(sorted, i)]]
  IN SelectSeq(ranked, LAMBDA r : r.popkey # Padding)
-----------------------------------------------------------------------------
\* precomputeCellReciprocals: 1/(n - 1) for every population and core metric. With
\* n = 1 it throws; with n = 0 the word is all ones and the search for its shift
\* does not end.
CellCount(ranks, k, m) == Quantify(DOMAIN ranks[m], LAMBDA i : ranks[m][i].popkey = k /\ ranks[m][i].incl = 1)
Popkeys(ranks) == UNION {{ranks[m][i].popkey : i \in DOMAIN ranks[m]} : m \in DOMAIN ranks}
ReciprocalsEnd(ranks) == \A k \in Popkeys(ranks), m \in Core : Reciprocable(MinusOne(CellCount(ranks, k, m)))

\* computeCompositeTwoScoreWire: the strict score adds every weighted score, the
\* other those that count, and divides by what their equal weights add up to.
ScoreWire(ranks, e, m) ==
  LET r == ranks[m][Max(RowOfEntity(ranks, m, e))]
      recip == RecipWire(MinusOne(CellCount(ranks, r.popkey, m)))
  IN [incl |-> r.incl, popkey |-> r.popkey, weighted |-> FpMul(Weight[m], FpMul(r.rank * One, recip))]
CoreOrder == <<"DTI", "DSI", "Delq", "NPL">>
\* sumFourBits: sums and carries of two pairs, then of the two.
SumFourBits(x) ==
  LET low == FullAdd(x[1], x[2], 0)
      high == FullAdd(x[3], x[4], 0)
      ones == FullAdd(low.sum, high.sum, 0)
      twos == FullAdd(low.carry, high.carry, ones.carry)
  IN ones.sum + 2 * twos.sum + 4 * twos.carry
CompositeTwoScoreWire(ranks, e) ==
  LET scores == [i \in 1..4 |-> ScoreWire(ranks, e, CoreOrder[i])]
      incl == [i \in 1..4 |-> scores[i].incl]
      avail == SumFourBits(incl)
      gated == Total([i \in 1..4 |-> incl[i] * scores[i].weighted])
  IN [entity |-> e, avail |-> avail,
      inclStrict |-> Conjunction(incl), strict |-> Total([i \in 1..4 |-> scores[i].weighted]),
      inclRenorm |-> Disjunction(incl),
      renorm |-> IF avail = 0 THEN 0 ELSE FpMul(gated, (One * One) \div (avail * Weight[CoreOrder[1]]))]
ComputeCompositeTwoScoreWire(ranks) ==
  LET es == Ascending(Entities(ranks)) IN [i \in DOMAIN es |-> CompositeTwoScoreWire(ranks, es[i])]
-----------------------------------------------------------------------------
\* sharedPrefixSum and percentileBucketWire: the first bucket whose sum is not
\* below the target, which is q N rounded down, q itself rounded down to ScaleBits.
SharedPrefixSum(bins) == [b \in DOMAIN bins |-> Wrap(MapThenSumSet(LAMBDA c : bins[c], {c \in DOMAIN bins : c <= b}))]
Halvings(den) == {s \in 0..(Width - 1) : 2^s = den}
TargetWire(n, num, den) ==
  IF num = 1 /\ Halvings(den) # {} THEN ShiftRight(n, Max(Halvings(den)))
  ELSE ShiftRight(MulPublicConst(n, (num * 2^ScaleBits) \div den), ScaleBits)
PercentileBucketWire(cum, n, num, den) ==
  LET ge == [b \in DOMAIN cum |-> Negation(Truth(cum[b] < TargetWire(n, num, den)))]
      found(b) == ge[b] * Negation(IF b = 0 THEN 0 ELSE ge[b - 1])
  IN MapThenSumSet(LAMBDA b : b * found(b), DOMAIN cum)
-----------------------------------------------------------------------------
\* bitToArithProper: the exclusive or of two shared bits as a number.
BitToArith(x, y) == Wrap(x + y - 2 * (x * y))
\* aggregateHistogramsWire: every row of a cell adds its gated words.
\* Mutant: the words are added without their gate.
CellSumOpen(rows, m, k, part) ==
  SumOver({i \in DOMAIN rows : SectorKey(rows[i]) = k}, LAMBDA i : rows[i].metrics[m][part])
CellSum(rows, m, k, part) ==
  SumOver({i \in DOMAIN rows : SectorKey(rows[i]) = k}, LAMBDA i : Wrap(rows[i].metrics[m].incl * rows[i].metrics[m][part]))
AggregateHistogramsWire(rows, m) ==
  [k \in Cells(rows) |-> [num |-> CellSum(rows, m, k, "num"), den |-> CellSum(rows, m, k, "den"),
                          n |-> SumOver({i \in DOMAIN rows : SectorKey(rows[i]) = k}, LAMBDA i : rows[i].metrics[m].incl)]]
=============================================================================
