----------------------------- MODULE Statistics -----------------------------
(* The statistics in the clear, the code's own reference for its shared phases:
   src/volePSI/MpsvsRatioBucket.cpp, MpsvsRank.cpp, MpsvsComposite.cpp,
   MpsvsPercentiles.cpp and MpsvsSectorAgg.cpp, from metric rows on. Fixed-point
   numbers are integers in units of 2^-Fraction, as in the code. *)
EXTENDS Inclusion

CONSTANTS
  Buckets,      \* B, kBucketCount: 100
  Fraction,     \* f, kFpFractionalBits: 40
  Spans,        \* per metric: the first and last edge, and whether edges are logarithmic
  RatioScale,   \* basis points in 1: 10000
  Weight        \* per core metric: its weight, in fixed point

One == 2^Fraction
Nats(n) == [i \in 1..n |-> i]
\* A sequence of the members of a set of integers, least first.
Ascending(S) == [i \in 1..Cardinality(S) |-> CHOOSE x \in S : Quantify(S, LAMBDA y : y < x) = i - 1]
-----------------------------------------------------------------------------
\* makeLinearEdges and makeLogEdges, by exact arithmetic: edge b of the second is
\* the whole part of lo^(1 - b/B) hi^(b/B), pushed above the edge before.
LinearEdges(lo, hi) == [b \in 0..Buckets |-> IF b = Buckets THEN hi ELSE lo + ((hi - lo) * b) \div Buckets]
LogEdges(lo, hi) ==
  LET from == Max({lo, 1})
      to == IF hi <= from THEN from + Buckets ELSE hi
      raw(b) == IF b = Buckets THEN to
                ELSE Max({x \in from..to : x^Buckets <= from^(Buckets - b) * to^b})
  IN [b \in 0..Buckets |-> Max({raw(c) + b - c : c \in 0..b})]
DefaultBucketEdges == [m \in Metric |-> IF Spans[m].log THEN LogEdges(Spans[m].lo, Spans[m].hi)
                                        ELSE LinearEdges(Spans[m].lo, Spans[m].hi)]
RatioScaleFor(m) == IF m \in {"DEmp", "IPW"} THEN 1 ELSE RatioScale

\* bucketIndex: the last edge that num/den reaches, found by halving.
BucketIndex(num, den, edges, incl, scale) ==
  IF incl = 0 \/ den = 0 THEN 0
  ELSE Min({Buckets - 1, Max({0} \cup {b \in 1..Buckets : edges[b] * den <= num * scale})})
BucketOf(pair, m) == BucketIndex(pair.num, pair.den, DefaultBucketEdges[m], pair.incl, RatioScaleFor(m))

FpMul(a, b) == (a * b) \div One
\* goldschmidtRecip: x scaled into (1/2, 1], 3 - 2x as a first guess, six rounds.
\* p runs over the shifts of a word: past them, for an x above the greatest power
\* of two, the loop that looks for it does not end.
RangeBits(x) == CHOOSE p \in 0..(Width - 1) : 2^p >= x /\ (p = 0 \/ 2^(p - 1) < x)
Reduced(x) == IF RangeBits(x) <= Fraction THEN x * 2^(Fraction - RangeBits(x)) ELSE x \div 2^(RangeBits(x) - Fraction)
Reciprocable(x) == 0 < x /\ x <= 2^(Width - 1)
Refine(x, y) == FpMul(y, 2 * One - FpMul(x, y))
Recip(x) == FoldLeft(LAMBDA y, t : Refine(Reduced(x), y), 3 * One - 2 * Reduced(x), Nats(6)) \div 2^RangeBits(x)
FpRatio(num, den) == FpMul(num * One, Recip(den))
\* verifyGoldschmidtConvergence: how far x times its reciprocal is from 1.
Deviation(x) == One - x * Recip(x)
-----------------------------------------------------------------------------
\* buildSlim, with the sector as population key, and slimSort, which is stable.
SlimRow(rows, m, i) ==
  [entity |-> i, popkey |-> rows[i].sector, incl |-> rows[i].metrics[m].incl, bucket |-> BucketOf(rows[i].metrics[m], m)]
SlimBefore(x, y) ==
  \/ x.popkey < y.popkey
  \/ x.popkey = y.popkey /\ x.incl > y.incl
  \/ x.popkey = y.popkey /\ x.incl = y.incl /\ x.bucket < y.bucket
  \/ x.popkey = y.popkey /\ x.incl = y.incl /\ x.bucket = y.bucket /\ x.entity < y.entity
SlimSort(slim) == SortSeq(slim, SlimBefore)

\* rankViaHistogram: a row's rank is the number of included ones of its key before it.
Counted(slim, k, i) == {j \in 1..i : slim[j].popkey = k /\ slim[j].incl = 1}
Rank(slim, i) == IF slim[i].incl = 1 THEN Cardinality(Counted(slim, slim[i].popkey, i - 1)) ELSE 0
NValid(slim, k) == Cardinality(Counted(slim, k, Len(slim)))
HistogramOf(slim) == [b \in 0..(Buckets - 1) |-> Quantify(DOMAIN slim, LAMBDA i : slim[i].incl = 1 /\ slim[i].bucket = b)]

\* computeMetricRanks.
ComputeMetricRanks(rows, m) ==
  LET slim == SlimSort([i \in DOMAIN rows |-> SlimRow(rows, m, i)]) IN
  [i \in DOMAIN slim |->
     [entity |-> slim[i].entity, popkey |-> slim[i].popkey, incl |-> slim[i].incl, bucket |-> slim[i].bucket,
      rank |-> Rank(slim, i),
      score |-> IF slim[i].incl = 1 THEN FpRatio(Rank(slim, i), Max({NValid(slim, slim[i].popkey) - 1, 1})) ELSE 0]]
-----------------------------------------------------------------------------
\* computeCompositeTwoScore, from the ranks of the metrics.
RowOfEntity(ranks, m, e) == {i \in DOMAIN ranks[m] : ranks[m][i].entity = e}
Entities(ranks) == UNION {{ranks[m][i].entity : i \in DOMAIN ranks[m]} : m \in DOMAIN ranks}
Available(ranks, e) == {m \in Core : \E i \in RowOfEntity(ranks, m, e) : ranks[m][i].incl = 1}
Weighted(ranks, e, m) == FpMul(Weight[m], ranks[m][Max(RowOfEntity(ranks, m, e))].score)
CompositeTwoScore(ranks, e) ==
  LET avail == Available(ranks, e)
      sum == MapThenSumSet(LAMBDA m : Weighted(ranks, e, m), avail)
      weight == MapThenSumSet(LAMBDA m : Weight[m], avail)
  IN [entity |-> e, avail |-> Cardinality(avail),
      inclStrict |-> Truth(avail = Core), strict |-> IF avail = Core THEN sum ELSE 0,
      inclRenorm |-> Truth(avail # {}), renorm |-> IF avail = {} THEN 0 ELSE (sum * One) \div weight]
ComputeCompositeTwoScore(ranks) ==
  LET es == Ascending(Entities(ranks)) IN [i \in DOMAIN es |-> CompositeTwoScore(ranks, es[i])]
-----------------------------------------------------------------------------
\* makeCdf, percentileBucket for the quantile num/den, and twice bucketMidpoint.
MakeCdf(h) == [b \in DOMAIN h |-> MapThenSumSet(LAMBDA c : h[c], {c \in DOMAIN h : c <= b})]
CdfTotal(cdf) == cdf[Buckets - 1]
PercentileBucket(cdf, num, den) ==
  LET n == CdfTotal(cdf)
      target == Max({1, (num * n + den - 1) \div den})
  IN IF n = 0 THEN 0 ELSE Min({b \in DOMAIN cdf : cdf[b] >= target})
StandardPercentiles(cdf) ==
  [i \in 1..6 |-> PercentileBucket(cdf, <<25, 50, 75, 90, 95, 99>>[i], 100)]
TwiceMidpoint(bucket, edges) == LET b == Min({bucket, Buckets - 1}) IN edges[b] + edges[b + 1]
-----------------------------------------------------------------------------
\* aggregateHistograms and aggregateRatios: a cell for each sector and period of a
\* row, dead rows' included; and what of it is published for a metric.
SectorKey(r) == [sector |-> r.sector, period |-> r.period]
Cells(rows) == {SectorKey(rows[i]) : i \in DOMAIN rows}
Members(rows, m, k) == {i \in Included(rows, m) : SectorKey(rows[i]) = k}
SectorHistogram(rows, m, k) ==
  [b \in 0..(Buckets - 1) |-> Quantify(Members(rows, m, k), LAMBDA i : BucketOf(rows[i].metrics[m], m) = b)]
SectorRatio(rows, m, k) ==
  LET num == SumOver(Members(rows, m, k), LAMBDA i : rows[i].metrics[m].num)
      den == SumOver(Members(rows, m, k), LAMBDA i : rows[i].metrics[m].den)
  IN [num |-> num, den |-> den, n |-> Cardinality(Members(rows, m, k)),
      ratio |-> IF Reciprocable(den) THEN FpRatio(num, den) ELSE 0]
AggregateAllMetrics(rows) ==
  [m \in Metric |-> [k \in Cells(rows) |-> [hist |-> SectorHistogram(rows, m, k), ratio |-> SectorRatio(rows, m, k)]]]
\* auditSectorAggregate.
AuditSectorAggregate(rows, bundle) ==
  LET over(m, f(_)) == SumOver(Cells(rows), LAMBDA k : f(bundle[m][k]))
      all(m) == AggregateOverAll(rows, m)
  IN [histTotalsMatch |-> \A m \in Metric : over(m, LAMBDA c : c.ratio.n) = all(m).n,
      ratioTotalsMatch |-> \A m \in Metric : /\ over(m, LAMBDA c : c.ratio.num) = all(m).num
                                             /\ over(m, LAMBDA c : c.ratio.den) = all(m).den]
=============================================================================
