----------------------------- MODULE Inclusion -----------------------------
(* Which entities count for which metric: src/volePSI/MpsvsInclusion.cpp and its
   shared form MpsvsInclusionWire.cpp, from union rows to metric rows. *)
EXTENDS Alignment

CONSTANTS
  Bounds,   \* the RangeConfig: of each denominator, the least and greatest value
  Policy    \* "STRICT_GATING" or "RENORMALISE"

\* A metric's numerator and denominator, each an attribute of an agency.
Of(s, a) == [agency |-> s, attr |-> a]
Ratios ==
  [DTI |-> [num |-> Of(MAS, "debt"), den |-> Of(DOS, "income")],
   DSI |-> [num |-> Of(MAS, "dserv"), den |-> Of(DOS, "income")],
   DEmp |-> [num |-> Of(MAS, "debt"), den |-> Of(MOM, "emp")],
   IPW |-> [num |-> Of(DOS, "income"), den |-> Of(MOM, "emp")],
   Delq |-> [num |-> Of(MAS, "delq"), den |-> Of(MAS, "debt")],
   NPL |-> [num |-> Of(MAS, "npl"), den |-> Of(MAS, "debt")],
   UnsecShare |-> [num |-> Of(MAS, "unsec"), den |-> Of(MAS, "debt")],
   StDebtShare |-> [num |-> Of(MAS, "stdebt"), den |-> Of(MAS, "debt")],
   Gap |-> [num |-> Of(MAS, "growth"), den |-> Of(DOS, "growth")]]
Metric == DOMAIN Ratios
Core == {"DTI", "DSI", "Delq", "NPL"}

Value(u, x) == u.p[x.agency].v[x.attr]
Usable(u, x) == u.p[x.agency].valid[x.attr]
Present(u, x) == u.b[x.agency]
Gate(u, m, ranged) ==
  LET r == Ratios[m] IN <<u.live, Present(u, r.num), Present(u, r.den), Usable(u, r.num), Usable(u, r.den), ranged>>
MetricRow(u, pairs, incl, avail) ==
  [bin |-> u.bin, period |-> u.period, sector |-> u.sector, conflict |-> u.conflict, live |-> u.live, b |-> u.b,
   metrics |-> pairs, inclVuln |-> incl, avail |-> avail]
-----------------------------------------------------------------------------
\* computeEntityMetrics: the gap is a difference over 1, the others ratios whose
\* denominator is in range.
Pair(u, m) ==
  LET r == Ratios[m] IN
  IF m = "Gap"
  THEN [num |-> Wrap(Value(u, r.num) - Value(u, r.den)), den |-> 1, incl |-> Conjunction(Gate(u, m, 1))]
  ELSE [num |-> Value(u, r.num), den |-> Value(u, r.den),
        incl |-> Conjunction(Gate(u, m, Truth(InRange(Value(u, r.den), Bounds[r.den.attr]))))]
EntityMetrics(u) ==
  LET pairs == [m \in Metric |-> Pair(u, m)]
      avail == Quantify(Core, LAMBDA m : pairs[m].incl = 1)
      enough == IF Policy = "STRICT_GATING" THEN avail = Cardinality(Core) ELSE avail >= 1
  IN MetricRow(u, pairs, Truth(enough) * u.live, avail)
ComputeEntityMetrics(table) == [i \in DOMAIN table |-> EntityMetrics(table[i])]

\* aggregateOverAll and auditInclusion.
Included(rows, m) == {i \in DOMAIN rows : rows[i].metrics[m].incl = 1}
SumOver(S, f(_)) == Wrap(MapThenSumSet(f, S))
AggregateOverAll(rows, m) ==
  [num |-> SumOver(Included(rows, m), LAMBDA i : rows[i].metrics[m].num),
   den |-> SumOver(Included(rows, m), LAMBDA i : rows[i].metrics[m].den),
   n |-> Cardinality(Included(rows, m))]
AuditInclusion(rows) ==
  [byMetric |-> [m \in Metric |-> Cardinality(Included(rows, m))],
   vuln |-> Quantify(DOMAIN rows, LAMBDA i : rows[i].inclVuln = 1),
   liveExcluded |-> Quantify(DOMAIN rows, LAMBDA i : rows[i].live = 1 /\ rows[i].inclVuln = 0)]
-----------------------------------------------------------------------------
\* The shared form. A range check is two strict comparisons with shared constants;
\* one below a minimum of 0 is 0, and one above the greatest word wraps.
RangeCheckShared(value, r) ==
  LET below == IF r.min = 0 THEN 0 ELSE r.min - 1 IN Truth(below < value) * Truth(value < AddWords(r.max, 1))

\* The gap stays a pair of growth rates.
PairWire(u, m) ==
  LET r == Ratios[m] IN
  [num |-> Value(u, r.num), den |-> Value(u, r.den),
   incl |-> Conjunction(Gate(u, m, IF m = "Gap" THEN 1 ELSE RangeCheckShared(Value(u, r.den), Bounds[r.den.attr])))]

\* Four bits added with half and full adders: two of ones, two of twos.
XorBits(x, y) == (x + y) % 2
FullAdd(x, y, c) == [sum |-> XorBits(XorBits(x, y), c), carry |-> XorBits(XorBits(x * y, c * XorBits(x, y)), x * y * c * XorBits(x, y))]
CountOfFour(x) ==
  LET first == FullAdd(x[1], x[2], 0)
      second == FullAdd(first.sum, x[3], 0)
      third == FullAdd(second.sum, x[4], 0)
      twos == FullAdd(first.carry, second.carry, 0)
      last == FullAdd(twos.sum, third.carry, 0)
  IN third.sum + 2 * last.sum + 4 * XorBits(twos.carry, last.carry)

EntityMetricsWire(u) ==
  LET pairs == [m \in Metric |-> PairWire(u, m)]
      core == <<pairs.DTI.incl, pairs.DSI.incl, pairs.Delq.incl, pairs.NPL.incl>>
  IN MetricRow(u, pairs,
       IF Policy = "STRICT_GATING" THEN Conjunction(<<u.live>> \o core) ELSE u.live * Disjunction(core),
       CountOfFour(core))
ComputeEntityMetricsWire(table) == [i \in DOMAIN table |-> EntityMetricsWire(table[i])]
=============================================================================
