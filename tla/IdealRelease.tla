---------------------------- MODULE IdealRelease ----------------------------
(* What a session of the statistics pipeline promises those who read its releases,
   said of the agencies' files alone: a cell of a metric, a sector and a period is
   published once or not at all; what is published is the sum over the entities
   that count for the metric and are at home in the cell, each once, with noise;
   and a count below the threshold takes everything else of its cell with it. *)
EXTENDS Integers, Sequences, FiniteSets, SequencesExt, FiniteSetsExt

CONSTANTS
  Canonical, Ratios, Ranges, Bounds,    \* entities of ids, parts of metrics, valid values
  Cap, Beta,                            \* rows of a file in a bin, bits of a bin
  KThreshold, Margin, CoverMin, CoverMax, Rho,
  Xi, Eta, HistNoise,                   \* draws: of a count, of a party, of a histogram bin
  Pending, Abandoned

VARIABLES
  conf,      \* the files, and how each cell is to be released
  out,       \* per cell: what is published
  spent      \* what the budget was charged, and how often

Agency == 0..2
File(s) == conf.raw[s]
Entity == {Canonical[r.id] : r \in UNION {ToSet(File(s)) : s \in Agency}}
Lines(s, e) == {i \in DOMAIN File(s) : Canonical[File(s)[i].id] = e}
Record(s, e) == File(s)[Min(Lines(s, e))]
Home(e) == LET r == Record(Min({s \in Agency : Lines(s, e) # {}}), e) IN [sector |-> r.sector, period |-> r.period]

Within(x, r) == r.min <= x /\ x <= r.max
Says(x, e) ==
  /\ Lines(x.agency, e) # {}
  /\ LET a == Record(x.agency, e).attr[x.attr] IN a.present /\ Within(a.value, Ranges[x.attr])
Amount(x, e) == Record(x.agency, e).attr[x.attr].value
Counts(m, e) ==
  /\ Says(Ratios[m].num, e) /\ Says(Ratios[m].den, e)
  /\ Within(Amount(Ratios[m].den, e), Bounds[Ratios[m].den.attr])
Truth(c) ==
  LET members == {e \in Entity : Home(e) = c[2] /\ Counts(c[1], e)} IN
  [num |-> MapThenSumSet(LAMBDA e : Amount(Ratios[c[1]].num, e), members),
   den |-> MapThenSumSet(LAMBDA e : Amount(Ratios[c[1]].den, e), members), n |-> Cardinality(members)]
Nonnegative(x) == Max({0, x})
-----------------------------------------------------------------------------
\* A session gets nowhere with an entity twice in a file, or with a file of which
\* every nonce puts too many entities in a bin.
Twice(s) == \E i, j \in DOMAIN File(s) : i < j /\ Canonical[File(s)[i].id] = Canonical[File(s)[j].id]
Fits(tag) == \A s \in Agency, b \in 0..(2^Beta - 1) : Cardinality({e \in Entity : Lines(s, e) # {} /\ tag[e].bin = b}) <= Cap
Possible == (\A s \in Agency : ~Twice(s)) /\ \E i \in DOMAIN conf.tags : Fits(conf.tags[i])

Settle(c, outcome, charge) ==
  /\ out[c] = Pending /\ out' = [out EXCEPT ![c] = outcome]
  /\ spent' = IF charge = 0 THEN spent ELSE [total |-> spent.total + charge, queries |-> spent.queries + 1]
  /\ UNCHANGED conf

\* Two ways to release what is true of a cell: with a threshold on the noised count ...
Suppress(c, truth, xi) ==
  /\ truth.n + xi < KThreshold + Margin
  /\ Settle(c, [released |-> FALSE, count |-> Nonnegative(truth.n + xi), num |-> 0, den |-> 0, hist |-> <<>>,
                spent |-> Rho.threshold], Rho.threshold)
Release(c, truth, xi, num, den, h1, h2) ==
  LET charge == Rho.threshold + Rho.hist + Rho.num + Rho.den
      count == Nonnegative(truth.n + xi)
  IN /\ truth.n + xi >= KThreshold + Margin
     /\ Settle(c, [released |-> TRUE, count |-> count, num |-> Nonnegative(truth.num + num),
                   den |-> Nonnegative(truth.den + den), spent |-> charge,
                   hist |-> <<truth.num + num + h1, truth.den + den + h2, count>>], charge)
\* ... and with one on the count with the cover firms in it, before two draws of noise.
Gated(c, truth, cover, e1, e2) ==
  LET kept(f) == IF truth.n + cover < Max({KThreshold, 1}) THEN 0 ELSE IF f = "n" THEN truth.n + cover ELSE truth[f]
  IN Settle(c, [f \in DOMAIN truth |-> Nonnegative(kept(f) + e1[f] + e2[f])], Rho.joint)
Abandon(c) == conf.tamper[c] # 0 /\ Settle(c, Abandoned, 0)

Publish(c, truth) ==
  \/ /\ conf.mode[c] = "threshold" /\ conf.tamper[c] = 0
     /\ \E xi \in Xi : \/ Suppress(c, truth, xi)
                       \/ \E x, y \in Eta, h1, h2 \in HistNoise : Release(c, truth, xi, x.num, y.den, h1, h2)
  \/ conf.mode[c] = "gate" /\ \E cover \in CoverMin..CoverMax, e1, e2 \in Eta : Gated(c, truth, cover, e1, e2)
  \/ conf.mode[c] = "threshold" /\ Abandon(c)

Init == out = [c \in DOMAIN conf.mode |-> Pending] /\ spent = [total |-> 0, queries |-> 0]
Next == Possible /\ \E c \in DOMAIN conf.mode : out[c] = Pending /\ \E truth \in {Truth(c)} : Publish(c, truth)
Spec == Init /\ [][Next]_<<conf, out, spent>>
=============================================================================
