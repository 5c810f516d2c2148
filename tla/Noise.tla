-------------------------------- MODULE Noise --------------------------------
(* From a cell's shared sums to what is published: cover firms, the k-anonymity
   gate, joint noise and its commitments, the noisy-threshold release, and opening
   a release (src/volePSI/MpsvsCoverFirms.cpp, MpsvsKAnonGate.cpp, MpsvsDp.cpp,
   MpsvsDpWire.cpp, MpsvsDpProd.cpp, MpsvsOpen.cpp, MpsvsOpenWire.cpp). A draw of
   noise is an integer from a small set; a deviation is not computed. *)
EXTENDS StatisticsWire

CONSTANTS
  CoverMin, CoverMax,   \* K_min and K_max
  KThreshold,           \* k
  Margin,               \* tau, rounded up
  Rho                   \* what is charged for the gate, the three kinds of release, and joint noise

\* The deviation of the noise is 1 by the root of 2 rho: no charge is 0.
ASSUME RhoAssumption == Rho \in [{"threshold", "hist", "num", "den", "joint"} -> Nat \ {0}]

\* A cell: three words, each in two additive shares.
ShareWord(x, mask) == <<Wrap(x - mask), Wrap(mask)>>
JoinWord(s) == Wrap(s[1] + s[2])
ShareCell(sums, mask) == [f \in {"num", "den", "n"} |-> ShareWord(sums[f], mask)]
JoinCell(cell) == [f \in DOMAIN cell |-> JoinWord(cell[f])]
Bump(s, p, x) == [s EXCEPT ![p] = Wrap(@ + x)]
\* A word read as a signed number.
Signed(x) == IF x >= 2^(Width - 1) THEN x - 2^Width ELSE x
Clamp(z) == Max({0, z})
-----------------------------------------------------------------------------
\* addCoverFirms: either party adds up to half the range to the count, and the
\* first K_min as well; the sums stay as they are.
CoverDraws == 0..((CoverMax - CoverMin) \div 2)
AddCoverFirms(cell, k1, k2) == [cell EXCEPT !.n = Bump(Bump(@, 1, CoverMin + k1), 2, k2)]

\* applyKAnonGate: k - 1, or 0, is compared with the count; all sums go through
\* the resulting bit.
Passes(cell) == Truth(Max({KThreshold - 1, 0}) < JoinWord(cell.n))
ApplyKAnonGate(cell, mask) == [f \in DOMAIN cell |-> ShareWord(Passes(cell) * JoinWord(cell[f]), mask)]
-----------------------------------------------------------------------------
\* sampleAndCommitProd: a party's draws for the three words, and the commitment
\* both check before the noise counts.
Draws(num, den, n) == [num |-> num, den |-> den, n |-> n]
NoiseCommit(party, salt, eta) == [party |-> party, salt |-> salt, eta |-> eta]
Sampled(party, salt, eta) == [party |-> party, salt |-> salt, eta |-> eta, commit |-> NoiseCommit(party, salt, eta)]
VerifyCommit(c, snapshot) == NoiseCommit(c.party, c.salt, c.eta) = snapshot
JointNoise(c1, c2) == [f \in DOMAIN c1.eta |-> c1.eta[f] + c2.eta[f]]
\* addJointNoise: the first party's share takes the sum of the draws.
AddJointNoise(cell, c1, c2) == [f \in DOMAIN cell |-> Bump(cell[f], 1, JointNoise(c1, c2)[f])]
\* openAndClamp.
OpenAndClamp(cell) == [f \in DOMAIN cell |-> Clamp(Signed(JoinWord(cell[f])))]
\* auditDpWire.
AllCommitsVerified(cs) == \A c \in cs : VerifyCommit(c, c.commit)

\* noisyThresholdReleaseProd: the gate compares the noised count with k + tau. A
\* suppressed cell carries its noised count, and is charged for the gate.
Noised(cell, xi) == JoinWord(cell.n) + xi
Suppressed(cell, xi) == Noised(cell, xi) < KThreshold + Margin
NoisyThreshold(cell, xi, num, den, h1, h2) ==
  LET noisedNum == Signed(JoinWord(cell.num)) + num
      noisedDen == Signed(JoinWord(cell.den)) + den
      gate == [released |-> FALSE, count |-> Clamp(Noised(cell, xi)), num |-> 0, den |-> 0, hist |-> <<>>, spent |-> Rho.threshold]
  IN IF Suppressed(cell, xi) THEN gate
     ELSE [gate EXCEPT !.released = TRUE, !.num = Clamp(noisedNum), !.den = Clamp(noisedDen),
                       !.hist = <<noisedNum + h1, noisedDen + h2, gate.count>>,
                       !.spent = Rho.threshold + Rho.hist + Rho.num + Rho.den]
-----------------------------------------------------------------------------
\* addNoiseAndClamp and auditNoisyHistogram, on a histogram in the clear.
AddNoiseAndClamp(h, noise) == [b \in DOMAIN h |-> Clamp(h[b] + noise[b])]
ClampedUp(h, noise) == Quantify(DOMAIN h, LAMBDA b : h[b] + noise[b] < 0)
BudgetAfter(budget, rho) == [total |-> budget.total + rho, queries |-> budget.queries + 1]
\* assembleRelease: percentiles of the noised histogram, the ratio as it was.
AssembleRow(k, m, clamped, ratio) ==
  [key |-> k, metric |-> m, hist |-> clamped, n |-> MapThenSumSet(LAMBDA b : clamped[b], DOMAIN clamped),
   percentiles |-> StandardPercentiles(MakeCdf(clamped)), ratioIncl |-> Truth(ratio.n > 0), ratio |-> ratio.ratio]
\* auditRelease.
MonotoneCdf(row) == LET c == MakeCdf(row.hist) IN \A b \in 1..(Buckets - 1) : c[b - 1] <= c[b]

\* extractContribution and combineContributions: a party's shares of the bins and
\* of the two sums, row after row; joined they are published as they come, and the
\* ratio is that of the sums without noise.
ReleaseRow(k, m, bins, cell) == [key |-> k, metric |-> m, bins |-> bins, num |-> cell.num, den |-> cell.den]
Contribution(p, rows) ==
  FlattenSeq([i \in DOMAIN rows |-> [b \in 1..Len(rows[i].bins) |-> rows[i].bins[b][p]] \o <<rows[i].num[p], rows[i].den[p]>>])
JoinedContributions(a, b) == [i \in DOMAIN a |-> Wrap(a[i] + b[i])]
CombinedRow(row, words) ==
  LET n == Len(row.bins)
      bins == SubSeq(words, 1, n)
  IN [key |-> row.key, metric |-> row.metric, bins |-> bins, n |-> WordTotal(bins),
      ratioIncl |-> Truth(words[n + 2] > 0), num |-> words[n + 1], den |-> words[n + 2]]
CombineContributions(shape, a, b) ==
  LET words == JoinedContributions(a, b)
      start(i) == FoldLeft(LAMBDA acc, j : acc + Len(shape[j].bins) + 2, 0, [j \in 1..(i - 1) |-> j])
  IN [i \in DOMAIN shape |-> CombinedRow(shape[i], SubSeq(words, start(i) + 1, start(i) + Len(shape[i].bins) + 2))]
OneShareDoesNotReveal(p, rows, totals) ==
  \A i \in DOMAIN totals : i <= Len(Contribution(p, rows)) => Contribution(p, rows)[i] # totals[i]
=============================================================================
