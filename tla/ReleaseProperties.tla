------------------------- MODULE ReleaseProperties -------------------------
(* What a session of Release is to keep to: each entity aligned once, shared phases
   that compute what the clear ones do, forgeries noticed, a log that is a chain,
   and releases that say of the files what IdealRelease promises. *)
EXTENDS Release

\* Types of the session's state: packed tables have Cap rows for each bin, the
\* log names cells, and a thread is somewhere.
TypeOK ==
  /\ nonce \in 1..(Len(conf.tags) + 1) /\ stopped \in BOOLEAN
  /\ \A s \in Agency : packed[s] = <<>> \/ (DOMAIN packed[s] = Bins /\ \A b \in Bins : Len(packed[s][b]) = Cap)
  /\ Len(union) \in {0, Cardinality(Agency) * Cap * Cardinality(Bins)} /\ Len(rows) \in {0, Len(union)}
  /\ cells = <<>> \/ \A c \in Cell : \A f \in {"num", "den", "n"} : cells[c][f] \in Word \X Word
  /\ at \in [Cell -> {"start", "open", "release", "noise", "open noised", "end"}]
  /\ uncommitted \subseteq Cell /\ \A i \in DOMAIN log : log[i].cell \in Cell
  /\ spent.queries <= Cardinality(Cell)
-----------------------------------------------------------------------------
\* An entity's row: its agencies' payloads, their presence, the sector of the first
\* of them, and whether another one has a different sector.
Has(s, e) == {i \in DOMAIN Rows(s) : Rows(s)[i].key = conf.tags[nonce][e].key}
RowIn(s, e) == Rows(s)[Min(Has(s, e))]
Holders(e) == {s \in Agency : Has(s, e) # {}}
Known == {Canonical[r.id] : r \in UNION {ToSet(conf.raw[s]) : s \in Agency}}
Expected(e) ==
  LET in == Holders(e)
      first == RowIn(Min(in), e)
  IN [p |-> [s \in Agency |-> IF s \in in THEN RowIn(s, e).payload ELSE EmptyPayload(s)],
      b |-> [s \in Agency |-> Truth(s \in in)], sector |-> first.sector, period |-> first.period,
      conflict |-> Truth(\E s, t \in in : RowIn(s, e).sector # RowIn(t, e).sector)]
LiveRow(u) == [p |-> u.p, b |-> u.b, sector |-> u.sector, period |-> u.period, conflict |-> u.conflict]
Found(x) == Quantify(DOMAIN union, LAMBDA i : union[i].live = 1 /\ LiveRow(union[i]) = x)
\* The keys of a bin that two agencies have, and those the shared merge finds.
SharedBin(b) == [i \in DOMAIN BinUnion(packed, b) |-> SharedBinRow(BinUnion(packed, b)[i], i)]
MatchedWire(b) ==
  LET merged == WindowedMergeWire(WithinBinSortWire(SharedBin(b))) IN
  {merged[i].key : i \in {j \in DOMAIN merged : merged[j].live = 1}}
Matched(b) ==
  {conf.tags[nonce][e].key : e \in {e \in Known : conf.tags[nonce][e].bin = b /\ Cardinality(Holders(e)) > 1}}
\* A table that has been aligned has one live row for each entity that any agency
\* knows, with all that they say of it, whatever the spelling, the bins and the
\* order of the shuffle; the rest is dead. The shared merge finds the same keys.
EveryEntityOnce ==
  union # <<>> /\ rows = <<>> =>
    /\ \A s \in Agency : DuplicateIndices([i \in DOMAIN conf.raw[s] |-> Prepare(s, conf.raw[s][i])]) = {}
    /\ \A e \in Known : Found(Expected(e)) = Quantify(Known, LAMBDA d : Expected(d) = Expected(e))
    /\ AuditAlignment(union).liveRows = Cardinality(Known)
    /\ \A b \in Bins : MatchedWire(b) = Matched(b)
-----------------------------------------------------------------------------
\* A ratio is regular when it is between the first and the last edge of its metric,
\* and no product wraps.
Regular(pair, m) ==
  LET edges == DefaultBucketEdges[m]
      top == pair.num * RatioScaleFor(m)
  IN /\ top <= AllOnes /\ pair.den * edges[Buckets] <= AllOnes
     /\ pair.den * edges[0] <= top /\ top < pair.den * edges[Buckets]
Plain == ComputeEntityMetrics(union)
Quotients == Metric \ {"Gap"}
MetricsAgree(plain) ==
  /\ \A i \in DOMAIN rows :
       /\ rows[i].inclVuln = plain[i].inclVuln /\ rows[i].avail = plain[i].avail
       /\ \A m \in Quotients : rows[i].metrics[m] = plain[i].metrics[m]
       /\ rows[i].metrics.Gap.incl = plain[i].metrics.Gap.incl
       /\ Wrap(rows[i].metrics.Gap.num - rows[i].metrics.Gap.den) = plain[i].metrics.Gap.num
  /\ AuditInclusion(rows) = AuditInclusion(plain)
BucketsAgree ==
  \A i \in DOMAIN rows, m \in Quotients :
    LET pair == rows[i].metrics[m] IN pair.incl = 0 \/ Regular(pair, m) => BucketOfWire(pair, m) = BucketOf(pair, m)
SectorsAgree(plain) ==
  /\ \A m \in Quotients : LET shared == AggregateHistogramsWire(rows, m) IN
       \A k \in Cells(rows) : \A f \in {"num", "den", "n"} : shared[k][f] = SectorRatio(plain, m, k)[f]
  /\ AuditSectorAggregate(plain, AggregateAllMetrics(plain)) = [histTotalsMatch |-> TRUE, ratioTotalsMatch |-> TRUE]
\* Quantiles by the shared sums are not above those in the clear, and the same
\* where the target is whole.
Quantiles == {<<1, 2>>, <<1, 4>>, <<3, 4>>, <<9, 10>>}
PercentilesAgree(h) ==
  LET cdf == MakeCdf(h)
      n == CdfTotal(cdf)
  IN \A q \in Quantiles :
       LET shared == PercentileBucketWire(SharedPrefixSum(h), n, q[1], q[2])
           clear == PercentileBucket(cdf, q[1], q[2])
       IN shared <= clear /\ (q[1] = 1 /\ n % q[2] = 0 => shared = clear)
\* What the two parties contribute adds up to the histogram and the sums.
JoinedRelease(m, k, h, ratio) ==
  LET row == ReleaseRow(k, m, [b \in 1..Buckets |-> ShareWord(h[b - 1], conf.mask)],
                        [num |-> ShareWord(ratio.num, conf.mask), den |-> ShareWord(ratio.den, conf.mask)])
      shape == <<row, row>>
      shares == [p \in 1..2 |-> Contribution(p, shape)]
      joined == CombineContributions(shape, shares[1], shares[2])
  IN /\ \A i \in 1..2 : /\ joined[i].bins = [b \in 1..Buckets |-> h[b - 1]] /\ joined[i].n = ratio.n
                        /\ joined[i].num = ratio.num /\ joined[i].den = ratio.den
     /\ \A p \in 1..2 : OneShareDoesNotReveal(p, shape, JoinedContributions(shares[1], shares[2]))
\* A row of a noised histogram has its count and ascending percentiles.
NoisedRelease(m, k, h, ratio) ==
  \A noise \in [0..(Buckets - 1) -> {-1, 1}] :
    LET row == AssembleRow(k, m, AddNoiseAndClamp(h, noise), ratio) IN
    /\ MonotoneCdf(row) /\ \A i \in 1..5 : row.percentiles[i] <= row.percentiles[i + 1]
    /\ row.n = ratio.n + Total([b \in 1..Buckets |-> noise[b - 1]]) + ClampedUp(h, noise)
ReleasesAgree(plain) ==
  \A m \in Core, k \in Cells(rows) :
    LET h == SectorHistogram(plain, m, k)
        ratio == SectorRatio(plain, m, k)
    IN PercentilesAgree(h) /\ JoinedRelease(m, k, h, ratio) /\ NoisedRelease(m, k, h, ratio)
\* The rows that count for a metric, by population and rank: ties in a bucket may
\* change places in the shared network, which is not stable.
Places(ranked) ==
  {<<ranked[i].popkey, ranked[i].rank, ranked[i].bucket>> :
     i \in {j \in DOMAIN ranked : ranked[j].incl = 1 /\ ranked[j].popkey # Padding}}
RanksAgree ==
  \A m \in Core : (\A i \in Included(rows, m) : Regular(rows[i].metrics[m], m)) =>
    Places(ranks[m]) = Places(ComputeMetricRanks(rows, m))
\* Composite scores of the same ranks, by the clear formula, which rounds elsewhere.
Scored(m) ==
  [i \in DOMAIN ranks[m] |-> LET r == ranks[m][i] IN
     [entity |-> r.entity, incl |-> r.incl,
      score |-> IF r.incl = 1 THEN FpRatio(r.rank, Max({CellCount(ranks, r.popkey, m) - 1, 1})) ELSE 0]]
ScoresAgree ==
  LET clear == ComputeCompositeTwoScore([m \in Core |-> Scored(m)]) IN
  /\ Len(scores) = Len(clear)
  /\ \A i \in DOMAIN clear :
       /\ \A f \in {"entity", "avail", "inclStrict", "inclRenorm"} : scores[i][f] = clear[i][f]
       /\ scores[i].inclStrict = 1 => scores[i].strict = clear[i].strict
       /\ scores[i].renorm - clear[i].renorm \in -2..2
\* The statistics on shared words are those in the clear, phase by phase, where the
\* code means them to be: outside the gap metric, irregular ratios and ties. Each
\* is looked at when its phase has just been run.
WireIsPlain ==
  /\ rows # <<>> /\ ranks = <<>> /\ cells = <<>> =>
       \E plain \in {Plain} : MetricsAgree(plain) /\ BucketsAgree /\ SectorsAgree(plain) /\ ReleasesAgree(plain)
  /\ ranks # <<>> /\ scores = <<>> /\ cells = <<>> => RanksAgree
  /\ scores # <<>> /\ cells = <<>> => ScoresAgree
-----------------------------------------------------------------------------
\* What may be put forward as an opening: a value moved by delta, one party's sigma
\* moved by shift; or a triple whose product is off.
Forged(delta, shift, share) == [kind |-> "opening", delta |-> delta, shift |-> shift, share |-> share]
OffTriple(offset, alpha) == [kind |-> "triple", offset |-> offset, alpha |-> alpha]
MovedRow(data, tag, keys) == [kind |-> "row", data |-> data, tag |-> tag, keys |-> keys]
PassingKeys(c) ==
  {a \in Wide!Ring : LET alpha == Wide!ShareOf(a, c.share) IN
     Wide!OpensShifted(Wide!Tampered(Wide!AuthShare(1, alpha, 3, 3), 1, c.delta), alpha, c.shift)}
PassingChallenges(c) ==
  {r \in Wide!Ring : Wide!Sacrifice(Wide!Triple(2, 3, c.offset, c.alpha, 3), Wide!Triple(1, 2, 0, c.alpha, 3), c.alpha, r)}
HonestOpens(alpha) ==
  \A x \in 0..3, r \in {1, 6} :
    LET a == Wide!AuthShare(x, alpha, 9, 4)
        b == Wide!AuthShare(3, alpha, 2, 7)
        product == Wide!Multiply(a, b, Wide!Triple(2, 3, 0, alpha, 5), alpha)
        more == Wide!AuthAddConst(a, r, alpha)
    IN /\ Wide!Opens(a, alpha) /\ Wide!OpenedValue(a) = x
       /\ product.ok /\ Wide!Opens(product.z, alpha) /\ Wide!OpenedValue(product.z) = Wide!Low(x * 3)
       /\ Wide!BatchOpen(<<a, b>>, alpha, <<r, 0>>) = [ok |-> TRUE, values |-> <<x, 3>>]
       /\ Wide!Opens(more, alpha) /\ Wide!OpenedValue(more) = Wide!Low(x + r)
       /\ Wide!VerifyReciprocal(a, b, alpha, Wide!Low(x * 3), 0, Wide!Triple(2, 3, 0, alpha, 5))
\* A cascade of two rounds over three rows, by the key of its second round; the
\* same rows under one batch check, by the challenges; and dealt a correlation.
Plain3 == <<{0}, {}, {0, 1}>>
Mask3 == <<{1}, {0}, {1}>>
Moved(share, data, tag) ==
  [data |-> [share.data EXCEPT ![1] = Mac!Plus(@, data)], tag |-> [share.tag EXCEPT ![1] = Mac!Plus(@, tag)]]
TwoRounds(pis, keys, data, tag) ==
  LET shared == Mac!RandomAuthShare(Plain3, keys[1], Mask3, Reverse(Mask3))
      first == Mac!CascadeRound(shared, pis[1], keys[1], keys[2])
      second == Mac!CascadeRound([first EXCEPT !.peer = Moved(@, data, tag)], pis[2], keys[2], keys[3])
  IN IF second.ok THEN Mac!FinalVerify(second.sp, second.peer, keys[3]) ELSE [ok |-> FALSE, plain |-> <<>>]
Turns == {Mac!FisherYates(3, draws) : draws \in {d \in [2..3 -> 1..3] : d[2] <= 2}}
PassingRounds(c, pis) ==
  {key \in Mac!Element : TwoRounds(pis, [c.keys EXCEPT ![2] = key], c.data, c.tag).ok}
PassingBatches(c) ==
  LET shared == Mac!RandomAuthShare(Plain3, c.keys[1], Mask3, Mask3)
      moved == Moved(shared.peer, c.data, c.tag)
  IN {r \in [1..3 -> Mac!Element] : Mac!VerifyBatched(shared.sp, moved, c.keys[1], r)}
\* A move that is right under the key is none to the MAC.
VerifiedMove(c) == c.tag = Mac!Times(c.keys[1], c.data)
PassingDeals(c, pi) ==
  LET dealt == Mac!Dealt(Mask3, Reverse(Plain3), pi)
      off == [dealt EXCEPT !.A.alpha[1] = Mac!Plus(@, c.data)]
  IN {malicious \in BOOLEAN : Mac!CgpRound([sp |-> Mask3, peer |-> Plain3], off, malicious).ok}
HonestShuffled(c, pis) ==
  LET round(state, pi, seed) == Mac!CgpRound(state, Mac!Dealt(seed, Mac!PermutedRows(seed, pi), pi), TRUE)
      agreed(s, t) == [A |-> Mac!Preprocessed(0, s, t, 3), B |-> Mac!Preprocessed(1, t, s, 3)]
      start == [sp |-> Mask3, peer |-> Mac!PlusAll(Mask3, Plain3)]
      shuffled == Mac!PermutedRows(Mac!PermutedRows(Plain3, pis[1]), pis[2])
      inputs == Mac!AuthShareInput({1}, c.keys[1], c.keys[2], {0})
  IN /\ TwoRounds(pis, c.keys, {}, {}) = [ok |-> TRUE, plain |-> shuffled]
     /\ Mac!FinalReveal(round(round(start, pis[1], Plain3), pis[2], Reverse(Mask3))) = shuffled
     /\ \A s, t \in Mac!Element :
          Mac!FinalReveal(Mac!CgpRound(start, agreed(s, t), TRUE)) = Mac!PermutedRows(Plain3, agreed(s, t).B.pi)
     /\ Mac!VerifyAuthShares(inputs.other, inputs.input, Mac!Plus(c.keys[1], c.keys[2]))
     /\ LET plus == Mac!XorConstAuth(inputs.input, <<{0}>>, Mac!Plus(c.keys[1], c.keys[2])) IN
        Mac!VerifyAuthShares(inputs.other, plus, Mac!Plus(c.keys[1], c.keys[2]))
\* What was not moved opens to itself, in a batch and after a product too. What was
\* moved opens under no more keys than half the values there are, whatever the
\* shift; and a triple that is off passes a sacrifice for at most half of the
\* challenges, a good one for all of them. Rows moved between two rounds pass for
\* one key of the second at most, or for one challenge of a combination in as many
\* as there are elements; a correlation that is off is dealt with where malice is
\* looked for; and rows that were not moved come out shuffled by both rounds.
ForgeriesCaught ==
  claim # Nobody =>
    /\ claim.kind = "opening" => Cardinality(PassingKeys(claim)) <= 2
    /\ claim.kind = "triple" =>
         LET passing == PassingChallenges(claim) IN
         IF claim.offset = 0 THEN HonestOpens(claim.alpha) /\ passing = Wide!Ring
         ELSE Cardinality(passing) <= Cardinality(Wide!Ring) \div 2
    /\ claim.kind = "row" =>
         \A pis \in Turns \X Turns :
           IF claim.data = {} /\ claim.tag = {} THEN HonestShuffled(claim, pis) /\ PassingRounds(claim, pis) = Mac!Element
           ELSE /\ Cardinality(PassingRounds(claim, pis)) <= 1
                /\ VerifiedMove(claim) \/ Cardinality(PassingBatches(claim)) <= 16
                /\ claim.data # {} => PassingDeals(claim, pis[1]) = {FALSE}
-----------------------------------------------------------------------------
\* Claims that a list of commitments is a shuffle of another, and that a
\* commitment without randomness is to a bit, under chosen first messages.
ShuffleOf(ms, shuf, y) == [kind |-> "shuffle", ms |-> ms, shuf |-> shuf, y |-> y]
BitClaim(m, A0, A1) == [kind |-> "bit", m |-> m, A0 |-> A0, A1 |-> A1]
Ones(n) == [i \in 1..n |-> 1]
Twos(n) == [i \in 1..n |-> 2]
BgAccepts(c, x) ==
  LET n == Len(c.ms) IN
  Proof!VerifyBg([orig |-> c.ms, shuf |-> c.shuf, openOrig |-> Ones(n), openShuf |-> Twos(n)],
                 Proof!CommitVector(c.ms, Ones(n)), Proof!CommitVector(c.shuf, Twos(n)), x, c.y)
Orders(n) == {o \in [1..n -> 1..n] : IsInjective(o)}
HonestShuffles(ms, x, y) ==
  LET n == Len(ms)
      cs == Proof!CommitVector(ms, Ones(n))
  IN \A o \in Orders(n) :
       LET shuffled == Proof!Shuffled(ms, o)
           cs2 == Proof!CommitVector(shuffled, Twos(n))
           t == Proof!Transcript(ms, Ones(n), Twos(n), o)
       IN /\ Proof!VerifyTranscript(t, x, y)
          /\ Proof!VerifyAudit(Proof!ProveAudit(ms, Ones(n), Twos(n), o, y, x), cs, cs2, y, x)
          /\ Proof!VerifyLinear(Proof!ProveLinear(ms, Ones(n), x), cs, cs2, x)
          /\ ~Proof!VerifyTranscript(Proof!Drop(t, 1), x, y) /\ ~Proof!VerifyTranscript(Proof!Insert(t, 1, 1), x, y)
          /\ \A key \in Proof!Scalar \ {shuffled[1]} :
               ~Proof!VerifyTranscript(Proof!Substitute(ms, Ones(n), Twos(n), o, 1, key, 2), x, y)
BitAccepted(c, ch) ==
  \E c0, s0, s1 \in Proof!Scalar :
    Proof!VerifyBit([A0 |-> c.A0, A1 |-> c.A1, c0 |-> c0, c1 |-> Proof!ScalarMod(ch - c0), s0 |-> s0, s1 |-> s1],
                    Proof!Commit(c.m, 0), ch)
\* A shuffle is accepted for every challenge by all three proofs, and not with an
\* element replaced, dropped or added; what is no shuffle passes for fewer
\* challenges than it has elements. A commitment to a bit has a proof for every
\* challenge, one to anything else for one at most.
ShuffleSound ==
  claim # Nobody =>
    /\ claim.kind = "shuffle" =>
         IF SortSeq(claim.ms, <) = SortSeq(claim.shuf, <)
         THEN \A x \in Proof!Scalar : HonestShuffles(claim.ms, x, claim.y) /\ BgAccepts(claim, x)
         ELSE Quantify(Proof!Scalar, LAMBDA x : BgAccepts(claim, x)) < Len(claim.ms)
    /\ claim.kind = "bit" =>
         IF claim.m \in Bit
         THEN \A c, d, w \in Proof!Scalar : Proof!VerifyBit(Proof!ProveBit(claim.m, 2, c, d, 3, w), Proof!Commit(claim.m, 2), c)
         ELSE Quantify(Proof!Scalar, LAMBDA c : BitAccepted(claim, c)) <= 1
-----------------------------------------------------------------------------
\* The log is a chain from its first entry with one entry for each abandoned cell,
\* in whatever order the threads failed. What a thread reports hangs on a link
\* that was current when it began: an entry at or before the one its own follows.
\* No release is called uncommitted unless another cell has been abandoned.
AuditTrail ==
  LET links(n) == {<<>>} \cup {log[j].link : j \in 1..n} IN
  /\ \A i \in DOMAIN log : /\ log[i].prev = IF i = 1 THEN <<>> ELSE log[i - 1].link
                           /\ log[i].link = Link(log[i].cell, log[i].prev)
                           /\ report[log[i].cell] \in {Link(log[i].cell, prev) : prev \in links(i - 1)}
  /\ {c \in Cell : out[c] = Abandoned} = {log[i].cell : i \in DOMAIN log}
  /\ \A i, j \in DOMAIN log : i # j => log[i].cell # log[j].cell
  /\ uncommitted # {} => log # <<>>

\* What is published is what IdealRelease promises of the agencies' files.
Ideal == INSTANCE IdealRelease
Implements == Ideal!Spec
=============================================================================
