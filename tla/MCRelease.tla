----------------------------- MODULE MCRelease -----------------------------
(* Sessions over files of one or two spellings of up to four entities. Every
   session of MCFiles has one way for its data to differ; nonces that leave a bin
   too full, threads that abort and sectors to rank have a few sessions each. *)
EXTENDS ReleaseProperties

MCCanonical == [id \in {"A", "a", "B", "C", "D"} |-> CASE id \in {"A", "a"} -> 1 [] id = "B" -> 2 [] id = "C" -> 3 [] id = "D" -> 4]
MCAttribute == [s \in 0..2 |-> <<{"debt", "dserv", "delq", "npl", "unsec", "stdebt", "growth"}, {"income", "growth"}, {"emp"}>>[s + 1]]
Interval(lo, hi) == [min |-> lo, max |-> hi]
MCRanges == [debt |-> Interval(0, 20), dserv |-> Interval(0, 9), delq |-> Interval(0, 9), npl |-> Interval(0, 9),
             unsec |-> Interval(0, 9), stdebt |-> Interval(0, 9), growth |-> Interval(0, 9), income |-> Interval(0, 12), emp |-> Interval(0, 9)]
MCBounds == [debt |-> Interval(1, 20), income |-> Interval(1, 8), emp |-> Interval(0, 9)]
Span(lo, hi, logarithmic) == [lo |-> lo, hi |-> hi, log |-> logarithmic]
MCSpans == [DTI |-> Span(0, 30, FALSE), DSI |-> Span(1, 9, TRUE), DEmp |-> Span(0, 9, FALSE), IPW |-> Span(1, 8, TRUE),
            Delq |-> Span(0, 9, FALSE), NPL |-> Span(0, 9, FALSE), UnsecShare |-> Span(0, 12, FALSE),
            StDebtShare |-> Span(0, 12, FALSE), Gap |-> Span(0, 30, FALSE)]
MCWeight == [m \in {"DTI", "DSI", "Delq", "NPL"} |-> 64]
MCRho == [threshold |-> 1, hist |-> 2, num |-> 4, den |-> 8, joint |-> 16]
MCXi == {-1, 1}
MCEta == {[num |-> 1, den |-> 0, n |-> -1], [num |-> -7, den |-> 2, n |-> 0]}
-----------------------------------------------------------------------------
\* Records, by example.
Given(v) == [present |-> TRUE, value |-> v]
Missing == [present |-> FALSE, value |-> 0]
Line(id, sector, attr) == [id |-> id, period |-> 1, sector |-> sector, member |-> TRUE, attr |-> attr]
Mas(debt, dserv) == [debt |-> debt, dserv |-> dserv, delq |-> Given(1), npl |-> Given(2), unsec |-> Given(2), stdebt |-> Given(3), growth |-> Given(5)]
Dos(income) == [income |-> income, growth |-> Given(3)]
Mom(emp) == [emp |-> emp]
Files(f) == [s \in Agency |-> f[s + 1]]
Good(id, sector, debt) == Files(<<(<<Line(id, sector, Mas(Given(debt), Given(2)))>>), (<<Line(id, sector, Dos(Given(4)))>>), (<<Line(id, sector, Mom(Given(2)))>>)>>)
Both(x, y) == [s \in Agency |-> x[s] \o y[s]]
Tag(bins) == [e \in 1..4 |-> [bin |-> bins[e], key |-> <<30, 10, 40, 20>>[e]]]
Backwards == [i \in 1..12 |-> 13 - i]
AsMerged == [i \in 1..12 |-> i]
DummyKeys == [s \in 0..2, k \in 1..2 |-> 200 + 10 * k + s]
Home1 == [sector |-> 1, period |-> 1]
NoCells == [c \in {} |-> "gate"]
Base == [raw |-> Both(Good("A", 1, 6), Good("B", 1, 12)), tags |-> <<Tag(<<0, 1, 0, 1>>)>>, order |-> Backwards, mask |-> 201, alpha |-> <<37, 90>>,
         dummies |-> DummyKeys, mode |-> NoCells, tamper |-> NoCells, ranked |-> FALSE, claims |-> {}]
\* A session that releases cells, some of which are opened with a share moved.
Releasing(base, mode, tampered) ==
  [base EXCEPT !.mode = mode, !.tamper = [c \in DOMAIN mode |-> IF c \in tampered THEN 4 ELSE 0]]

\* What an agency may have on A, next to B of which all have everything.
OfMas == {<<>>} \cup {<<Line("a", 1, Mas(debt, dserv))>> :
            debt \in {Given(0), Given(6), Given(20), Given(21), Missing}, dserv \in {Given(2)}}
OfDos == {<<>>} \cup {<<Line("A", sector, Dos(income))>> : sector \in 1..2, income \in {Given(0), Given(1), Given(8), Given(9)}}
OfMom == {<<>>, <<Line("A", 1, Mom(Given(3)))>>}
Cells1 == {[c \in {<<"DTI", Home1>>} |-> "threshold"], [c \in {<<"IPW", Home1>>} |-> "gate"]}
MCFiles == {Releasing([Base EXCEPT !.raw = Both(Files(<<x, y, z>>), Good("B", 1, 12)), !.tags = <<Tag(<<b, 1, 0, 0>>)>>, !.order = IF b = 0 THEN AsMerged ELSE Backwards], mode, {}) :
             x \in OfMas, y \in OfDos, z \in OfMom, b \in 0..1, mode \in Cells1}

\* Bins that fill up under one nonce, or under every one; an entity twice in a file.
Three(s1, s2, s3) == Both(Good("A", s1, 6), Both(Good("B", s2, 12), Good("C", s3, 8)))
Spread == Tag(<<0, 1, 0, 1>>)
Crowded == Tag(<<0, 0, 0, 0>>)
One3 == [Base EXCEPT !.raw = Three(1, 1, 1)]
DTI1 == [c \in {<<"DTI", Home1>>} |-> "threshold"]
MCNonces ==
  {Releasing([One3 EXCEPT !.tags = tags], DTI1, {}) : tags \in {<<Crowded, Spread>>, <<Crowded, Crowded>>}}
  \cup {Releasing([Base EXCEPT !.raw = Both(Good("A", 1, 6), Good("a", 1, 12))], DTI1, {})}
\* Threads that run at once, some of which find a share moved.
MCThreads ==
  {Releasing(Base, [c \in {"DTI", "IPW", "DEmp"} \X {Home1} |-> IF c[1] = "IPW" THEN "gate" ELSE "threshold"], tampered \X {Home1}) :
     tampered \in {{"DTI"}, {"DTI", "DEmp"}}}
  \cup {Releasing(One3, [c \in {"DTI", "IPW"} \X {Home1} |-> IF c[1] = "IPW" THEN "gate" ELSE "threshold"], {})}
\* Populations to rank: one, two, one of the padding's key, one that not every
\* metric counts; and one for which the dead rows, of sector 0, have no members.
Ranking(raw, order) == [Base EXCEPT !.raw = raw, !.order = order, !.ranked = TRUE]
Poor == Files(<<(<<Line("A", 0, Mas(Missing, Given(3)))>>), (<<Line("A", 0, Dos(Given(4)))>>), (<<Line("A", 0, Mom(Given(2)))>>)>>)
MCRanked ==
  {Ranking(raw, order) : order \in {AsMerged, Backwards},
     raw \in {Three(0, 0, 0), Three(1, 0, 0), Three(3, 0, 0), Three(1, 1, 1), Both(Poor, Both(Good("B", 2, 12), Good("C", 2, 8))),
              Both(Three(0, 0, 1), Good("D", 1, 15)), Both(Poor, Both(Good("B", 0, 12), Good("C", 0, 8)))}}
\* Forgeries and proofs, without a session.
MCClaims ==
  {Forged(delta, shift, share) : delta \in 1..3, shift \in 0..15, share \in {0, 6}}
  \cup {OffTriple(offset, alpha) : offset \in 0..3, alpha \in {<<3, 4>>, <<5, 1>>}}
  \cup {MovedRow(data, tag, <<key, {0, 1}, {1}>>) : data, tag \in SUBSET (0..1), key \in {{0}, {0, 1}}}
  \cup {ShuffleOf(ms, shuf, y) : ms \in {<<1, 2, 4>>, <<1, 1, 3>>}, shuf \in [1..3 -> 0..4], y \in {0, 2}}
  \cup {BitClaim(m, <<a, 0>>, <<b, 0>>) : m \in 0..4, a \in 0..4, b \in 0..4}
MCConfs == MCFiles \cup MCNonces \cup MCThreads \cup MCRanked
           \cup {[Base EXCEPT !.tags = <<>>, !.claims = MCClaims]}
=============================================================================
