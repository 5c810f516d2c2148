------------------------------ MODULE Release ------------------------------
(* A session of the statistics pipeline, phase after phase as docs/PROTOCOL.md
   orders them and the end-to-end tests call them: the agencies pack their rows, the
   servers align them, compute the metrics, rank and compose them and add them up
   by cell; then a thread for each cell releases it, and all threads share one log
   of aborts (MpsvsProdHygiene.cpp, MpsvsAuthShareProd.cpp, MpsvsDpProd.cpp).
   Besides, a party may put a forged opening or a proof forward. *)
EXTENDS Noise

CONSTANTS
  Confs,               \* files, nonces, masks, cells and faults of the sessions to look at
  Xi, Eta, HistNoise,  \* draws: of a count, of a party, of a histogram bin
  P,                   \* of the proofs: the order of the group
  Pending, Nobody

VARIABLES
  conf, nonce, stopped,                        \* the session, the nonce in use, whether it ended
  packed, union, rows, ranks, scores, cells,   \* what the phases have made
  at, seen, report, uncommitted, log,          \* the threads and their log
  out, spent,                                  \* what is published and what it was charged
  claim                                        \* what was put forward

phases == <<packed, union, rows, ranks, scores>>
threads == <<at, seen, report, uncommitted, log, out, spent, cells>>
vars == <<conf, nonce, stopped, phases, threads, claim>>
Auth == INSTANCE AuthShares WITH ValueBits <- Width, StatBits <- 0
Wide == INSTANCE AuthShares WITH ValueBits <- 2, StatBits <- 2
Proof == INSTANCE ShuffleProof
Mac == INSTANCE MacCascade WITH Degree <- 2
Cell == DOMAIN conf.mode
\* What stands for a release that was given up; no release has its field.
Abandoned == [abandoned |-> TRUE]
ASSUME PendingAssumption == Pending # Abandoned
\* Cells are finitely many; the key is one generateAlpha returns, masks are words.
ASSUME ConfsAssumption ==
  \A f \in Confs : /\ IsFiniteSet(DOMAIN f.mode) /\ f.tamper \in [DOMAIN f.mode -> Word]
                    /\ f.alpha \in Auth!AlphaShares /\ f.mask \in Word
-----------------------------------------------------------------------------
Rows(s) == [i \in DOMAIN conf.raw[s] |-> RowOf(s, conf.tags[nonce], Prepare(s, conf.raw[s][i]))]
Running == ~stopped /\ nonce <= Len(conf.tags)
\* packBins: an agency's rows in bins, unless it throws; where a bin overflows, all
\* agencies start again with tags of a new nonce, as long as there is one.
Refuse(s) ==
  /\ Running /\ packed[s] = <<>> /\ (DuplicateEntityPeriod(Rows(s)) \/ Malformed(s, Rows(s)))
  /\ stopped' = TRUE /\ UNCHANGED <<conf, nonce, phases, threads, claim>>
PackBins(s) ==
  /\ Running /\ packed[s] = <<>>
  /\ ~DuplicateEntityPeriod(Rows(s)) /\ ~Malformed(s, Rows(s)) /\ ~Overflows(Rows(s))
  /\ packed' = [packed EXCEPT ![s] = Pack(s, Rows(s), conf.dummies)]
  /\ UNCHANGED <<conf, nonce, stopped, union, rows, ranks, scores, threads, claim>>
NewNonce(s) ==
  /\ Running /\ packed[s] = <<>>
  /\ ~DuplicateEntityPeriod(Rows(s)) /\ ~Malformed(s, Rows(s)) /\ Overflows(Rows(s))
  /\ IF nonce = Len(conf.tags) THEN stopped' = TRUE /\ UNCHANGED <<nonce, packed>>
     ELSE nonce' = nonce + 1 /\ packed' = [t \in Agency |-> <<>>] /\ UNCHANGED stopped
  /\ UNCHANGED <<conf, union, rows, ranks, scores, threads, claim>>

\* runFPsa, computeEntityMetricsWire, rankViaHistogramWire for every core metric,
\* computeCompositeTwoScoreWire where its reciprocals can be computed.
RunFPsa ==
  /\ union = <<>> /\ \A s \in Agency : packed[s] # <<>>
  /\ union' = UnionTable(packed, conf.order)
  /\ UNCHANGED <<conf, nonce, stopped, packed, rows, ranks, scores, threads, claim>>
Measure ==
  /\ union # <<>> /\ rows = <<>>
  /\ rows' = ComputeEntityMetricsWire(union)
  /\ UNCHANGED <<conf, nonce, stopped, packed, union, ranks, scores, threads, claim>>
RankAll ==
  /\ conf.ranked /\ rows # <<>> /\ ranks = <<>>
  /\ ranks' = [m \in Core |-> RankWire(Prebucketed(rows, m), m)]
  /\ UNCHANGED <<conf, nonce, stopped, packed, union, rows, scores, threads, claim>>
Compose ==
  /\ ranks # <<>> /\ scores = <<>> /\ ReciprocalsEnd(ranks)
  /\ scores' = ComputeCompositeTwoScoreWire(ranks)
  /\ UNCHANGED <<conf, nonce, stopped, packed, union, rows, ranks, threads, claim>>
\* aggregateHistogramsWire, for the cells to be released.
Aggregate ==
  /\ rows # <<>> /\ cells = <<>> /\ Cell # {}
  /\ cells' = [c \in Cell |-> ShareCell(AggregateHistogramsWire(rows, c[1])[c[2]], conf.mask)]
  /\ UNCHANGED <<conf, nonce, stopped, phases, at, seen, report, uncommitted, log, out, spent, claim>>
-----------------------------------------------------------------------------
\* SessionAuditLog: the link of an entry is a hash of what it is about and of the
\* entry before. append takes the link that is current under the mutex, which
\* need not be the one its caller read.
Link(c, prev) == <<c, prev>>
CurrentLink == IF log = <<>> THEN <<>> ELSE Last(log).link
\* Mutant: the link its caller read.
AppendedAsRead(c) == Append(log, [cell |-> c, prev |-> seen[c], link |-> Link(c, seen[c])])
Appended(c) == Append(log, [cell |-> c, prev |-> CurrentLink, link |-> Link(c, CurrentLink)])

Goto(c, from, to) == cells # <<>> /\ at[c] = from /\ at' = [at EXCEPT ![c] = to]
Settle(c, outcome, charge) ==
  /\ out' = [out EXCEPT ![c] = outcome]
  /\ spent' = IF charge = 0 THEN spent ELSE BudgetAfter(spent, charge)
SessionUnchanged == UNCHANGED <<conf, nonce, stopped, phases, claim>>

\* The count of a cell, authenticated, one share of it moved by conf.tamper.
Count(c) == Auth!Tampered(Auth!AuthShare(JoinWord(cells[c].n), conf.alpha, conf.mask, conf.mask), 1, conf.tamper[c])
\* openWithAuditLog reads the current link, then checks, and appends if that fails.
ReadLink(c) ==
  /\ conf.mode[c] = "threshold" /\ Goto(c, "start", "open")
  /\ seen' = [seen EXCEPT ![c] = CurrentLink]
  /\ UNCHANGED <<report, uncommitted, log, out, spent, cells>> /\ SessionUnchanged
OpenHolds(c) ==
  /\ Goto(c, "open", "release") /\ Auth!OpensWhole(Count(c), conf.alpha)
  /\ UNCHANGED <<seen, report, uncommitted, log, out, spent, cells>> /\ SessionUnchanged
OpenFails(c) ==
  /\ Goto(c, "open", "end") /\ ~Auth!OpensWhole(Count(c), conf.alpha)
  /\ log' = Appended(c) /\ report' = [report EXCEPT ![c] = Link(c, seen[c])]
  /\ Settle(c, Abandoned, 0)
  /\ UNCHANGED <<seen, uncommitted, cells>> /\ SessionUnchanged
\* noisyThresholdReleaseProd.
NoisyThresholdRelease(c) ==
  /\ Goto(c, "release", "end")
  /\ \E xi \in Xi, x, y \in Eta, h1, h2 \in HistNoise :
       LET r == NoisyThreshold(cells[c], xi, x.num, y.den, h1, h2) IN Settle(c, r, r.spent)
  /\ UNCHANGED <<seen, report, uncommitted, log, cells>> /\ SessionUnchanged

\* addCoverFirmsProd and applyKAnonGate; addJointNoiseProd, which compares the
\* length of the log before and after to tell whether its commitments held; and
\* openAndClamp.
CoverAndGate(c) ==
  /\ conf.mode[c] = "gate" /\ Goto(c, "start", "noise")
  /\ \E k1, k2 \in CoverDraws : cells' = [cells EXCEPT ![c] = ApplyKAnonGate(AddCoverFirms(@, k1, k2), conf.mask)]
  /\ seen' = [seen EXCEPT ![c] = Len(log)]
  /\ UNCHANGED <<report, uncommitted, log, out, spent>> /\ SessionUnchanged
JointNoiseAdded(c) ==
  /\ Goto(c, "noise", "open noised")
  /\ \E e1, e2 \in Eta :
       LET c1 == Sampled(1, 1, e1)
           c2 == Sampled(2, 2, e2)
       IN AllCommitsVerified({c1, c2}) /\ cells' = [cells EXCEPT ![c] = AddJointNoise(@, c1, c2)]
  /\ uncommitted' = IF Len(log) = seen[c] THEN uncommitted ELSE uncommitted \cup {c}
  /\ UNCHANGED <<seen, report, log, out, spent>> /\ SessionUnchanged
OpenNoised(c) ==
  /\ Goto(c, "open noised", "end") /\ Settle(c, OpenAndClamp(cells[c]), Rho.joint)
  /\ UNCHANGED <<seen, report, uncommitted, log, cells>> /\ SessionUnchanged

Thread(c) ==
  ReadLink(c) \/ OpenHolds(c) \/ OpenFails(c) \/ NoisyThresholdRelease(c)
  \/ CoverAndGate(c) \/ JointNoiseAdded(c) \/ OpenNoised(c)
PutForward ==
  /\ claim = Nobody /\ \E c \in conf.claims : claim' = c
  /\ UNCHANGED <<conf, nonce, stopped, phases, threads>>
-----------------------------------------------------------------------------
Init ==
  /\ conf \in Confs /\ nonce = 1 /\ stopped = FALSE /\ claim = Nobody
  /\ packed = [s \in Agency |-> <<>>] /\ union = <<>> /\ rows = <<>> /\ ranks = <<>> /\ scores = <<>>
  /\ cells = <<>> /\ log = <<>> /\ uncommitted = {} /\ spent = [total |-> 0, queries |-> 0]
  /\ at = [c \in Cell |-> "start"] /\ out = [c \in Cell |-> Pending]
  /\ seen = [c \in Cell |-> <<>>] /\ report = [c \in Cell |-> <<>>]
Prepared == \E s \in Agency : Refuse(s) \/ PackBins(s) \/ NewNonce(s)
\* A session is over when it was refused, or when its cells are settled and its
\* ranks composed, if they can be. Any other state has a next one: no step undoes
\* another, so a session whose threads go on gets there.
Over ==
  \/ stopped \/ conf.tags = <<>>
  \/ /\ rows # <<>> /\ \A c \in Cell : at[c] = "end"
     /\ conf.ranked => ranks # <<>> /\ (scores # <<>> \/ ~ReciprocalsEnd(ranks))
Next ==
  \/ Prepared \/ RunFPsa \/ Measure \/ RankAll \/ Compose \/ Aggregate \/ PutForward
  \/ \E c \in Cell : Thread(c)
  \/ Over /\ UNCHANGED vars
Spec == Init /\ [][Next]_vars
=============================================================================
