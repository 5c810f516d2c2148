---------------------------- MODULE ShuffleProof ----------------------------
(* Proofs about commitments, over a field of P elements: that one list of
   commitments is a shuffle of another (src/volePSI/MpShuffleNizkBg.cpp as
   MpsvsShuffleWire.cpp uses it, and the linear forms of MpShuffleNizk.cpp and
   MpPedersenVector.cpp), and that a commitment is to a bit (MpsvsBitProof.cpp).
   A commitment g^m h^r is the pair of m and r: nobody opens it in another way.
   A challenge, a hash of the commitments, is a free choice. *)
EXTENDS Integers, Sequences, SequencesExt, FiniteSetsExt

CONSTANT P   \* the order of the group, a prime

Scalar == 0..(P - 1)
ScalarMod(x) == x % P
\* pedersenCommit, pedersenAdd, pedersenScalarMul.
Commit(m, r) == <<ScalarMod(m), ScalarMod(r)>>
CommitAdd(a, b) == Commit(a[1] + b[1], a[2] + b[2])
CommitSub(a, b) == Commit(a[1] - b[1], a[2] - b[2])
CommitTimes(k, c) == Commit(k * c[1], k * c[2])
Identity == <<0, 0>>
G == <<1, 0>>
H == <<0, 1>>
CommitVector(ms, rs) == [i \in DOMAIN ms |-> Commit(ms[i], rs[i])]
Shuffled(ms, order) == [i \in DOMAIN ms |-> ms[order[i]]]

Power(x, n) == FoldLeft(LAMBDA acc, i : ScalarMod(acc * x), 1, [i \in 1..n |-> i])
PowersOf(x, n) == [i \in 1..n |-> Power(x, i - 1)]
Dot(xs, ys) == ScalarMod(FoldLeft(LAMBDA acc, i : acc + xs[i] * ys[i], 0, [i \in DOMAIN xs |-> i]))
Weighed(ws, cs) == FoldLeft(LAMBDA acc, i : CommitAdd(acc, CommitTimes(ws[i], cs[i])), Identity, [i \in DOMAIN cs |-> i])
-----------------------------------------------------------------------------
\* polyEvalAtX: the product of x - (m + y).
\* Mutant: the sum in place of the product.
PolySum(ms, x, y) == FoldLeft(LAMBDA acc, m : ScalarMod(acc + (x - (m + y))), 1, ms)
PolyEval(ms, x, y) == FoldLeft(LAMBDA acc, m : ScalarMod(acc * (x - (m + y))), 1, ms)

\* shuffleProveBg: the proof opens every commitment of either list.
ProveBg(ms, rs, rs2, order) == [orig |-> ms, shuf |-> Shuffled(ms, order), openOrig |-> rs, openShuf |-> rs2]
\* shuffleVerifyBg, with the challenges x and y.
PolyAgree(proof, x, y) == PolyEval(proof.orig, x, y) = PolyEval(proof.shuf, x, y)
VerifyBg(proof, cs, cs2, x, y) ==
  /\ Len(cs2) = Len(cs) /\ \A f \in DOMAIN proof : Len(proof[f]) = Len(cs)
  /\ \A i \in DOMAIN cs : Commit(proof.orig[i], proof.openOrig[i]) = cs[i]
  /\ \A i \in DOMAIN cs2 : Commit(proof.shuf[i], proof.openShuf[i]) = cs2[i]
  /\ PolyAgree(proof, x, y)

\* shuffleAndProve, and the transcripts with an element replaced, dropped or added.
Transcript(ms, rs, rs2, order) ==
  [origC |-> CommitVector(ms, rs), shufC |-> CommitVector(Shuffled(ms, order), rs2), proof |-> ProveBg(ms, rs, rs2, order)]
Substitute(ms, rs, rs2, order, i, key, r) ==
  LET t == Transcript(ms, rs, [rs2 EXCEPT ![i] = r], order) IN [t EXCEPT !.shufC[i] = Commit(key, r)]
Drop(t, i) == [t EXCEPT !.shufC = RemoveAt(@, i)]
Insert(t, key, r) == [t EXCEPT !.shufC = Append(@, Commit(key, r))]
VerifyTranscript(t, x, y) == VerifyBg(t.proof, t.origC, t.shufC, x, y)
-----------------------------------------------------------------------------
\* shuffleProve and shuffleVerify: one weighted sum, of the first list alone.
ProveLinear(ms, rs, x) == [message |-> Dot(PowersOf(x, Len(ms)), ms), opening |-> Dot(PowersOf(x, Len(ms)), rs)]
VerifyLinear(proof, cs, cs2, x) ==
  Len(cs) = Len(cs2) /\ Weighed(PowersOf(x, Len(cs)), cs) = Commit(proof.message, proof.opening)

\* shuffleProveAudit and shuffleVerifyAudit: messages shifted by y, alike once
\* sorted, and one weighted opening of either list.
ProveAudit(ms, rs, rs2, order, y, z) ==
  [orig |-> [i \in DOMAIN ms |-> ScalarMod(ms[i] + y)], shuf |-> [i \in DOMAIN ms |-> ScalarMod(ms[order[i]] + y)],
   openOrig |-> Dot(PowersOf(z, Len(ms)), rs), openShuf |-> Dot(PowersOf(z, Len(ms)), rs2)]
AuditSide(cs, shifted, opening, y, z) ==
  LET ws == PowersOf(z, Len(cs)) IN
  Weighed(ws, cs) = Commit(Dot(ws, shifted) - y * Dot(ws, [i \in DOMAIN ws |-> 1]), opening)
VerifyAudit(proof, cs, cs2, y, z) ==
  /\ Len(cs) = Len(cs2) /\ Len(proof.orig) = Len(cs) /\ Len(proof.shuf) = Len(cs)
  /\ SortSeq(proof.orig, <) = SortSeq(proof.shuf, <)
  /\ AuditSide(cs, proof.orig, proof.openOrig, y, z) /\ AuditSide(cs2, proof.shuf, proof.openShuf, y, z)
-----------------------------------------------------------------------------
\* proveBit answers the branch of its bit and makes up the other before the
\* challenge c is known; d, s and w are its random numbers.
ProveBit(b, r, c, d, s, w) ==
  LET made(t) == CommitSub(CommitTimes(s, H), CommitTimes(d, t))
      own == ScalarMod(c - d)
      t0 == Commit(b, r)
      t1 == CommitSub(t0, G)
      answer == ScalarMod(w + own * r)
  IN IF b = 0 THEN [A0 |-> CommitTimes(w, H), A1 |-> made(t1), c0 |-> own, c1 |-> d, s0 |-> answer, s1 |-> s]
     ELSE [A0 |-> made(t0), A1 |-> CommitTimes(w, H), c0 |-> d, c1 |-> own, s0 |-> s, s1 |-> answer]
VerifyBit(pi, com, c) ==
  /\ ScalarMod(pi.c0 + pi.c1) = c
  /\ CommitTimes(pi.s0, H) = CommitAdd(pi.A0, CommitTimes(pi.c0, com))
  /\ CommitTimes(pi.s1, H) = CommitAdd(pi.A1, CommitTimes(pi.c1, CommitSub(com, G)))
=============================================================================
