----------------------------- MODULE MacCascade -----------------------------
(* Shuffles of shared rows that are run in one process or pair by pair: the cascade
   that carries a MAC from round to round (src/volePSI/MpMac.cpp, MpAuthCascade.cpp),
   the MAC over two keys (MpOleAlpha.cpp), and the shuffle of Chase, Ghosh and
   Poburinnaya from a dealt correlation (MpCgpShuffle.cpp, MpCgpPreprocess.cpp).
   Blocks are elements of a field of 2^Degree elements, sets of exponents, the
   code's of 2^128; a permutation names for each place the place it takes. *)
EXTENDS Integers, Sequences, SequencesExt, FiniteSets, FiniteSetsExt

CONSTANT Degree   \* 2 or 3, where x^Degree = x + 1

Element == SUBSET (0..(Degree - 1))
Plus(a, b) == SymDiff(a, b)
TimesX(a) ==
  LET up == {e + 1 : e \in a} IN IF Degree \in up THEN Plus(up \ {Degree}, {0, 1}) ELSE up
Times(a, b) ==
  LET shifted[e \in 0..(Degree - 1)] == IF e = 0 THEN a ELSE TimesX(shifted[e - 1])
  IN FoldSet(LAMBDA e, acc : Plus(acc, shifted[e]), {}, b)
PlusAll(xs, ys) == [i \in DOMAIN xs |-> Plus(xs[i], ys[i])]
PermutedRows(xs, pi) == [i \in DOMAIN xs |-> xs[pi[i]]]
-----------------------------------------------------------------------------
\* Authenticated shares: of a vector and of alpha times it.
TagVector(alpha, plain) == [i \in DOMAIN plain |-> Times(alpha, plain[i])]
RandomAuthShare(plain, alpha, mask, tagMask) ==
  [sp |-> [data |-> mask, tag |-> tagMask],
   peer |-> [data |-> PlusAll(mask, plain), tag |-> PlusAll(tagMask, TagVector(alpha, plain))]]
XorAuth(a, b) == [data |-> PlusAll(a.data, b.data), tag |-> PlusAll(a.tag, b.tag)]
XorConstAuth(a, c, alpha) == XorAuth(a, [data |-> c, tag |-> TagVector(alpha, c)])
PermuteAuth(a, pi) == [data |-> PermutedRows(a.data, pi), tag |-> PermutedRows(a.tag, pi)]
VerifyAuthShares(a1, a2, alpha) ==
  LET joint == XorAuth(a1, a2) IN Len(a1.data) = Len(a2.data) /\ joint.tag = TagVector(alpha, joint.data)
\* One check for a combination, whose challenges may be 0.
VerifyBatched(a1, a2, alpha, challenge) ==
  LET joint == XorAuth(a1, a2)
      combined(xs) == FoldLeft(Plus, {}, [i \in DOMAIN xs |-> Times(challenge[i], xs[i])])
  IN Len(a1.data) = Len(challenge) /\ combined(joint.tag) = Times(alpha, combined(joint.data))

\* dealerOleGf128 and authShareInput: the input party's tag has its own key's term
\* and the correlation's, the other's only its mask; the keys add up to the MAC's.
OleGf128(alphaA, xB, mask) == [a |-> [value |-> alphaA, mask |-> mask], b |-> [value |-> xB, mask |-> Plus(Times(alphaA, xB), mask)]]
AuthShareInput(plain, alphaA, alphaB, mask) ==
  LET ole == OleGf128(alphaA, plain, mask)
  IN [other |-> [data |-> <<{}>>, tag |-> <<ole.a.mask>>],
      input |-> [data |-> <<plain>>, tag |-> <<Plus(Times(alphaB, plain), ole.b.mask)>>]]
-----------------------------------------------------------------------------
\* cascadeRound: the incoming shares are checked under the old key, permuted, and
\* each share tagged anew on its own; a round that fails hands nothing on.
Failed == [ok |-> FALSE, sp |-> [data |-> <<>>, tag |-> <<>>], peer |-> [data |-> <<>>, tag |-> <<>>]]
CascadeRound(incoming, pi, alphaOld, alphaNew) ==
  IF ~VerifyAuthShares(incoming.sp, incoming.peer, alphaOld) THEN Failed
  ELSE LET again(share) == LET data == PermuteAuth(share, pi).data IN [data |-> data, tag |-> TagVector(alphaNew, data)]
       IN [ok |-> TRUE, sp |-> again(incoming.sp), peer |-> again(incoming.peer)]
\* finalVerify.
FinalVerify(sp, peer, alpha) ==
  IF VerifyAuthShares(sp, peer, alpha) THEN [ok |-> TRUE, plain |-> PlusAll(sp.data, peer.data)]
  ELSE [ok |-> FALSE, plain |-> <<>>]
-----------------------------------------------------------------------------
\* cgpDealerGenerate, by Fisher and Yates' permutation: A has a mask and its share of
\* the outcome, B the permutation and the rest.
FisherYates(n, draws) ==
  LET after[i \in 1..n] ==
        IF i = n THEN [k \in 1..n |-> k]
        ELSE LET pi == after[i + 1] j == draws[i + 1] IN [pi EXCEPT ![i + 1] = pi[j], ![j] = pi[i + 1]]
  IN after[1]
Dealt(a, b, pi) == [A |-> [a |-> a, alpha |-> PlusAll(PermutedRows(a, pi), b)], B |-> [pi |-> pi, b |-> b]]
\* cgpPreprocessOverWire: each party runs the dealer on the sum of both seeds and
\* keeps its own half. What a seed expands to stands for the generator's stream.
SharedSeed(mine, peers) == Plus(mine, peers)
Expanded(seed, n) == [i \in 1..n |-> Plus(seed, Times(seed, {e \in {0} : i % 2 = 0}))]
Preprocessed(party, mine, peers, n) ==
  LET seed == SharedSeed(mine, peers)
      dealt == Dealt(Expanded(seed, n), Expanded(Times(seed, {1}), n), FisherYates(n, [i \in 2..n |-> 1 + (Cardinality(seed) % i)]))
  IN IF party = 0 THEN dealt.A ELSE dealt.B
\* cgpOnlineA and cgpOnlineB.
OnlineA(xA, corr) == [message |-> PlusAll(xA, corr.a), y |-> corr.alpha]
OnlineB(xB, corr, message) == PlusAll(PermutedRows(PlusAll(message, xB), corr.pi), corr.b)
\* cgpCascadeRound: in malicious mode the correlation is looked at, not the message.
CgpRound(state, corr, malicious) ==
  LET a == OnlineA(state.sp, corr.A)
      ok == ~malicious \/ corr.A.alpha = PlusAll(PermutedRows(corr.A.a, corr.B.pi), corr.B.b)
  IN IF Len(state.sp) # Len(state.peer) \/ ~ok THEN [ok |-> FALSE, sp |-> <<>>, peer |-> <<>>]
     ELSE [ok |-> TRUE, sp |-> a.y, peer |-> OnlineB(state.peer, corr.B, a.message)]
FinalReveal(state) == PlusAll(state.sp, state.peer)
=============================================================================
