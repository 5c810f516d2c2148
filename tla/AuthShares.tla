----------------------------- MODULE AuthShares -----------------------------
(* Authenticated two-party shares: src/volePSI/MpsvsAuthShare.cpp, where a value has
   64 bits and its ring as many, and MpsvsAuthShare128.cpp, where the ring has 64
   bits more. A value x is shared with a MAC alpha x; nobody holds alpha whole. *)
EXTENDS Integers, Sequences, SequencesExt, FiniteSetsExt

CONSTANTS
  ValueBits,   \* of a value: 64
  StatBits     \* what the ring has beyond: 0, or 64

Ring == 0..(2^(ValueBits + StatBits) - 1)
Mod(x) == x % 2^(ValueBits + StatBits)
Low(x) == x % 2^ValueBits

\* shareU64 and shareU128, for a mask: one party's share is random, the other's the rest.
ShareOf(x, mask) == <<Mod(x - mask), Mod(mask)>>
Joined(s) == Mod(s[1] + s[2])
AddShared(s, t) == [p \in 1..2 |-> Mod(s[p] + t[p])]
SubShared(s, t) == [p \in 1..2 |-> Mod(s[p] - t[p])]
MulConst(s, c) == [p \in 1..2 |-> Mod(s[p] * Mod(c))]
AddConst(s, c) == [s EXCEPT ![1] = Mod(@ + c)]

\* generateAlpha draws again while the key or a share of it is 0.
AlphaShares == {s \in [1..2 -> Ring] : s[1] # 0 /\ s[2] # 0 /\ Joined(s) # 0}
AuthShare(x, alpha, mask, macMask) == [value |-> ShareOf(x, mask), mac |-> ShareOf(Mod(Joined(alpha) * x), macMask)]
AuthAdd(a, b) == [value |-> AddShared(a.value, b.value), mac |-> AddShared(a.mac, b.mac)]
AuthSub(a, b) == [value |-> SubShared(a.value, b.value), mac |-> SubShared(a.mac, b.mac)]
AuthMulConst(a, c) == [value |-> MulConst(a.value, c), mac |-> MulConst(a.mac, c)]
AuthAddConst(a, c, alpha) == [value |-> AddConst(a.value, c), mac |-> AddConst(a.mac, Joined(alpha) * c)]
\* simulateTampering: one party moves its share.
Tampered(a, party, delta) == [a EXCEPT !.value[party] = Mod(@ + delta)]
-----------------------------------------------------------------------------
\* openWithMacCheck, by one who holds alpha.
OpensWhole(a, alpha) == Mod(Joined(alpha) * Joined(a.value)) = Joined(a.mac)

\* computeSigmaCommit: what a party commits to, once the value is known. A reveal
\* counts when it is what was committed to; the sigmas must add up to 0.
Sigma(alphaShare, macShare, x) == Mod(alphaShare * x - macShare)
SigmaCommit(party, alpha, a) == [party |-> party, sigma |-> Sigma(alpha[party], a.mac[party], Joined(a.value))]
RevealHolds(revealed, commit) == revealed = commit
\* Mutant: the sum of the sigmas is looked at in the bits of a value only, and not the lowest.
SigmasAddUpLow(s, t) == (Low(s.sigma + t.sigma) \div 2) = 0
SigmasAddUp(s, t) == Mod(s.sigma + t.sigma) = 0
\* openWithMacCheckShared; shift is what a party adds to its sigma before committing.
OpensShifted(a, alpha, shift) ==
  LET s == [SigmaCommit(1, alpha, a) EXCEPT !.sigma = Mod(@ + shift)]
      t == SigmaCommit(2, alpha, a)
  IN RevealHolds(s, s) /\ RevealHolds(t, t) /\ SigmasAddUp(s, t)
Opens(a, alpha) == OpensShifted(a, alpha, 0)
OpenedValue(a) == Low(Joined(a.value))

\* batchOpenWithMacCheckShared: one check for a combination with challenges that
\* are never 0; the values are handed out whether it holds or not.
Challenge(r) == IF r = 0 THEN 1 ELSE r
Combination(as, rs) ==
  LET part(i) == AuthMulConst(as[i], Challenge(rs[i])) IN
  FoldLeft(LAMBDA acc, i : AuthAdd(acc, part(i)), part(1), [i \in 1..(Len(as) - 1) |-> i + 1])
BatchOpen(as, alpha, rs) ==
  [ok |-> Opens(Combination(as, rs), alpha), values |-> [i \in DOMAIN as |-> OpenedValue(as[i])]]
-----------------------------------------------------------------------------
\* generateAuthBeaverTriple, and generateMalformedBeaverTriple with an offset.
Triple(u, v, offset, alpha, mask) ==
  [u |-> AuthShare(u, alpha, mask, mask), v |-> AuthShare(v, alpha, mask, mask),
   w |-> AuthShare(Mod(u * v + offset), alpha, mask, mask)]

\* authSecureMultiplyShared: opens x - u and y - v, each of which may fail and
\* throws; each party adds its share of alpha d e to the MAC.
Multiply(x, y, t, alpha) ==
  LET xu == AuthSub(x, t.u)
      yv == AuthSub(y, t.v)
      d == OpenedValue(xu)
      e == OpenedValue(yv)
      z == AuthAdd(t.w, AuthAdd(AuthMulConst(t.v, d), AuthMulConst(t.u, e)))
  IN [ok |-> Opens(xu, alpha) /\ Opens(yv, alpha),
      z |-> [value |-> AddConst(z.value, Mod(d * e)),
             mac |-> [p \in 1..2 |-> Mod(z.mac[p] + alpha[p] * Mod(d * e))]]]

\* sacrificeCheckTripleShared: a triple against another, with challenge r. The last
\* comparison is of values, without the bits the ring has beyond.
RXSubY(r, x, y) == AuthSub(AuthMulConst(x, r), y)
Sacrifice(t, aux, alpha, r) ==
  LET rho == RXSubY(Challenge(r), t.u, aux.u)
      sigma == RXSubY(1, t.v, aux.v)
      tau == AuthSub(AuthSub(AuthSub(AuthMulConst(t.w, Challenge(r)), aux.w),
                             AuthMulConst(aux.u, OpenedValue(sigma))), AuthMulConst(aux.v, OpenedValue(rho)))
  IN /\ Opens(rho, alpha) /\ Opens(sigma, alpha) /\ Opens(tau, alpha)
     /\ OpenedValue(tau) = Low(OpenedValue(rho) * OpenedValue(sigma))

\* verifyReciprocalAuthShared: the product with the reciprocal is near 1.
VerifyReciprocal(x, y, alpha, one, tolerance, t) ==
  LET product == Multiply(y, x, t, alpha)
      z == OpenedValue(product.z)
  IN product.ok /\ Opens(product.z, alpha) /\ z <= one + tolerance /\ one <= z + tolerance
=============================================================================
