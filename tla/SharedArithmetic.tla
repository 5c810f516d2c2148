-------------------------- MODULE SharedArithmetic --------------------------
(* Secret sharing in one process: src/volePSI/MpSecretShare.cpp, its Beaver
   triples and the arithmetic circuits of MpMpcArithmetic.cpp, for any number of
   parties. Sharings are sequences of shares, party 0's first. The circuits are
   written on the bits the shares join to, lowest first, since every gate of
   theirs is shown to join to the gate's value. *)
EXTENDS SharedWords

\* The public party adds what is public, and the value less the others' shares.
Reconstruct(s) == WordTotal(s)
ReconstructBit(s) == Total(s) % 2
Share(value, others) == <<Wrap(value - Total(others))>> \o others
ShareBit(value, others) == <<(value + Total(others)) % 2>> \o others
AddShared(x, y) == [p \in DOMAIN x |-> Wrap(x[p] + y[p])]
SubShared(x, y) == [p \in DOMAIN x |-> Wrap(x[p] - y[p])]
AddConst(x, c) == [x EXCEPT ![1] = Wrap(@ + c)]
MulConst(x, c) == [p \in DOMAIN x |-> TimesPublic(x[p], c)]
XorShared(x, y) == [p \in DOMAIN x |-> (x[p] + y[p]) % 2]
XorConst(x, c) == [x EXCEPT ![1] = (@ + c) % 2]

\* A triple of sharings whose third joins to the product of the first two.
TripleOf(u, v, others) ==
  [u |-> Share(u, others[1]), v |-> Share(v, others[2]), w |-> Share(TimesPublic(u, v), others[3])]
TripleBitOf(u, v, others) ==
  [u |-> ShareBit(u, others[1]), v |-> ShareBit(v, others[2]), w |-> ShareBit(u * v, others[3])]

\* The masked operands are opened; the rest is local.
SecureMultiply(x, y, t) ==
  LET d == Reconstruct(SubShared(x, t.u)) e == Reconstruct(SubShared(y, t.v))
  IN AddConst(AddShared(AddShared(t.w, MulConst(t.v, d)), MulConst(t.u, e)), TimesPublic(d, e))
SecureAnd(x, y, t) ==
  LET d == ReconstructBit(XorShared(x, t.u)) e == ReconstructBit(XorShared(y, t.v))
      masked(s, b) == [p \in DOMAIN s |-> s[p] * b]
  IN XorConst(XorShared(XorShared(t.w, masked(t.v, d)), masked(t.u, e)), d * e)
-----------------------------------------------------------------------------
\* Words as their bits.
Bits(x) == [i \in 1..Width |-> BitAt(x, i - 1)]
Value(bits) == Total([i \in DOMAIN bits |-> bits[i] * 2^(i - 1)])
Xor(a, b) == (a + b) % 2

\* A ripple of carries: carries[i] comes into place i, with the propagate and
\* the generate of the place; two triples a place.
Ripple(x, y, carryIn) ==
  LET carries[i \in 1..(Width + 1)] ==
        IF i = 1 THEN carryIn
        ELSE Xor(x[i-1] * y[i-1], Xor(x[i-1], y[i-1]) * carries[i-1])
  IN [sum |-> [i \in 1..Width |-> Xor(Xor(x[i], y[i]), carries[i])], carry |-> carries[Width + 1]]
SecureAdd(x, y) == LET r == Ripple(x, y, 0) IN [sum |-> r.sum, carryOut |-> r.carry]
\* x + ~y + 1; no carry out is a borrow.
SecureSub(x, y) ==
  LET r == Ripple(x, [i \in 1..Width |-> Negation(y[i])], 1) IN [diff |-> r.sum, borrowOut |-> Negation(r.carry)]
SecureSelect(cond, a, b) == [i \in 1..Width |-> Xor(b[i], cond * Xor(a[i], b[i]))]

\* Restoring division, from the highest bit: the remainder takes the next bit of
\* the numerator and gives the denominator up where it can.
DivisionStep(state, num, denom, i) ==
  LET shifted == <<num[i]>> \o SubSeq(state.remainder, 1, Width - 1)
      sub == SecureSub(shifted, denom)
  IN [remainder |-> SecureSelect(sub.borrowOut, shifted, sub.diff),
      quotient |-> [state.quotient EXCEPT ![i] = Negation(sub.borrowOut)]]
SecureDivide(num, denom) ==
  LET after[i \in 1..(Width + 1)] ==
        IF i = Width + 1 THEN [remainder |-> Bits(0), quotient |-> Bits(0)]
        ELSE DivisionStep(after[i + 1], num, denom, i)
  IN [quotient |-> after[1].quotient, remainder |-> after[1].remainder,
      divByZero |-> Truth(\A i \in 1..Width : denom[i] = 0)]

\* secureLessThan: from the highest bit, the first that differs decides; no bit
\* is looked at again once one has.
SecureLessThan(x, y) ==
  LET from[i \in 1..(Width + 1)] ==
        IF i = Width + 1 THEN [result |-> 0, decided |-> 0]
        ELSE LET first == Xor(x[i], y[i]) * Negation(from[i+1].decided)
             IN [result |-> Disjunction(<<from[i+1].result, first * y[i]>>),
                 decided |-> Disjunction(<<from[i+1].decided, first>>)]
  IN from[1].result
SecureEqual(x, y) == Conjunction([i \in 1..Width |-> Negation(Xor(x[i], y[i]))])
=============================================================================
