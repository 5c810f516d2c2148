------------------------------ MODULE SetShares ------------------------------
(* What N parties compute on secret sets in src/volePSI/upstream/mpso: party 0's
   cuckoo table is looked up in every sender's simple table by an oblivious
   programmable function (mpso/PMT.cpp), the shares of what it finds are multiplied
   by a random factor (offlineGen/BeaverTriplesGen.cpp) and shuffled from prepared
   correlations (shuffle/). Words of Degree bits are the sets of their bits; the
   code's have 64. *)
EXTENDS MacCascade

CONSTANTS
  N,                  \* parties
  Bins,               \* of a table
  HashTo,             \* per id: the bins its three hashes send it to
  Draw(_, _, _, _)    \* per session: the random word at a place of one of its parties

ASSUME SetAssumption ==
  /\ N \in Nat /\ N >= 2 /\ Degree \in Nat /\ Degree >= 2 /\ Bins \in Nat \ {0}
  /\ \A id \in DOMAIN HashTo : id \in Element \ {{}} /\ HashTo[id] \in [1..3 -> 1..Bins]

Party == 0..(N - 1)
Sender == Party \ {0}
Bin == 1..Bins
Number(w) == FoldSet(LAMBDA e, n : n + 2^e, 0, w)
Word(n) == {e \in 0..(Degree - 1) : ((n % 2^Degree) \div 2^e) % 2 = 1}

\* Words are added up without carries, or modulo 2^Degree.
Add(ring, x, y) == IF ring = "xor" THEN Plus(x, y) ELSE Word(Number(x) + Number(y))
Minus(ring, x) == IF ring = "xor" THEN x ELSE Word(2^Degree - Number(x))
AddAll(ring, xs, ys) == [i \in DOMAIN xs |-> Add(ring, xs[i], ys[i])]
Zeros == [b \in Bin |-> {}]
TotalOf(ring, vectors, S) == FoldSet(LAMBDA p, acc : AddAll(ring, acc, vectors[p]), Zeros, S)
-----------------------------------------------------------------------------
\* An id is filed under itself and the number of a hash: in a simple table under
\* all three, in a cuckoo table under one, alone. An empty bin has the zero block.
Empty == [id |-> {}, hash |-> 1]
KeysIn(set, b) == {k \in [id : set, hash : 1..3] : HashTo[k.id][k.hash] = b}
InsertItems(set) == [b \in Bin |-> KeysIn(set, b)]
Cuckoos(set) ==
  {t \in [Bin -> [id : set, hash : 1..3] \cup {Empty}] :
     /\ \A b \in Bin : t[b] = Empty \/ t[b] \in KeysIn(set, b)
     /\ \A id \in set : \E b \in Bin : t[b].id = id /\ \A c \in Bin \ {b} : t[c].id # id}
Block(key) == Plus(key.id, Word(key.hash - 1))
Hash(w) == Times(w, {1})

\* Prepared for a pair: B for the sender with D, A and C for the receiver.
VoleGenSend(s, what, q) == [D |-> Draw(s, what \o "D", q, 1), B |-> [b \in Bin |-> Draw(s, what \o "B", q, b)]]
VoleGenRecv(s, what, q) ==
  LET theirs == VoleGenSend(s, what, q)
      C == [b \in Bin |-> Draw(s, what \o "C", q, b)]
  IN [C |-> C, A |-> [b \in Bin |-> Plus(theirs.B[b], Times(C[b], theirs.D))]]

\* opprfRecvPSI64 and opprfRecvPSICS64: the receiver sends its table masked, and looks its keys up in
\* the function it gets back; a key that is not encoded decodes to anything.
DiffC(table, vole) == [b \in Bin |-> Plus(Block(table[b]), vole.C[b])]
Learned(okvs, table, vole, junk) ==
  [b \in Bin |-> Plus(IF table[b] \in DOMAIN okvs THEN okvs[table[b]] ELSE junk[b], Hash(vole.A[b]))]
\* opprfSendPSI64: every key of a bin is programmed to the bin's label.
Pad(key, b, vole, diff) == Hash(Plus(vole.B[b], Times(Plus(Block(key), diff[b]), vole.D)))
BinOf(key) == HashTo[key.id][key.hash]
OkvsOfLabels(simple, vole, diff, label) ==
  [k \in UNION {simple[b] : b \in Bin} |-> Plus(label[BinOf(k)], Pad(k, BinOf(k), vole, diff))]
\* opprfSendPSICS64: to the id's value less the bin's label.
OkvsOfValues(simple, vole, diff, label, value) ==
  [k \in UNION {simple[b] : b \in Bin} |->
     Plus(Add("add", Word(value[k.id]), Minus("add", label[BinOf(k)])), Pad(k, BinOf(k), vole, diff))]
-----------------------------------------------------------------------------
\* drityBeaverGen64: shares of a b = c.
BeaverGen64(s) ==
  LET a == [p \in Party |-> [b \in Bin |-> Draw(s, "a", p, b)]]
      f == [p \in Party |-> [b \in Bin |-> Draw(s, "factor", p, b)]]
      c == [p \in Party |-> [b \in Bin |-> Draw(s, "c", p, b)]]
      product == [b \in Bin |-> Times(TotalOf("xor", a, Party)[b], TotalOf("xor", f, Party)[b])]
  IN [a |-> a, b |-> f, c |-> [c EXCEPT ![N - 1] = PlusAll(product, TotalOf("xor", c, Party \ {N - 1}))]]
\* beaverTripleMulOnline64, before and after party 0 has added up what is masked:
\* shares of the input times the factor.
MaskedInput(triple, p, input) == PlusAll(input, triple.a[p])
Product(triple, p, sum) == [b \in Bin |-> Plus(Times(sum[b], triple.b[p][b]), triple.c[p][b])]
-----------------------------------------------------------------------------
\* ShareCorrelationXor::generate and ShareCorrelationAdd::generate, for the
\* permutations pi. Party p has pi, a[p], aprime[p], b[p]; the last has delta.
Correlated(s, what, ring, pi) ==
  LET drawn(name, p) == [b \in Bin |-> Draw(s, what \o name, p, b)]
      a == [p \in Sender |-> drawn("a", p)]
      aprime == [p \in Party |-> drawn("p", p)]
      b == [p \in Party |-> drawn("b", p)]
      carried[p \in Party] ==
        LET sum == IF p = 0 THEN TotalOf(ring, a, Sender) ELSE AddAll(ring, carried[p - 1], aprime[p - 1])
        IN PermutedRows(sum, pi[p])
      spread == TotalOf(ring, b, Party \ {N - 1})
  IN [pi |-> pi, a |-> a, aprime |-> aprime, b |-> b,
      delta |-> AddAll(ring, carried[N - 1], [i \in Bin |-> Minus(ring, spread[i])])]
OrdersOf(s, what) == [p \in Party |-> FisherYates(Bins, [i \in 2..Bins |-> 1 + (Number(Draw(s, what, p, i)) % i)])]
GenerateXor(s, what) == Correlated(s, what, "xor", OrdersOf(s, what))
\* Mutant: the sums are shuffled by permutations of their own.
GenerateAddAfresh(s, what, first) == Correlated(s, what, "add", OrdersOf(s, what))
\* The permutations are those of a correlation written before.
GenerateAdd(s, what, first) == Correlated(s, what, "add", first.pi)

\* runXOR and runADD: what a sender gives party 0, what party 0 hands to party 1,
\* what a party hands on, and the shares everybody is left with. The last party of
\* runADD takes delta away.
ToFirst(ring, sc, p, data) == AddAll(ring, sc.a[p], data)
FromFirst(ring, sc, sum) == AddAll(ring, PermutedRows(sum, sc.pi[0]), sc.aprime[0])
HandOn(ring, sc, p, z) == AddAll(ring, PermutedRows(z, sc.pi[p]), sc.aprime[p])
Kept(ring, sc, p) == [i \in Bin |-> Minus(ring, sc.b[p][i])]
LastShare(ring, sc, z) == AddAll(ring, PermutedRows(z, sc.pi[N - 1]), [i \in Bin |-> Minus(ring, sc.delta[i])])
-----------------------------------------------------------------------------
\* voleGenMPSI and voleGenMPSICS.
Voles(s, what) == [q \in Sender |-> [send |-> VoleGenSend(s, what, q), recv |-> VoleGenRecv(s, what, q)]]
CardVoles(s) == [PSI |-> Voles(s, "psi")]
SumVoles(s) == [PSICS1 |-> Voles(s, "psics1"), PSICS2 |-> Voles(s, "psics2")]
\* What the preparation of a count leaves in the directory, and that of a sum: both
\* write the same file of triples, so the later one's is used by both.
CardPreGen(s) == [vole |-> CardVoles(s), triple |-> BeaverGen64(s), psic |-> GenerateXor(s, "psic")]
SumPreGen(s, card) ==
  LET first == GenerateXor(s, "psics1")
      sums == SumVoles(s)
  IN [vole |-> [PSI |-> card.vole.PSI, PSICS1 |-> sums.PSICS1, PSICS2 |-> sums.PSICS2], triple |-> BeaverGen64(s),
      psic |-> card.psic, psics1 |-> first, psics2 |-> GenerateAdd(s, "psics2", first)]
Prepared(s) == SumPreGen(s, CardPreGen(s))
=============================================================================
