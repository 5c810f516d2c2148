---------------------------- MODULE SharedWords ----------------------------
(* Words of Width bits, 64 in the code, as the wire phases of the statistics
   compute on them: a shared word stands for the word its shares join to, which
   MpcWire and its circuits establish for the gates. An operator here is what one
   of the shared circuits of src/volePSI computes, wrap-around included, with the
   number of triples the code says it takes. *)
EXTENDS Integers, Sequences, SequencesExt, FiniteSetsExt

CONSTANT Width
ASSUME WidthAssumption == Width \in 1..14

Bit == {0, 1}
AllOnes == 2^Width - 1
Word == 0..AllOnes
Wrap(x) == x % 2^Width
BitAt(x, i) == (x \div 2^i) % 2
Truth(p) == IF p THEN 1 ELSE 0
Negation(b) == 1 - b
Conjunction(bits) == Truth(\A i \in DOMAIN bits : bits[i] = 1)
Disjunction(bits) == Truth(\E i \in DOMAIN bits : bits[i] = 1)
Select(b, x, y) == IF b = 1 THEN x ELSE y
Total(s) == FoldSeq(LAMBDA x, acc : x + acc, 0, s)
WordTotal(s) == Wrap(Total(s))

\* Adding and multiplying by a public constant keep the low bits.
AddWords(x, y) == Wrap(x + y)
TimesPublic(x, c) == Wrap(x * c)
ShiftRight(x, n) == x \div 2^n

\* A bitonic network on elements with a key, a power of two of them: layers of
\* comparisons of i with i + gap; blocks of size elements alternate in direction,
\* and the last block is all of them. It compares strictly in either direction.
PowersOfTwo(n) == {p \in 1..n : \E e \in 0..n : 2^e = p}
Layers(n) == LET sizes == SetToSortSeq(PowersOfTwo(n) \ {1}, <)
                 gaps(size) == SetToSortSeq(PowersOfTwo(size - 1), >)
             IN FlattenSeq([i \in DOMAIN sizes |-> [j \in DOMAIN gaps(sizes[i]) |-> <<sizes[i], gaps(sizes[i])[j]>>]])
Swaps(x, y, up) == IF up THEN y.key < x.key ELSE x.key < y.key
Layer(xs, size, gap) ==
  [i \in DOMAIN xs |->
     LET lower == ((i - 1) \div gap) % 2 = 0
         a == IF lower THEN i ELSE i - gap
         up == ((i - 1) \div size) % 2 = 0
     IN IF lower = Swaps(xs[a], xs[a + gap], up) THEN xs[a + gap] ELSE xs[a]]
Bitonic(xs) == FoldLeft(LAMBDA ys, layer : Layer(ys, layer[1], layer[2]), xs, Layers(Len(xs)))

NextPowerOfTwo(n) == CHOOSE p \in 1..(2 * n + 1) : /\ p >= n /\ \E e \in 0..n : 2^e = p
                                                   /\ \A q \in PowersOfTwo(p - 1) : q < n
Padded(xs, sentinel) == xs \o [i \in 1..(NextPowerOfTwo(Len(xs)) - Len(xs)) |-> sentinel]
\* Padded with sentinels, sorted, and cut back to the elements there were.
NetworkSort(xs, sentinel) == SubSeq(Bitonic(Padded(xs, sentinel)), 1, Len(xs))
=============================================================================
