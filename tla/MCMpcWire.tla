----------------------------- MODULE MCMpcWire -----------------------------
(* MpcWire on the circuits of MpcCircuits: a comparison of two bits, an equality
   of three, a sort of three elements and a sentinel, and two private joins, of
   two rows per party over one id and of one row over two; and what each should
   come to, a join as one process computes it. *)
EXTENDS MpcWire, MpcCircuits, FiniteSets

InClear == INSTANCE Joins WITH Width <- 4
Words == 0..15

\* On every two words: the circuits' sum, difference, quotient and order are the
\* numbers', carries, borrows and a zero divisor are told, and products and
\* conjunctions of sharings join to products and conjunctions (secureAddU64Bin,
\* secureSubU64Bin, secureDivideU64Bin, secureLessThan, secureMultiply, secureAnd).
ASSUME ArithmeticRight ==
  \A x, y \in Words :
    LET X == InClear!Bits(x) Y == InClear!Bits(y)
        sum == InClear!SecureAdd(X, Y)
        difference == InClear!SecureSub(X, Y)
        ratio == InClear!SecureDivide(X, Y)
        number(bits) == InClear!Value(bits)
        truth(b) == IF b THEN 1 ELSE 0
    IN /\ number(sum.sum) + 16 * sum.carryOut = x + y
       /\ number(difference.diff) - 16 * difference.borrowOut = x - y
       /\ ratio.divByZero = truth(y = 0)
       /\ y # 0 => number(ratio.quotient) = x \div y /\ number(ratio.remainder) = x % y
       /\ InClear!SecureLessThan(X, Y) = truth(x < y) /\ InClear!SecureEqual(X, Y) = truth(x = y)
ASSUME ProductsRight ==
  \A x, y \in Words, u, v \in {1, 14}, others \in {<<3, 5>>, <<15, 0>>} :
    LET triple == InClear!TripleOf(u, v, <<others, <<v, 4>>, <<2, u>>>>)
        bits == InClear!TripleBitOf(u % 2, v % 2, <<(<<1, 0>>), (<<x % 2, 1>>), (<<0, y % 2>>)>>)
    IN /\ InClear!Reconstruct(InClear!SecureMultiply(InClear!Share(x, others), InClear!Share(y, <<1, 6>>), triple)) = (x * y) % 16
       /\ InClear!ReconstructBit(InClear!SecureAnd(InClear!ShareBit(x % 2, <<1, 1>>), InClear!ShareBit(y % 2, <<u % 2, 0>>), bits))
            = (x % 2) * (y % 2)

\* Where the operands and elements of a job are.
At(base, n) == [i \in 1..n |-> base + i]
Element(base, width, payload) == [key |-> At(base, width), payload |-> At(base + width, payload)]
Elements(base, n, width, payload) == [k \in 1..n |-> Element(base + (k - 1) * (width + payload), width, payload)]

X(n) == At(10, n)
Y(n) == At(20, n)
SortBag == Elements(10, 3, 2, 1)
SortPad == Elements(20, 1, 2, 1)
JoinBag == Elements(10, 4, 2, 2)
JoinRows(n) == Elements(30, n, 2, 5)

MCJob == {"less", "equal", "sort", "joinRows", "joinIds"}
Less == LessThan(X(2), Y(2))
Equals == Equal(X(3), Y(3), 30)
Sorted == Sort(SortBag, SortPad)
JoinOfRows == PrivateJoin(JoinBag, <<>>, 2, 2, 1, JoinRows(4), <<>>)
JoinOfIds == PrivateJoin(JoinBag, <<>>, 2, 1, 1, JoinRows(2), <<>>)
MCProgram(j) == CASE j = "less" -> Less [] j = "equal" -> Equals [] j = "sort" -> Sorted
                  [] j = "joinRows" -> JoinOfRows [] j = "joinIds" -> JoinOfIds
Cost(j) == CASE j = "less" -> LessThanCost(2) [] j = "equal" -> EqualCost(3) [] j = "sort" -> SortCost(3, 2, 1)
             [] j = "joinRows" -> JoinCost(2, 2, 1, 2, 1) [] j = "joinIds" -> JoinCost(2, 1, 2, 2, 1)
MCSize(j) == {Cost(j) - 1, Cost(j)}

\* Numbers, and the registers that hold them, lowest bit first.
BitOf(n, i) == (n \div 2^(i - 1)) % 2
Holding(regs, n) == [r \in {regs[i] : i \in DOMAIN regs} |-> BitOf(n, CHOOSE i \in DOMAIN regs : regs[i] = r)]
Number(f, regs) == FoldLeft(LAMBDA n, r : 2 * n + f[r], 0, Reverse(regs))

\* The contents that are public: zeros, sentinels' keys and the party's bit of a
\* composite key, which party 0 holds as they are.
Keys(j) == CASE j = "joinRows" -> <<0, 0, 1, 1>> [] j = "joinIds" -> <<0, 2, 1, 3>>
Registers(j) == CASE j = "less" -> Temporaries \cup 11..12 \cup 21..22
                  [] j = "equal" -> Temporaries \cup 11..13 \cup 21..23 \cup 31..32
                  [] j = "sort" -> Temporaries \cup 11..19 \cup 21..23
                  [] j = "joinRows" -> Temporaries \cup 11..26 \cup 31..58
                  [] j = "joinIds" -> Temporaries \cup 11..26 \cup 31..44
Public(j) ==
  LET blank(S) == [r \in S |-> 0]
  IN CASE j \in {"less", "equal"} -> blank(Registers(j) \ 11..29)
       [] j = "sort" -> Holding(SortPad[1].key, 3) @@ blank(Temporaries \cup 21..23)
       [] OTHER -> [r \in {JoinBag[k].key[1] : k \in 1..4} |-> IF r \in 11..18 THEN 0 ELSE 1]
                     @@ blank(Registers(j) \ 11..26)
MCMask(j, s) == Public(j) @@ [r \in Registers(j) |-> (s * r + r \div 3) % 2]

\* The inputs: all operands; three keys below the sentinel's; every choice of
\* real and padding rows, with two of their data or with every.
Elem(e, key, payload) == Holding(e.key, key) @@ Holding(e.payload, payload)
MCInput(j) ==
  CASE j = "less" -> {Holding(X(2), x) @@ Holding(Y(2), y) @@ Public(j) : x, y \in 0..3}
    [] j = "equal" -> {Holding(X(3), x) @@ Holding(Y(3), y) @@ Public(j) : x, y \in 0..7}
    [] j = "sort" -> {Elem(SortBag[1], x, 0) @@ Elem(SortBag[2], y, 1) @@ Elem(SortBag[3], z, b) @@ Public(j)
                        : x, y, z \in 0..2, b \in Bit}
    [] OTHER -> {Elem(JoinBag[1], Keys(j)[1], a) @@ Elem(JoinBag[2], Keys(j)[2], b)
                   @@ Elem(JoinBag[3], Keys(j)[3], c) @@ Elem(JoinBag[4], Keys(j)[4], d) @@ Public(j)
                   : a \in 0..1, b \in 2..3, c \in {1, 2}, d \in 0..3}

\* The 32 valid triples, in an order the seed changes.
MCTripleAt(s, n) ==
  LET bit(i) == BitOf(n * (2 * s + 1) + s, i)
      w0 == bit(5)
  IN [u |-> [p \in Party |-> bit(1 + p)], v |-> [p \in Party |-> bit(3 + p)],
      w |-> [p \in Party |-> IF p = 0 THEN w0 ELSE Xor(w0, Xor(bit(1), bit(2)) * Xor(bit(3), bit(4)))]]
-----------------------------------------------------------------------------
\* As many elements as there were of every value, in two sequences.
SameElements(s, t) == \A v \in Range(s) \cup Range(t) : Cardinality({i \in DOMAIN s : s[i] = v}) = Cardinality({i \in DOMAIN t : t[i] = v})
Values(f, elements) == [k \in DOMAIN elements |-> <<Number(f, elements[k].key), Number(f, elements[k].payload)>>]

\* The rows of the bag an output row is made of, and what it says of them.
Sources(j) == IF j = "joinRows" THEN << <<1, 3>>, <<2, 3>>, <<1, 4>>, <<2, 4>> >> ELSE << <<1, 3>>, <<2, 4>> >>
RowOf(f, s) == LET real(k) == f[JoinBag[k].payload[1]] data(k) == f[JoinBag[k].payload[2]]
               IN <<Number(f, JoinBag[s[1]].key) \div 2, data(s[1]), data(s[2]), real(s[1]) * real(s[2])>>
RowIn(f, row) == LET at == row.payload IN <<Number(f, SubSeq(at, 1, 2)), f[at[3]], f[at[4]], f[at[5]]>>

\* The join of up to three tables of up to two rows: in one process, by the
\* provider on the senders' blobs and on shares, it is every choice of one row per
\* party with one id, and it throws when a party has more than M rows of an id;
\* the windows on shares are where their position says (executePrivateJoinInMemory,
\* runSpRoleJoin, mpcExecutePrivateJoinInMemory).
Row(id, datum) == [id |-> id, data |-> <<datum>>]
Tables(p) == {<<>>, <<Row(1, p)>>, <<Row(2, p), Row(1, p + 4)>>, <<Row(1, p), Row(1, p + 4)>>}
Doubled(table) == Len(table) = 2 /\ table[1].id = table[2].id
Chosen(tables) ==
  {c \in [DOMAIN tables -> 1..2] :
     \A p \in DOMAIN tables : c[p] <= Len(tables[p]) /\ (c[1] <= Len(tables[1]) => tables[p][c[p]].id = tables[1][c[1]].id)}
ASSUME JoinsAgree ==
  \A n \in 2..3, M \in 1..2 : \A tables \in {t \in [1..n -> UNION {Tables(p) : p \in 1..n}] : \A p \in 1..n : t[p] \in Tables(p)} :
    LET clear == InClear!PrivateJoinInMemory(tables, M, 1)
        written == InClear!SpJoin([p \in 1..n |-> InClear!SerializeRows(tables[p])], M, 1, [k \in 0..8 |-> [i \in 1..k |-> k + 1 - i]])
        shared == InClear!MpcPrivateJoin(tables, n - 1, M, 1)
        bag == InClear!NetworkSort(InClear!MpcBag(tables, n - 1, M, 1), [key |-> 15, payload |-> {}])
        joined(c) == [id |-> tables[1][c[1]].id, intersection |-> TRUE, joined |-> [p \in 1..n |-> tables[p][c[p]].data[1]]]
    IN /\ clear.threw = (M = 1 /\ \E p \in 1..n : Doubled(tables[p]))
       /\ ~clear.threw =>
            /\ Len(clear.rows) = Cardinality(Chosen(tables)) /\ Range(clear.rows) = {joined(c) : c \in Chosen(tables)}
            /\ \A i \in DOMAIN bag : InClear!MpcWindowEnds(bag, n - 1)[i] = 1 <=> i % (n * M) = 0
       /\ \A other \in {written, shared} : other.threw = clear.threw /\ SameElements(other.rows, clear.rows)

\* What the join of a job's real rows is in one process.
InOneProcess(f) ==
  LET table(p) == LET real == SelectSeq([k \in 1..4 |-> k], LAMBDA k : f[JoinBag[k].payload[1]] = 1 /\ f[JoinBag[k].key[1]] = p)
                  IN [k \in DOMAIN real |-> Row(Number(f, JoinBag[real[k]].key) \div 2, f[JoinBag[real[k]].payload[2]])]
      rows == InClear!PrivateJoinInMemory(<<table(0), table(1)>>, 2, 1).rows
  IN [k \in DOMAIN rows |-> <<rows[k].id>> \o rows[k].joined \o <<1>>]

\* What a job computes.
Right(j, f, g) ==
  CASE j = "less" -> g[Result] = (IF Number(f, X(2)) < Number(f, Y(2)) THEN 1 ELSE 0)
    [] j = "equal" -> g[32] = (IF Number(f, X(3)) = Number(f, Y(3)) THEN 1 ELSE 0)
    [] j = "sort" -> /\ SameElements(Values(f, SortBag), Values(g, SortBag))
                     /\ \A k \in 1..2 : Number(g, SortBag[k].key) <= Number(g, SortBag[k + 1].key)
    [] OTHER -> LET rows == JoinRows(Len(Sources(j)))
                    out == [k \in DOMAIN rows |-> RowIn(g, rows[k])]
                IN /\ SameElements(out, [k \in DOMAIN rows |-> RowOf(f, Sources(j)[k])])
                   /\ \A k \in 1..(Len(rows) - 1) : out[k][4] >= out[k + 1][4]
                   /\ SameElements(SelectSeq(out, LAMBDA row : row[4] = 1), InOneProcess(f))

\* When both parties finish, their shares join to what the job is for: less-than,
\* equality, the elements in order of their keys with their payloads and without
\* the sentinel, and the join's rows, each id's and each combination's, marked
\* when every party's row is real, those first, and those the rows one process
\* that sees the tables joins.
OutputRight ==
  (\A p \in Party : Finished(p)) => Right(job, input, [r \in DOMAIN plain |-> Xor(reg[0][r], reg[1][r])])

\* A bag of as many triples as the cost functions say suffices, and one less does
\* not: no circuit takes a triple the bag was not filled for, nor leaves one over.
CostExact ==
  /\ size >= Cost(job) => \A p \in Party : phase[p] # "threw"
  /\ \A p \in Party : Finished(p) => size >= Cost(job)
=============================================================================
