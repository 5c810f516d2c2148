---------------------------- MODULE OiraInvariant ----------------------------
(* The inductive invariant of a session of Oira: what each party holds and each socket
   carries, said of the session's sets, values and draws and of where the parties are. *)
EXTENDS OiraSession

\* A fold over a finite set takes its members one by one, in an order that is chosen.
Taken(t) == CHOOSE x \in t : TRUE
FoldedOn(H, base, t, g) == IF t = {} THEN base ELSE H[Taken(t)][g[t \ {Taken(t)}]]
IsFold(g, H, base, S, Vs) == g \in [SUBSET S -> Vs] /\ \A t \in SUBSET S : g[t] = FoldedOn(H, base, t, g)
FoldOf(H, base, S, Vs) == (CHOOSE g : IsFold(g, H, base, S, Vs))[S]
Adding(f) == [x \in DOMAIN f |-> [n \in Int |-> n + f[x]]]
SumOver(f, S) == FoldOf(Adding(f), 0, S, Int)

\* Words, and orders of rows.
Modulus == 2^Degree
Vector == [Bin -> Element]
Orders(n) == {pi \in [1..n -> 1..n] : (\A x, y \in 1..n : pi[x] = pi[y] => x = y) /\ \A y \in 1..n : \E x \in 1..n : pi[x] = y}
Turning == Orders(Bins)
Chained(g, S, a, H) == g \in [Party -> S] /\ g[0] = a /\ \A p \in Sender : g[p] = H[p][g[p - 1]]
TurnStep(pi) == [p \in Nat |-> [t \in Turning |-> IF p \in Party THEN [i \in Bin |-> t[pi[p][i]]] ELSE t]]
\* How the rows lie when a party has turned them, and all before it.
Turn(pi) == CHOOSE g : Chained(g, Turning, pi[0], TurnStep(pi))
CarriedNext(ring, pi, a, ap, p, f) ==
  PermutedRows(IF p = 0 THEN TotalOf(ring, a, Sender) ELSE AddAll(ring, f[p - 1], ap[p - 1]), pi[p])
\* What the masks have become when a party has turned them.
Carried(ring, pi, a, ap) == CHOOSE f : f = [p \in Party |-> CarriedNext(ring, pi, a, ap, p, f)]
Masks(ring, sc) == Carried(ring, sc.pi, sc.a, sc.aprime)
\* What a party hands on, and what it is left with.
Handed(ring, sc, J, p) == AddAll(ring, AddAll(ring, PermutedRows(J, Turn(sc.pi)[p]), Masks(ring, sc)[p]), sc.aprime[p])
Left(ring, sc, J, p) == IF p = N - 1 THEN LastShare(ring, sc, Handed(ring, sc, J, N - 2)) ELSE Kept(ring, sc, p)
LeftOver(ring, sc, J) == [p \in Party |-> Left(ring, sc, J, p)]
-----------------------------------------------------------------------------
\* What a shuffle is prepared with in a session, what party p hands on in it, and what
\* all are left with.
CorrOf(c, kind) ==
  CASE kind = "PSI" -> Prepared(c.seed).psic [] kind = "PSICS1" -> Prepared(c.seed).psics1 [] OTHER -> Prepared(c.seed).psics2
HandedOf(c, kind, p) == Handed(RingOf(kind), CorrOf(c, kind), JointOf(c, kind), p)
OutOf(c, kind) == LeftOver(RingOf(kind), CorrOf(c, kind), JointOf(c, kind))
\* The bins that open to 0, what the parties find the values there to be, and all of it.
HitsOf(c, kind) == {b \in Bin : TotalOf("xor", OutOf(c, kind), Party)[b] = {}}
Items(w, B) == FoldSet(LAMBDA b, n : n + Number(w[b]), 0, B)
SumBy(c, p) == Items(OutOf(c, "PSICS2")[p], HitsOf(c, "PSICS1")) % Modulus
SumsOf(c) == [p \in Party |-> SumBy(c, p)]
AggOf(c) == (SumsOf(c)[0] + SumOver(SumsOf(c), Sender)) % Modulus
-----------------------------------------------------------------------------
\* What is on its way are the messages of a stream from one place up to another.
Window(ch, S, v, u) == /\ v \in Nat /\ u \in Nat /\ v <= u /\ ch = [i \in 1..(u - v) |-> S[v + i]]
\* How many messages a sender has sent party 0 at a place of a phase, and how many of
\* party 0's it has answered; how many a party has had passed on by the one before it,
\* party 0 by itself.
SentUp(f, h, bad) ==
  IF f = 1
  THEN IF h \in {"start", "meet", "lookup", "returned"} THEN 0
       ELSE IF h = "multiply" THEN 1 ELSE IF h \in {"product", "shuffle"} THEN 2 ELSE 3
  ELSE IF h = "returned" THEN (IF bad = "values" THEN 4 ELSE 11)
       ELSE IF h \in {"meet", "lookup"} THEN 4 ELSE IF h = "lookup2" THEN 5 ELSE IF h = "multiply" THEN 6
       ELSE IF h \in {"product", "shuffle"} THEN 7 ELSE IF h \in {"pass", "shuffleItems"} THEN 8
       ELSE IF h \in {"passItems", "reveal"} THEN 9 ELSE 10
Answered(f, h, bad) ==
  IF f = 1
  THEN IF h \in {"start", "meet", "lookup", "returned"} THEN 0
       ELSE IF h \in {"multiply", "product"} THEN 1 ELSE 2
  ELSE IF h = "returned" THEN (IF bad = "values" THEN 2 ELSE 6)
       ELSE IF h \in {"meet", "lookup"} THEN 2 ELSE IF h = "lookup2" THEN 3
       ELSE IF h \in {"multiply", "product"} THEN 4 ELSE 5
Passed(f, h, bad) ==
  IF f = 1 THEN IF h = "reveal" THEN 1 ELSE 0
  ELSE IF h \in {"returned", "release"} THEN (IF bad = "values" THEN 1 ELSE 3)
       ELSE IF h \in {"shuffleItems", "passItems"} THEN 2
       ELSE IF h \in {"reveal", "bits", "sums"} THEN 3 ELSE 1
\* How many party 0 has sent all senders at a place that is no lookup, and how many it
\* has taken of each.
Asked0(f, h, bad) ==
  IF f = 1 THEN IF h \in {"start", "meet", "lookup", "returned"} THEN 0 ELSE IF h = "multiply" THEN 1 ELSE 2
  ELSE IF h \in {"returned", "release"} THEN (IF bad = "values" THEN 2 ELSE 6)
       ELSE IF h \in {"meet", "lookup"} THEN 2 ELSE IF h = "multiply" THEN 4
       ELSE IF h = "sums" THEN 6 ELSE 5
TakenUp(f, h, bad) ==
  IF f = 1
  THEN IF h \in {"start", "meet", "lookup", "returned"} THEN 0
       ELSE IF h = "multiply" THEN 1 ELSE IF h = "shuffle" THEN 2 ELSE 3
  ELSE IF h \in {"returned", "release"} THEN (IF bad = "values" THEN 4 ELSE 11)
       ELSE IF h \in {"meet", "lookup"} THEN 4 ELSE IF h = "multiply" THEN 6 ELSE IF h = "shuffle" THEN 7
       ELSE IF h = "shuffleItems" THEN 8 ELSE IF h = "reveal" THEN 9 ELSE 10
\* How far the streams to and from a sender are, whose messages come from party 0 and,
\* if it is the first, in the shuffle from there too.
U(q) == SentUp(phase[q], pc[q], conf.bad[q])
X(p) == Passed(phase[p], pc[p], conf.bad[p])
Second(q, n) == IF q = 1 THEN n ELSE 0
W(q) == Answered(phase[q], pc[q], conf.bad[q]) + Second(q, X(q))
Y(q) == Asked0(phase[0], pc[0], conf.bad[0]) + Second(q, X(0)) + asked[q]
V(q) == TakenUp(phase[0], pc[0], conf.bad[0]) + Len(learned[q])
\* Everything a sender sends party 0, everything party 0 sends it, and everything the
\* sender before it passes on to it.
UpStream(c, q) ==
  <<OkvsOf(c, "PSI", q), MaskedInput(TripleOf(c), q, DataOf(c, "PSI")[q]),
    ToFirst("xor", CorrOf(c, "PSI"), q, InOf(c, "PSI")[q]), OutOf(c, "PSI")[q],
    OkvsOf(c, "PSICS1", q), OkvsOf(c, "PSICS2", q), MaskedInput(TripleOf(c), q, DataOf(c, "PSICS1")[q]),
    ToFirst("xor", CorrOf(c, "PSICS1"), q, InOf(c, "PSICS1")[q]),
    ToFirst("add", CorrOf(c, "PSICS2"), q, InOf(c, "PSICS2")[q]), OutOf(c, "PSICS1")[q], SumBy(c, q)>>
DownStream(c, q) ==
  IF q = 1
  THEN <<DiffOf(c, "PSI", q), MaskOf(c, "PSI"), HandedOf(c, "PSI", 0),
         DiffOf(c, "PSICS1", q), DiffOf(c, "PSICS2", q), MaskOf(c, "PSICS1"),
         HandedOf(c, "PSICS1", 0), HandedOf(c, "PSICS2", 0), HitsOf(c, "PSICS1")>>
  ELSE <<DiffOf(c, "PSI", q), MaskOf(c, "PSI"), DiffOf(c, "PSICS1", q), DiffOf(c, "PSICS2", q), MaskOf(c, "PSICS1"),
         HitsOf(c, "PSICS1")>>
OverStream(c, q) == <<HandedOf(c, "PSI", q - 1), HandedOf(c, "PSICS1", q - 1), HandedOf(c, "PSICS2", q - 1)>>
UpOk(q) == Window(chan[<<q, 0>>], UpStream(conf, q), V(q), U(q))
DownOk(q) == Window(chan[<<0, q>>], DownStream(conf, q), W(q), Y(q))
OverOk(q) == q # 1 => Window(chan[<<q - 1, q>>], OverStream(conf, q), X(q), X(q - 1))
\* Nothing is sent elsewhere.
Used == {<<q, 0>> : q \in Sender} \cup {<<0, q>> : q \in Sender} \cup {<<q - 1, q>> : q \in Sender}
Sockets ==
  /\ DOMAIN chan = Party \X Party /\ chan = [d \in Party \X Party |-> chan[d]]
  /\ \A q \in Sender : UpOk(q) /\ DownOk(q) /\ OverOk(q)
  /\ \A d \in (Party \X Party) \ Used : chan[d] = <<>>
-----------------------------------------------------------------------------
\* Where a party can be in a phase.
Reached(p, f) ==
  IF f = 1
  THEN IF p = 0 THEN {"start", "meet", "lookup", "multiply", "shuffle", "reveal", "returned"}
       ELSE {"start", "meet", "lookup", "multiply", "product", "shuffle", "pass", "reveal", "returned"}
  ELSE IF p = 0 THEN {"meet", "lookup", "multiply", "shuffle", "shuffleItems", "reveal", "sums", "release", "returned"}
       ELSE {"meet", "lookup", "lookup2", "multiply", "product", "shuffle", "pass", "shuffleItems", "passItems",
             "reveal", "bits", "returned"}
PlaceOk(p) ==
  /\ pc[p] \in Reached(p, phase[p])
  /\ phase[p] = 2 /\ conf.bad[p] = "values" => pc[p] \in {"release", "returned"}
  /\ pc[p] = "meet" => met[p] < N - 1
  /\ pc[p] = "start" => met[p] = 0
Standing ==
  /\ conf \in Confs /\ files = Prepared(conf.seed)
  /\ pc \in [Party -> Places] /\ phase \in [Party -> 1..2] /\ met \in [Party -> 0..(N - 1)]
  /\ \A p \in Party : PlaceOk(p)
\* What a party's vectors are there.
KindAt(f) == IF f = 1 THEN "PSI" ELSE "PSICS1"
ShareOk(p) ==
  /\ pc[p] \in {"lookup2", "multiply", "product"} => share[p] = DataOf(conf, KindAt(phase[p]))[p]
  /\ pc[p] = "shuffle" => share[p] = ProdOf(conf, KindAt(phase[p]))[p]
  /\ pc[p] \in {"shuffleItems", "passItems", "reveal"} => share[p] = OutOf(conf, KindAt(phase[p]))[p]
ItemOk(p) ==
  phase[p] = 2 =>
    /\ pc[p] \in {"multiply", "product", "shuffle", "pass", "shuffleItems"} => item[p] = DataOf(conf, "PSICS2")[p]
    /\ pc[p] \in {"reveal", "bits"} => item[p] = OutOf(conf, "PSICS2")[p]
Holding ==
  /\ share \in [Party -> Vector] /\ item \in [Party -> Vector]
  /\ \A p \in Party : ShareOk(p) /\ ItemOk(p)
\* What party 0 has looked up so far.
LookedUp(q) ==
  /\ Len(learned[q]) <= asked[q] /\ asked[q] <= Len(learned[q]) + 1 /\ asked[q] <= Len(Kinds(phase[0]))
  /\ pc[0] # "lookup" => asked[q] = 0
  /\ \A i \in 1..Len(learned[q]) : learned[q][i] = FoundIn(conf, Kinds(phase[0])[i], q)
Learning ==
  /\ asked \in [Sender -> 0..2] /\ learned \in [Sender -> Seq(Vector)]
  /\ \A q \in Sender : LookedUp(q)
\* What it has counted and summed.
Counting ==
  /\ card = IF phase[0] = 1 THEN 0 ELSE Cardinality(HitsOf(conf, "PSI"))
  /\ bits \subseteq Bin
  /\ agg = IF phase[0] = 2 /\ pc[0] = "sums" THEN SumBy(conf, 0)
           ELSE IF phase[0] = 2 /\ pc[0] \in {"release", "returned"} /\ conf.bad[0] # "values" THEN AggOf(conf) ELSE 0
  /\ result # NoResult => phase[0] = 2 /\ pc[0] = "returned"
\* Who has entered the session has paid, and the scopes' files say so.
Entered(p) == pc[p] # "start" /\ ~(phase[p] = 1 /\ pc[p] = "returned")
ChargedTo(s) == {p \in charged : Scope(p) = s}
Paying ==
  /\ charged \subseteq Party /\ early \subseteq Party
  /\ \A p \in Party : Entered(p) => conf.bad[p] # "args" /\ (Scope(p) # None => p \in charged)
  /\ \A p \in charged : Entered(p) /\ Scope(p) # None /\ conf.bad[p] # "args"
  /\ room \in [DOMAIN conf.room -> Nat]
  /\ \A s \in DOMAIN conf.room : room[s] + Cardinality(ChargedTo(s)) = conf.room[s]
Inv == Standing /\ Sockets /\ Holding /\ Learning /\ Counting /\ Paying
=============================================================================
