----------------------------- MODULE OiraSession -----------------------------
(* What the vectors of a session come to, said of its sets, values and randomness
   alone: the sum of a session of MpOira.cpp is right unless its random words let a
   bin seem common that is not. *)
EXTENDS Oira

LabelOf(c, kind, q) == [b \in Bin |-> Draw(c.seed, kind \o "label", q, b)]
JunkOf(c, kind, q) == [b \in Bin |-> Draw(c.seed, kind \o "junk", q, b)]
PairOf(kind) == CASE kind = "PSI" -> "psi" [] kind = "PSICS1" -> "psics1" [] OTHER -> "psics2"
SendOf(c, kind, q) == VoleGenSend(c.seed, PairOf(kind), q)
RecvOf(c, kind, q) == VoleGenRecv(c.seed, PairOf(kind), q)
\* Party 0's table, a sender's function of it, and what party 0 finds there.
DiffOf(c, kind, q) == DiffC(c.table, RecvOf(c, kind, q))
OkvsOf(c, kind, q) ==
  IF kind = "PSICS2"
  THEN OkvsOfValues(InsertItems(c.set[q]), SendOf(c, kind, q), DiffOf(c, kind, q), LabelOf(c, kind, q), c.value[q])
  ELSE OkvsOfLabels(InsertItems(c.set[q]), SendOf(c, kind, q), DiffOf(c, kind, q), LabelOf(c, kind, q))
FoundIn(c, kind, q) == Learned(OkvsOf(c, kind, q), c.table, RecvOf(c, kind, q), JunkOf(c, kind, q))

\* The parties' shares of the bins before the multiplication, and after it.
RingOf(kind) == IF kind = "PSICS2" THEN "add" ELSE "xor"
AllFound(c, kind) == [q \in Sender |-> FoundIn(c, kind, q)]
DataOf(c, kind) == [p \in Party |-> IF p = 0 THEN TotalOf(RingOf(kind), AllFound(c, kind), Sender) ELSE LabelOf(c, kind, p)]
TripleOf(c) == BeaverGen64(c.seed)
MaskedTotal(triple, data) ==
  AddAll("xor", MaskedInput(triple, 0, data[0]), TotalOf("xor", [q \in Sender |-> MaskedInput(triple, q, data[q])], Sender))
MaskOf(c, kind) == MaskedTotal(TripleOf(c), DataOf(c, kind))
ProdOf(c, kind) == [p \in Party |-> Product(TripleOf(c), p, MaskOf(c, kind))]
InOf(c, kind) == IF kind = "PSICS2" THEN DataOf(c, kind) ELSE ProdOf(c, kind)
JointOf(c, kind) == TotalOf(RingOf(kind), InOf(c, kind), Party)

\* No bin seems common that is not: its random word and its random factor are not 0.
\* The code draws 64 bits for each and leaves the rest to chance.
NoAccident(c) ==
  \A kind \in {"PSI", "PSICS1"} :
    LET joint == JointOf(c, kind)
    IN \A b \in Bin : joint[b] = {} => \A q \in Sender : c.table[b].id \in c.set[q]
\* The sessions something is promised of: party 0 passes no values of a wrong number.
Promised(c) == NoAccident(c) /\ c.bad[0] # "values"
=============================================================================
