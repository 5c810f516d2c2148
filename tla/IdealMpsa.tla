----------------------------- MODULE IdealMpsa -----------------------------
(* What a session of src/volePSI/MpsaDriver.cpp promises its service provider:
   one table, or none. The table has a row for every id in all the files (padded
   with dummies), each row has one row of every sender's contribution, and all
   columns are in one secret order; a driver at fault may give all columns of a
   sender an order of their own, and no check sees it. A contribution is the sender's payloads of
   the common ids, in the order of its own file. *)
EXTENDS Integers, Sequences, FiniteSets, SequencesExt, FiniteSetsExt

CONSTANTS
  N, W,          \* senders, and blocks in a payload
  NoTable

VARIABLES
  conf,          \* the flags of the session and its fault
  csv,           \* per sender: the ids of its file
  table          \* what the provider has written

Sender == 0 .. N-1
Column == Sender \X (1..W)

Common == {id \in UNION {ToSet(csv[i]) : i \in Sender} : \A i \in Sender : id \in ToSet(csv[i])}
Height == Max({Cardinality(Common), conf.pad})

\* The elements of a sequence at some of its positions, in their order.
Kept(seq, positions) ==
  [k \in 1..Cardinality(positions) |-> seq[CHOOSE n \in positions : Cardinality({m \in positions : m <= n}) = k]]
Mine(i) == Kept(csv[i], {n \in DOMAIN csv[i] : csv[i][n] \in Common})
\* The block of column c in the k-th row that its sender contributes.
Contribution(c, k) ==
  LET mine == Mine(c[1])
  IN  IF k <= Len(mine) THEN {<<"payload", c[1], mine[k], c[1], c[2]>>}
                        ELSE {<<"dummy", c[1], k, c[1], c[2]>>}

Orders == {pi \in [1..Height -> 1..Height] : IsInjective(pi)}
InOrder(order) == [c \in Column |-> [k \in 1..Height |-> Contribution(c, order[c[1]][k])]]

\* A cascade that routes a sender's columns by themselves goes unnoticed as long
\* as it takes the sender's rows whole.
Shuffles == IF conf.fault[1] = "misroutes" THEN [Sender -> Orders] ELSE {[i \in Sender |-> pi] : pi \in Orders}

Init == table = NoTable
Publish ==
  /\ table = NoTable
  /\ Height >= 2 /\ Cardinality(Common) >= conf.minK
  /\ conf.fault[1] \notin {"forges", "reopens", "garbles"}
  /\ \E order \in Shuffles : table' = InOrder(order)
  /\ UNCHANGED <<conf, csv>>

Spec == Init /\ [][Publish]_<<conf, csv, table>>
=============================================================================
