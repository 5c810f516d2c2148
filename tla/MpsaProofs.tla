----------------------------- MODULE MpsaProofs -----------------------------
(* Proofs about Mpsa and the permute network of Network it is built on, for every
   number of senders, width of a payload, set of files and flags of a session.

   1. Network (from "Induction" to NetworkShares): the Benes network of any number
      of rows sets no switch twice, and RunOsn splits a column, permuted by the
      sender's switches, into two shares. Recursion on the naturals and on a fold
      is derived from the well-foundedness of <.
   2. Mpsa, the invariant IInv: where every party is and what its sockets carry
      (Shape), what the parties know once the intersection is told (Known), and
      that the two shares of a round, wherever they are, hold every row once
      (Carried). It gives TypeOK and CascadeShares.
   3. Mpsa implements IdealMpsa: RInv adds that whoever goes on has checked the
      signatures (Sworn), that what is told is the intersection and that the table
      is written at the end (Agreed), and what the openings are checked against
      (Opening). *)
EXTENDS Mpsa, FiniteSetTheorems, SequenceTheorems, WellFoundedInduction, TLAPS
-----------------------------------------------------------------------------
(* Induction, from the well-foundedness of < on the natural numbers. *)

LessThan == {p \in Nat \X Nat : p[1] < p[2]}

\* < on the natural numbers has no endless descent.
LEMMA LessThanWellFounded == IsWellFoundedOn(LessThan, Nat)
<1>1. LessThan = OpToRel(<, Nat)
  BY DEF LessThan, OpToRel
<1> QED BY <1>1, NatLessThanWellFounded

\* Every set of natural numbers that is not empty has a least member.
LEMMA Least == ASSUME NEW T \in SUBSET Nat, T # {} PROVE \E x \in T : \A y \in T : x <= y
<1>1. PICK x \in T : \A y \in T : <<y, x>> \notin LessThan
  BY LessThanWellFounded, WFMin
<1>2. ASSUME NEW y \in T PROVE x <= y
  <2>1. <<y, x>> \in Nat \X Nat /\ <<y, x>> \notin LessThan
    BY <1>1
  <2>2. ~(y < x)
    BY <2>1 DEF LessThan
  <2> QED BY <2>2
<1> QED BY <1>2

\* What holds of 0, and of n + 1 when of n, holds of all.
LEMMA Induct == ASSUME NEW S, 0 \in S, \A n \in Nat : n \in S => n + 1 \in S PROVE Nat \subseteq S
<1> DEFINE T == Nat \ S
<1> SUFFICES ASSUME T # {} PROVE FALSE
  OBVIOUS
<1>1. PICK x \in T : \A y \in T : x <= y
  BY Least
<1>2. x \in Nat /\ x # 0 /\ x - 1 \in Nat /\ x - 1 \notin T
  BY <1>1
<1> QED BY <1>2

\* The same over the numbers up to m.
LEMMA InductUpTo ==
  ASSUME NEW m \in Nat, NEW S, 0 \in S, \A n \in 0..(m - 1) : n \in S => n + 1 \in S
  PROVE 0..m \subseteq S
<1> DEFINE T == {n \in Nat : n <= m => n \in S}
<1>1. 0 \in T /\ \A n \in Nat : n \in T => n + 1 \in T
  OBVIOUS
<1>2. Nat \subseteq T
  <2> HIDE DEF T
  <2> QED BY <1>1, Induct
<1> QED BY <1>2

\* ... and a greatest one, when it has a bound.
LEMMA Greatest ==
  ASSUME NEW n \in Nat, NEW T \in SUBSET (0..n), T # {}
  PROVE Max(T) \in T /\ \A y \in T : y <= Max(T)
<1> DEFINE U == {n - y : y \in T}
<1>1. U \in SUBSET Nat /\ U # {}
  <2>1. \A y \in T : n - y \in Nat
    OBVIOUS
  <2> QED BY <2>1
<1>2. PICK u \in U : \A v \in U : u <= v
  <2> HIDE DEF U
  <2> QED BY <1>1, Least
<1>3. PICK x \in T : u = n - x
  BY <1>2
<1>4. ASSUME NEW y \in T PROVE x >= y
  <2>1. n - y \in U
    OBVIOUS
  <2>2. n - x <= n - y /\ x \in 0..n /\ y \in 0..n
    BY <1>2, <1>3, <2>1
  <2> QED BY <2>2
<1>5. \E z \in T : \A y \in T : z >= y
  BY <1>4
<1>6. Max(T) \in T /\ \A y \in T : Max(T) >= y
  BY <1>5 DEF Max
<1> QED BY <1>6

\* The functions that a primitive recursion defines up to n.
Begun(H, S, a, n) == {f \in [0..n -> S] : f[0] = a /\ \A k \in 0..(n - 1) : f[k + 1] = H[k][f[k]]}

\* Two of them agree as far as both go.
LEMMA BegunAgree ==
  ASSUME NEW S, NEW H, NEW a, NEW n \in Nat, NEW m \in Nat, m <= n,
         NEW f \in Begun(H, S, a, n), NEW g \in Begun(H, S, a, m)
  PROVE \A k \in 0..m : f[k] = g[k]
<1> DEFINE T == {k \in 0..m : f[k] = g[k]}
<1>1. 0 \in T
  BY DEF Begun
<1>2. ASSUME NEW k \in 0..(m - 1), k \in T PROVE k + 1 \in T
  <2>1. f[k + 1] = H[k][f[k]] /\ g[k + 1] = H[k][g[k]]
    BY DEF Begun
  <2> QED BY <1>2, <2>1
<1>3. 0..m \subseteq T
  <2> HIDE DEF T
  <2> QED BY <1>1, <1>2, InductUpTo
<1> QED BY <1>3

\* A function defined by its first value and a step.
Iterates(f, S, a, H) == f \in [Nat -> S] /\ f[0] = a /\ \A n \in Nat : f[n + 1] = H[n][f[n]]

\* There is such a function: the recursive definitions over Nat have their equations.
LEMMA Recursion ==
  ASSUME NEW S, NEW a \in S, NEW H \in [Nat -> [S -> S]]
  PROVE \E f : Iterates(f, S, a, H)
<1> DEFINE T == {n \in Nat : Begun(H, S, a, n) # {}}
<1>1. 0 \in T
  <2>1. [k \in 0..0 |-> a] \in Begun(H, S, a, 0)
    BY DEF Begun
  <2> QED BY <2>1
<1>2. ASSUME NEW n \in Nat, n \in T PROVE n + 1 \in T
  <2>1. PICK f : f \in Begun(H, S, a, n)
    BY <1>2
  <2> DEFINE g == [k \in 0..(n + 1) |-> IF k <= n THEN f[k] ELSE H[n][f[n]]]
  <2>2. f \in [0..n -> S] /\ f[0] = a /\ \A k \in 0..(n - 1) : f[k + 1] = H[k][f[k]]
    BY <2>1 DEF Begun
  <2>3. f[n] \in S /\ H[n][f[n]] \in S
    BY <2>2
  <2>4. g \in [0..(n + 1) -> S] /\ g[0] = a
    BY <2>2, <2>3
  <2>5. \A k \in 0..n : g[k + 1] = H[k][g[k]]
    BY <2>2
  <2>6. \A k \in 0..(n + 1 - 1) : g[k + 1] = H[k][g[k]]
    <3>1. n + 1 - 1 = n
      OBVIOUS
    <3> QED BY <2>5, <3>1, Zenon
  <2>7. g \in Begun(H, S, a, n + 1)
    <3> HIDE DEF g
    <3> QED BY <2>4, <2>6 DEF Begun
  <2> QED BY <2>7
<1>3. Nat \subseteq T
  <2> HIDE DEF T
  <2> QED BY <1>1, <1>2, Induct
<1> DEFINE b == [n \in Nat |-> CHOOSE f : f \in Begun(H, S, a, n)]
           F == [n \in Nat |-> b[n][n]]
<1>4. \A n \in Nat : b[n] \in Begun(H, S, a, n)
  BY <1>3
<1>5. ASSUME NEW n \in Nat PROVE F[n] \in S /\ F[n + 1] = H[n][F[n]]
  <2>1. b[n] \in Begun(H, S, a, n) /\ b[n + 1] \in Begun(H, S, a, n + 1)
    BY <1>4
  <2>2. b[n + 1][n] = b[n][n]
    <3> HIDE DEF b
    <3> QED BY <2>1, BegunAgree
  <2>3. b[n][n] \in S /\ b[n + 1][n + 1] = H[n][b[n + 1][n]]
    <3> HIDE DEF b
    <3> QED BY <2>1 DEF Begun
  <2> QED BY <2>2, <2>3
<1>6. F[0] = a
  <2>1. b[0] \in Begun(H, S, a, 0)
    BY <1>4
  <2>2. b[0][0] = a
    <3> HIDE DEF b
    <3> QED BY <2>1 DEF Begun
  <2> QED BY <2>2
<1>7. F \in [Nat -> S]
  <2> HIDE DEF b
  <2> QED BY <1>5
<1>8. Iterates(F, S, a, H)
  <2> HIDE DEF F
  <2> QED BY <1>5, <1>6, <1>7 DEF Iterates
<1> QED BY <1>8

-----------------------------------------------------------------------------
(* A fold from the left goes through a sequence of states. The function that the
   fold is defined by takes a set of indices to the state after those; it exists
   because a recursion over all indices, passing over those that are not in the
   set, computes it. *)

FoldedAt(H, base, n, t, g) == IF t = {} THEN base ELSE H[Max(t)][g[t \ {Max(t)}]]

\* The states after 0, 1, ... indices, for every set of indices at once.
States(n, S) == [SUBSET (1..n) -> S]
Stepped(H, n, k, G) == [t \in SUBSET (1..n) |-> IF k + 1 \in t THEN H[k + 1][G[t]] ELSE G[t]]
Stepping(H, n, S) == [k \in Nat |-> [G \in States(n, S) |-> Stepped(H, n, k, G)]]
Started(n, base) == [t \in SUBSET (1..n) |-> base]

\* The recursion over all indices.
LEMMA FoldStates ==
  ASSUME NEW n \in Nat, NEW S, NEW base \in S, NEW H \in [1..n -> [S -> S]]
  PROVE  \E F : Iterates(F, States(n, S), Started(n, base), Stepping(H, n, S))
<1>1. Started(n, base) \in States(n, S)
  BY DEF Started, States
<1>2. Stepping(H, n, S) \in [Nat -> [States(n, S) -> States(n, S)]]
  <2>1. ASSUME NEW k \in Nat, NEW G \in States(n, S) PROVE Stepped(H, n, k, G) \in States(n, S)
    <3>1. ASSUME NEW t \in SUBSET (1..n) PROVE (IF k + 1 \in t THEN H[k + 1][G[t]] ELSE G[t]) \in S
      <4>1. G[t] \in S
        BY DEF States
      <4>2. k + 1 \in t => H[k + 1] \in [S -> S]
        OBVIOUS
      <4> QED BY <4>1, <4>2
    <3> QED BY <3>1 DEF Stepped, States
  <2> QED BY <2>1 DEF Stepping
<1> QED BY <1>1, <1>2, Recursion

IsFold(g, H, base, n, S) == g \in [SUBSET (1..n) -> S] /\ \A t \in SUBSET (1..n) : g[t] = FoldedAt(H, base, n, t, g)

\* There is a function with the equation of a fold: FoldLeft chooses one.
LEMMA Folding ==
  ASSUME NEW n \in Nat, NEW S, NEW base \in S, NEW H \in [1..n -> [S -> S]]
  PROVE  \E g : IsFold(g, H, base, n, S)
<1> DEFINE D == SUBSET (1..n)
<1>1. PICK F : Iterates(F, States(n, S), Started(n, base), Stepping(H, n, S))
  BY FoldStates
<1>3. F \in [Nat -> States(n, S)] /\ F[0] = Started(n, base) /\ \A k \in Nat : F[k + 1] = Stepping(H, n, S)[k][F[k]]
  BY <1>1 DEF Iterates
<1>4. ASSUME NEW k \in Nat, NEW t \in D
      PROVE F[k + 1][t] = (IF k + 1 \in t THEN H[k + 1][F[k][t]] ELSE F[k][t])
  <2>1. F[k] \in States(n, S) /\ F[k + 1] = Stepping(H, n, S)[k][F[k]]
    BY <1>3
  <2>2. F[k + 1] = Stepped(H, n, k, F[k])
    BY <2>1 DEF Stepping
  <2> QED BY <2>2 DEF Stepped
<1>5. \A t \in D : F[0][t] = base
  BY <1>3 DEF Started
\* Indices that are not in the set are passed over.
<1>6. ASSUME NEW t \in D, NEW m \in 0..n, \A i \in t : i <= m PROVE F[n][t] = F[m][t]
  <2> DEFINE T == {j \in 0..(n - m) : F[m + j][t] = F[m][t]}
  <2>1. 0 \in T
    OBVIOUS
  <2>2. ASSUME NEW j \in 0..((n - m) - 1), j \in T PROVE j + 1 \in T
    <3>1. m + j \in Nat /\ m + j + 1 \notin t /\ m + j + 1 = m + (j + 1)
      BY <1>6
    <3>2. F[m + j + 1][t] = F[m + j][t]
      BY <1>4, <3>1
    <3> QED BY <2>2, <3>1, <3>2
  <2>3. 0..(n - m) \subseteq T
    <3>1. n - m \in Nat
      OBVIOUS
    <3> HIDE DEF T
    <3> QED BY <2>1, <2>2, <3>1, InductUpTo
  <2>4. n - m \in T
    <3>1. n - m \in 0..(n - m)
      OBVIOUS
    <3> HIDE DEF T
    <3> QED BY <2>3, <3>1
  <2>5. m + (n - m) = n
    OBVIOUS
  <2> QED BY <2>4, <2>5
\* The states up to an index depend on the members up to it.
<1>7. ASSUME NEW t \in D, NEW u \in D, NEW m \in 0..n, \A i \in 1..m : i \in t <=> i \in u
      PROVE  F[m][t] = F[m][u]
  <2> DEFINE T == {j \in 0..m : F[j][t] = F[j][u]}
  <2>1. 0 \in T
    BY <1>5
  <2>2. ASSUME NEW j \in 0..(m - 1), j \in T PROVE j + 1 \in T
    <3>1. j \in Nat /\ j + 1 \in 1..m
      OBVIOUS
    <3>2. /\ F[j + 1][t] = (IF j + 1 \in t THEN H[j + 1][F[j][t]] ELSE F[j][t])
          /\ F[j + 1][u] = (IF j + 1 \in u THEN H[j + 1][F[j][u]] ELSE F[j][u])
      BY <1>4, <3>1
    <3>3. j + 1 \in t <=> j + 1 \in u
      BY <1>7, <3>1
    <3> QED BY <2>2, <3>1, <3>2, <3>3
  <2>3. 0..m \subseteq T
    <3>1. m \in Nat
      OBVIOUS
    <3> HIDE DEF T
    <3> QED BY <2>1, <2>2, <3>1, InductUpTo
  <2> QED BY <2>3
<1>8. ASSUME NEW t \in D PROVE F[n][t] = FoldedAt(H, base, n, t, F[n])
  <2>1. CASE t = {}
    <3>1. F[n][t] = F[0][t]
      BY <1>6, <2>1
    <3> QED BY <1>5, <2>1, <3>1 DEF FoldedAt
  <2>2. CASE t # {}
    <3> DEFINE m == Max(t)
               u == t \ {m}
    <3>1. m \in t /\ \A y \in t : y <= m
      <4>1. t \in SUBSET (0..n)
        OBVIOUS
      <4> QED BY <2>2, <4>1, Greatest
    <3> HIDE DEF m
    <3>2. m \in 1..n /\ m - 1 \in 0..n /\ m - 1 \in Nat /\ (m - 1) + 1 = m /\ u \in D
      BY <3>1
    <3>3. F[n][t] = F[m][t]
      BY <1>6, <3>1, <3>2
    <3>4. F[m][t] = H[m][F[m - 1][t]]
      BY <1>4, <3>1, <3>2
    <3>5. F[m - 1][t] = F[m - 1][u]
      <4>1. \A i \in 1..(m - 1) : i \in t <=> i \in u
        BY <3>2
      <4> HIDE DEF u
      <4> QED BY <1>7, <3>2, <4>1
    <3>6. F[n][u] = F[m - 1][u]
      BY <1>6, <3>1, <3>2
    <3> QED BY <2>2, <3>3, <3>4, <3>5, <3>6 DEF FoldedAt, m
  <2> QED BY <2>1, <2>2
<1>9. F[n] \in [SUBSET (1..n) -> S]
  BY <1>3 DEF States
<1>10. IsFold(F[n], H, base, n, S)
  BY <1>8, <1>9 DEF IsFold
<1> QED BY <1>10
-----------------------------------------------------------------------------
\* Powers of two.
LEMMA Powers == /\ TwoTo[0] = 1
                /\ \A n \in Nat : TwoTo[n] \in Nat /\ TwoTo[n + 1] = 2 * TwoTo[n]
<1> DEFINE H == [n \in Nat |-> [x \in Nat |-> 2 * x]]
<1>1. PICK f : Iterates(f, Nat, 1, H)
  <2>1. H \in [Nat -> [Nat -> Nat]]
    OBVIOUS
  <2> HIDE DEF H
  <2> QED BY <2>1, Recursion
<1>2. f \in [Nat -> Nat] /\ f[0] = 1 /\ \A n \in Nat : f[n + 1] = 2 * f[n]
  BY <1>1 DEF Iterates
<1>3. \A n \in Nat : f[n] = IF n = 0 THEN 1 ELSE 2 * f[n - 1]
  <2>1. ASSUME NEW n \in Nat, n # 0 PROVE f[n] = 2 * f[n - 1]
    <3>1. n - 1 \in Nat /\ (n - 1) + 1 = n
      BY <2>1
    <3>2. f[(n - 1) + 1] = 2 * f[n - 1]
      BY <1>2, <3>1
    <3> QED BY <3>1, <3>2
  <2> QED BY <1>2, <2>1
<1>4. f = [n \in Nat |-> IF n = 0 THEN 1 ELSE 2 * f[n - 1]]
  BY <1>2, <1>3
<1>5. TwoTo = [n \in Nat |-> IF n = 0 THEN 1 ELSE 2 * TwoTo[n - 1]]
  BY <1>4 DEF TwoTo
<1>6. \A n \in Nat : TwoTo[n] = IF n = 0 THEN 1 ELSE 2 * TwoTo[n - 1]
  BY <1>5, Zenon
<1>7. TwoTo[0] = 1 /\ \A n \in Nat : TwoTo[n + 1] = 2 * TwoTo[n]
  <2>1. ASSUME NEW n \in Nat PROVE TwoTo[n + 1] = 2 * TwoTo[n]
    <3>1. n + 1 \in Nat /\ n + 1 # 0 /\ (n + 1) - 1 = n
      OBVIOUS
    <3> QED BY <1>6, <3>1
  <2> QED BY <1>6, <2>1
<1>8. \A n \in Nat : TwoTo[n] \in Nat
  <2> DEFINE T == {n \in Nat : TwoTo[n] \in Nat}
  <2>1. 0 \in T /\ \A n \in Nat : n \in T => n + 1 \in T
    BY <1>7
  <2>2. Nat \subseteq T
    <3> HIDE DEF T
    <3> QED BY <2>1, Induct
  <2> QED BY <2>2
<1> QED BY <1>7, <1>8

\* log2ceil rounds up to a power of two (osn/BenesNetwork).
LEMMA LogCeilBounds ==
  ASSUME NEW size \in Nat
  PROVE LogCeil(size) \in 0..size /\ TwoTo[LogCeil(size)] >= size
<1> DEFINE T == {n \in Nat : TwoTo[n] >= n}
           U == {n \in Nat : TwoTo[n] >= size}
<1>1. 0 \in T /\ \A n \in Nat : n \in T => n + 1 \in T
  <2>1. 0 \in T
    BY Powers
  <2>2. ASSUME NEW n \in Nat, n \in T PROVE n + 1 \in T
    <3>1. n = 0 \/ n >= 1
      OBVIOUS
    <3>2. TwoTo[n] \in Nat /\ TwoTo[n + 1] = 2 * TwoTo[n] /\ TwoTo[n] >= n /\ TwoTo[0] = 1
      BY <2>2, Powers
    <3> QED BY <3>1, <3>2
  <2> QED BY <2>1, <2>2
<1>2. TwoTo[size] >= size
  <2>1. Nat \subseteq T
    <3> HIDE DEF T
    <3> QED BY <1>1, Induct
  <2> QED BY <2>1
<1>3. PICK x \in U : \A y \in U : x <= y
  <2>1. U # {} /\ U \in SUBSET Nat
    BY <1>2
  <2> HIDE DEF U
  <2> QED BY <2>1, Least
<1>4. x \in 0..size
  BY <1>2, <1>3
<1>5. ASSUME NEW k \in 0..(x - 1) PROVE TwoTo[k] < size
  <2>1. k \in Nat /\ k \notin U
    BY <1>3, <1>4
  <2>2. TwoTo[k] \in Nat
    BY <2>1, Powers
  <2> QED BY <2>1, <2>2
<1>6. \E n \in 0..size : TwoTo[n] >= size /\ \A k \in 0..(n - 1) : TwoTo[k] < size
  BY <1>3, <1>4, <1>5
<1> QED BY <1>6 DEF LogCeil
-----------------------------------------------------------------------------
\* What a network is put together from: switches, halves of the wires and the odd one out.
Gate == [at : Nat \X Nat, on : Nat \X Nat]
Half(w, b) == [k \in 1..(Len(w) \div 2) |-> Chosen(w, k, b)]
Rest(w) == IF Len(w) % 2 = 1 THEN <<w[Len(w)]>> ELSE <<>>
\* A network of n levels on either side, of those of n - 1.
Layer(C, n, lvl, idx, w) ==
  CASE n > 0 /\ Len(w) = 2 -> Row(MiddleLevel(n, lvl), idx, w)
    [] n > 0 /\ Len(w) = 3 -> Row(lvl, idx, w) \o Row(lvl + 1, idx, Tail(w)) \o Row(lvl + 2, idx, w)
    [] n > 0 /\ Len(w) > 3 -> Row(lvl, idx, w) \o C[lvl + 1][idx][Half(w, 0)]
            \o C[lvl + 1][idx + Len(w) \div 4][Half(w, 1) \o Rest(w)] \o Row(lvl + 2 * n - 2, idx, w)
    [] OTHER -> <<>>
Layers(C, n) == [lvl \in Nat |-> [idx \in Nat |-> [w \in Seq(Nat) |-> Layer(C, n, lvl, idx, w)]]]
Nets == [Nat -> [Nat -> [Seq(Nat) -> Seq(Gate)]]]

\* The switches of one column of a network are switches.
LEMMA RowType ==
  ASSUME NEW lvl \in Nat, NEW idx \in Nat, NEW w \in Seq(Nat)
  PROVE  /\ Row(lvl, idx, w) \in Seq(Gate) /\ Len(Row(lvl, idx, w)) = Len(w) \div 2
         /\ \A k \in 1..(Len(w) \div 2) : Row(lvl, idx, w)[k] = [at |-> <<lvl, idx + k - 1>>, on |-> <<w[2 * k - 1], w[2 * k]>>]
<1>1. Len(w) \div 2 \in Nat /\ 2 * (Len(w) \div 2) <= Len(w)
  OBVIOUS
<1>2. ASSUME NEW k \in 1..(Len(w) \div 2)
      PROVE  [at |-> <<lvl, idx + k - 1>>, on |-> <<w[2 * k - 1], w[2 * k]>>] \in Gate
  <2>1. idx + k - 1 \in Nat /\ 2 * k - 1 \in 1..Len(w) /\ 2 * k \in 1..Len(w)
    BY <1>1
  <2>2. w[2 * k - 1] \in Nat /\ w[2 * k] \in Nat
    BY <2>1
  <2> QED BY <2>1, <2>2 DEF Gate
<1> DEFINE h == Len(w) \div 2
           row == Row(lvl, idx, w)
<1>3. row \in [1..h -> Gate] /\ \A k \in 1..h : row[k] = [at |-> <<lvl, idx + k - 1>>, on |-> <<w[2 * k - 1], w[2 * k]>>]
  BY <1>2 DEF Row
<1>4. row \in Seq(Gate) /\ Len(row) = h
  <2>1. h \in Nat /\ row \in [1..h -> Gate]
    BY <1>1, <1>3
  <2> HIDE DEF h, row
  <2> QED BY <2>1
<1> QED BY <1>3, <1>4

\* Each half of the wires is a sequence of wires.
LEMMA HalfType ==
  ASSUME NEW w \in Seq(Nat), NEW b \in {0, 1}
  PROVE  /\ Half(w, b) \in Seq(Nat) /\ Len(Half(w, b)) = Len(w) \div 2
         /\ \A k \in 1..(Len(w) \div 2) : Half(w, b)[k] = w[2 * k - 1 + b] /\ 2 * k - 1 + b \in 1..Len(w)
<1>1. Len(w) \div 2 \in Nat /\ 2 * (Len(w) \div 2) <= Len(w)
  OBVIOUS
<1>2. ASSUME NEW k \in 1..(Len(w) \div 2) PROVE 2 * k - 1 + b \in 1..Len(w) /\ w[2 * k - 1 + b] \in Nat
  <2>1. 2 * k - 1 + b \in 1..Len(w)
    BY <1>1
  <2> QED BY <2>1
<1> QED BY <1>1, <1>2 DEF Half, Chosen

LEMMA RestType == ASSUME NEW w \in Seq(Nat) PROVE Rest(w) \in Seq(Nat) /\ Len(Rest(w)) = Len(w) % 2
<1>1. Len(w) % 2 \in {0, 1}
  OBVIOUS
<1>2. CASE Len(w) % 2 = 1
  <2>1. Len(w) \in 1..Len(w) /\ w[Len(w)] \in Nat
    BY <1>2
  <2> QED BY <1>2, <2>1 DEF Rest
<1> QED BY <1>1, <1>2 DEF Rest

\* A layer put around networks of switches is a network of switches.
LEMMA LayerType ==
  ASSUME NEW C \in Nets, NEW n \in Nat, NEW lvl \in Nat, NEW idx \in Nat, NEW w \in Seq(Nat)
  PROVE  Layer(C, n, lvl, idx, w) \in Seq(Gate)
<1>1. CASE n > 0 /\ Len(w) = 2
  <2>1. MiddleLevel(n, lvl) \in Nat
    BY DEF MiddleLevel
  <2> QED BY <1>1, <2>1, RowType DEF Layer
<1>2. CASE n > 0 /\ Len(w) = 3
  <2>1. Tail(w) \in Seq(Nat) /\ lvl + 1 \in Nat /\ lvl + 2 \in Nat
    BY <1>2
  <2>2. Row(lvl, idx, w) \in Seq(Gate) /\ Row(lvl + 1, idx, Tail(w)) \in Seq(Gate) /\ Row(lvl + 2, idx, w) \in Seq(Gate)
    BY <2>1, RowType
  <2> QED BY <1>2, <2>2 DEF Layer
<1>3. CASE n > 0 /\ Len(w) > 3
  <2>1. lvl + 1 \in Nat /\ lvl + 2 * n - 2 \in Nat /\ idx + Len(w) \div 4 \in Nat
    BY <1>3
  <2>2. Half(w, 0) \in Seq(Nat) /\ Half(w, 1) \in Seq(Nat) /\ Rest(w) \in Seq(Nat)
    BY HalfType, RestType
  <2>3. Half(w, 1) \o Rest(w) \in Seq(Nat)
    BY <2>2
  <2>4. C[lvl + 1][idx][Half(w, 0)] \in Seq(Gate) /\ C[lvl + 1][idx + Len(w) \div 4][Half(w, 1) \o Rest(w)] \in Seq(Gate)
    <3>1. \A a, b \in Nat, v \in Seq(Nat) : C[a][b][v] \in Seq(Gate)
      BY DEF Nets
    <3> QED BY <2>1, <2>2, <2>3, <3>1
  <2>5. Row(lvl, idx, w) \in Seq(Gate) /\ Row(lvl + 2 * n - 2, idx, w) \in Seq(Gate)
    BY <2>1, RowType
  <2> QED BY <1>3, <2>4, <2>5 DEF Layer
<1>4. CASE ~(n > 0 /\ Len(w) = 2) /\ ~(n > 0 /\ Len(w) = 3) /\ ~(n > 0 /\ Len(w) > 3)
  BY <1>4 DEF Layer
<1> QED BY <1>1, <1>2, <1>3, <1>4

NetAfter == [n \in Nat |-> [C \in Nets |-> Layers(C, n + 1)]]
NoNet == [lvl \in Nat |-> [idx \in Nat |-> [w \in Seq(Nat) |-> <<>>]]]
\* Circuit, for every number of levels: that of none, and a layer around the smaller.
LEMMA Circuits ==
  /\ Circuit[0] \in Nets
  /\ \A n \in Nat : Circuit[n] \in Nets /\ Circuit[n + 1] = Layers(Circuit[n], n + 1)
<1>1. NoNet \in Nets /\ \A C : Layers(C, 0) = NoNet
  BY DEF NoNet, Nets, Layers, Layer
<1>2. NetAfter \in [Nat -> [Nets -> Nets]]
  <2>1. ASSUME NEW n \in Nat, NEW C \in Nets PROVE Layers(C, n + 1) \in Nets
    <3>1. n + 1 \in Nat
      OBVIOUS
    <3> QED BY <3>1, LayerType DEF Layers, Nets
  <2> QED BY <2>1 DEF NetAfter
<1>3. PICK F : Iterates(F, Nets, NoNet, NetAfter)
  BY <1>1, <1>2, Recursion
<1>4. F \in [Nat -> Nets] /\ F[0] = NoNet /\ \A n \in Nat : F[n + 1] = Layers(F[n], n + 1)
  <2>1. F \in [Nat -> Nets] /\ F[0] = NoNet /\ \A n \in Nat : F[n + 1] = NetAfter[n][F[n]]
    BY <1>3 DEF Iterates
  <2> QED BY <2>1 DEF NetAfter
<1>5. F = [n \in Nat |-> Layers(F[n - 1], n)]
  <2>1. ASSUME NEW n \in Nat PROVE F[n] = Layers(F[n - 1], n)
    <3>1. CASE n = 0
      BY <1>1, <1>4, <3>1
    <3>2. CASE n # 0
      <4>1. n - 1 \in Nat /\ (n - 1) + 1 = n
        BY <3>2
      <4>2. F[(n - 1) + 1] = Layers(F[n - 1], (n - 1) + 1)
        BY <1>4, <4>1
      <4> QED BY <4>1, <4>2
    <3> QED BY <3>1, <3>2
  <2> QED BY <1>4, <2>1
<1>6. Circuit = CHOOSE C : C = [n \in Nat |-> Layers(C[n - 1], n)]
  BY Zenon DEF Circuit, Layers, Layer, Half, Rest
<1>7. Circuit = [n \in Nat |-> Layers(Circuit[n - 1], n)]
  BY <1>5, <1>6
<1>8. \A n \in Nat : Circuit[n] = Layers(Circuit[n - 1], n)
  BY <1>7, Zenon
<1>9. \A n \in Nat : Circuit[n + 1] = Layers(Circuit[n], n + 1)
  <2>1. ASSUME NEW n \in Nat PROVE Circuit[n + 1] = Layers(Circuit[n], n + 1)
    <3>1. n + 1 \in Nat /\ (n + 1) - 1 = n
      OBVIOUS
    <3> QED BY <1>8, <3>1
  <2> QED BY <2>1
<1>10. Nat \subseteq {n \in Nat : Circuit[n] \in Nets}
  <2> DEFINE T == {n \in Nat : Circuit[n] \in Nets}
  <2>1. 0 \in T
    BY <1>1, <1>8
  <2>2. ASSUME NEW n \in Nat, n \in T PROVE n + 1 \in T
    <3>1. NetAfter[n][Circuit[n]] = Layers(Circuit[n], n + 1) /\ NetAfter[n][Circuit[n]] \in Nets
      BY <1>2, <2>2 DEF NetAfter
    <3> QED BY <1>9, <3>1
  <2> HIDE DEF T
  <2>3. Nat \subseteq T
    BY <2>1, <2>2, Induct
  <2> QED BY <2>3 DEF T
<1> QED BY <1>9, <1>10
-----------------------------------------------------------------------------
\* A switch in a box of places, on two wires of V.
Placed(g, lo, hi, a, b, V) ==
  g.at[1] \in lo..hi /\ g.at[2] \in a..b /\ g.on[1] \in V /\ g.on[2] \in V /\ g.on[1] # g.on[2]
\* Switches of a box, at different places.
Fits(s, lo, hi, a, b, V) ==
  /\ s \in Seq(Gate)
  /\ \A j \in DOMAIN s : Placed(s[j], lo, hi, a, b, V)
  /\ \A j, k \in DOMAIN s : j # k => s[j].at # s[k].at
Apart(s, t) == \A j \in DOMAIN s, k \in DOMAIN t : s[j].at # t[k].at
Distinct(w) == \A j, k \in DOMAIN w : j # k => w[j] # w[k]

\* A network fits a wider box, and two that are apart fit one together.
LEMMA FitsWider ==
  ASSUME NEW s, NEW lo \in Int, NEW hi \in Int, NEW a \in Int, NEW b \in Int, NEW V,
         NEW lo2 \in Int, NEW hi2 \in Int, NEW a2 \in Int, NEW b2 \in Int, NEW V2,
         Fits(s, lo, hi, a, b, V), lo2 <= lo, hi <= hi2, a2 <= a, b <= b2, V \subseteq V2
  PROVE  Fits(s, lo2, hi2, a2, b2, V2)
<1>1. lo..hi \subseteq lo2..hi2 /\ a..b \subseteq a2..b2
  OBVIOUS
<1>2. \A j \in DOMAIN s : Placed(s[j], lo2, hi2, a2, b2, V2)
  BY <1>1, Zenon DEF Fits, Placed
<1> QED BY <1>2 DEF Fits

LEMMA FitsJoin ==
  ASSUME NEW s, NEW t, NEW lo, NEW hi, NEW a, NEW b, NEW V, Fits(s, lo, hi, a, b, V), Fits(t, lo,
         hi, a, b, V), Apart(s, t)
  PROVE  Fits(s \o t, lo, hi, a, b, V)
<1>1. s \in Seq(Gate) /\ t \in Seq(Gate)
  BY DEF Fits
<1>2. /\ s \o t \in Seq(Gate) /\ DOMAIN (s \o t) = 1..(Len(s) + Len(t))
      /\ \A j \in 1..(Len(s) + Len(t)) : (s \o t)[j] = IF j <= Len(s) THEN s[j] ELSE t[j - Len(s)]
  BY <1>1
<1>3. \A j \in 1..(Len(s) + Len(t)) : (j <= Len(s) => j \in DOMAIN s) /\ (j > Len(s) => j - Len(s) \in DOMAIN t)
  BY <1>1
<1>4. ASSUME NEW j \in DOMAIN (s \o t) PROVE Placed((s \o t)[j], lo, hi, a, b, V)
  <2>1. CASE j <= Len(s)
    <3>1. (s \o t)[j] = s[j] /\ j \in DOMAIN s
      BY <1>2, <1>3, <2>1
    <3> QED BY <3>1 DEF Fits
  <2>2. CASE j > Len(s)
    <3>1. (s \o t)[j] = t[j - Len(s)] /\ j - Len(s) \in DOMAIN t
      BY <1>1, <1>2, <1>3, <2>2
    <3> QED BY <3>1 DEF Fits
  <2> QED BY <1>1, <1>2, <2>1, <2>2
<1>5. ASSUME NEW j \in DOMAIN (s \o t), NEW k \in DOMAIN (s \o t), j # k PROVE (s \o t)[j].at # (s \o t)[k].at
  <2>1. CASE j <= Len(s) /\ k <= Len(s)
    <3>1. (s \o t)[j] = s[j] /\ j \in DOMAIN s /\ (s \o t)[k] = s[k] /\ k \in DOMAIN s
      BY <1>2, <1>3, <2>1
    <3> QED BY <1>5, <3>1 DEF Fits
  <2>2. CASE j > Len(s) /\ k > Len(s)
    <3>1. (s \o t)[j] = t[j - Len(s)] /\ j - Len(s) \in DOMAIN t /\ (s \o t)[k] = t[k - Len(s)] /\ k - Len(s) \in DOMAIN t
      BY <1>1, <1>2, <1>3, <2>2
    <3>2. j - Len(s) # k - Len(s)
      BY <1>1, <1>2, <1>5
    <3> QED BY <3>1, <3>2 DEF Fits
  <2>3. CASE j <= Len(s) /\ k > Len(s)
    <3>1. (s \o t)[j] = s[j] /\ j \in DOMAIN s /\ (s \o t)[k] = t[k - Len(s)] /\ k - Len(s) \in DOMAIN t
      BY <1>1, <1>2, <1>3, <2>3
    <3> QED BY <3>1 DEF Apart
  <2>4. CASE j > Len(s) /\ k <= Len(s)
    <3>1. (s \o t)[k] = s[k] /\ k \in DOMAIN s /\ (s \o t)[j] = t[j - Len(s)] /\ j - Len(s) \in DOMAIN t
      BY <1>1, <1>2, <1>3, <2>4
    <3>2. s[k].at # t[j - Len(s)].at
      BY <3>1 DEF Apart
    <3> QED BY <3>1, <3>2
  <2>5. j \in Nat /\ k \in Nat /\ Len(s) \in Nat
    BY <1>1, <1>2
  <2> QED BY <2>1, <2>2, <2>3, <2>4, <2>5
<1> QED BY <1>2, <1>4, <1>5 DEF Fits

\* One column of switches fits the box of its level.
LEMMA RowFits ==
  ASSUME NEW lvl \in Nat, NEW idx \in Nat, NEW w \in Seq(Nat), Distinct(w), NEW V,
         \A j \in DOMAIN w : w[j] \in V
  PROVE  Fits(Row(lvl, idx, w), lvl, lvl, idx, idx + Len(w) \div 2 - 1, V)
<1> DEFINE s == Row(lvl, idx, w)
           m == Len(w) \div 2
<1>1. /\ s \in Seq(Gate) /\ Len(s) = m
      /\ \A k \in 1..m : s[k] = [at |-> <<lvl, idx + k - 1>>, on |-> <<w[2 * k - 1], w[2 * k]>>]
  BY RowType
<1>2. m \in Nat /\ 2 * m <= Len(w) /\ DOMAIN s = 1..m /\ Len(w) \in Nat /\ DOMAIN w = 1..Len(w)
  BY <1>1
<1> HIDE DEF s
<1>3. ASSUME NEW k \in 1..m
      PROVE  s[k].at = <<lvl, idx + k - 1>> /\ Placed(s[k], lvl, lvl, idx, idx + m - 1, V)
  <2>1. 2 * k - 1 \in DOMAIN w /\ 2 * k \in DOMAIN w /\ 2 * k - 1 # 2 * k
    <3> HIDE DEF m
    <3> QED BY <1>2
  <2>2. w[2 * k - 1] # w[2 * k] /\ w[2 * k - 1] \in V /\ w[2 * k] \in V
    BY <2>1 DEF Distinct
  <2>3. idx + k - 1 \in idx..(idx + m - 1) /\ lvl \in lvl..lvl
    BY <1>2
  <2>4. s[k].at = <<lvl, idx + k - 1>> /\ s[k].on = <<w[2 * k - 1], w[2 * k]>>
    BY <1>1
  <2> QED BY <2>2, <2>3, <2>4 DEF Placed
<1>4. \A j, k \in 1..m : j # k => s[j].at # s[k].at
  <2>1. \A j, k \in 1..m : j # k => <<lvl, idx + j - 1>> # <<lvl, idx + k - 1>>
    BY <1>2
  <2> QED BY <1>3, <2>1
<1>5. \A k \in 1..m : Placed(s[k], lvl, lvl, idx, idx + m - 1, V)
  BY <1>3
<1> HIDE DEF m
<1>6. Fits(s, lvl, lvl, idx, idx + m - 1, V)
  BY <1>1, <1>2, <1>4, <1>5 DEF Fits
<1> QED BY <1>6 DEF s, m
-----------------------------------------------------------------------------
\* Networks on different levels, or on different indices, are apart.
LEMMA ApartLevels ==
  ASSUME NEW s, NEW t, NEW lo \in Int, NEW hi \in Int, NEW a, NEW b, NEW V, NEW lo2 \in Int,
         NEW hi2 \in Int, NEW a2, NEW b2, NEW V2,
         Fits(s, lo, hi, a, b, V), Fits(t, lo2, hi2, a2, b2, V2), hi < lo2
  PROVE  Apart(s, t)
<1>1. ASSUME NEW j \in DOMAIN s, NEW k \in DOMAIN t PROVE s[j].at # t[k].at
  <2>1. s[j].at[1] \in lo..hi /\ t[k].at[1] \in lo2..hi2
    BY DEF Fits, Placed
  <2>2. s[j].at[1] # t[k].at[1]
    BY <2>1
  <2> QED BY <2>2
<1> QED BY <1>1 DEF Apart

LEMMA ApartIndices ==
  ASSUME NEW s, NEW t, NEW lo, NEW hi, NEW a \in Int, NEW b \in Int, NEW V, NEW lo2, NEW hi2,
         NEW a2 \in Int, NEW b2 \in Int, NEW V2,
         Fits(s, lo, hi, a, b, V), Fits(t, lo2, hi2, a2, b2, V2), b < a2
  PROVE  Apart(s, t)
<1>1. ASSUME NEW j \in DOMAIN s, NEW k \in DOMAIN t PROVE s[j].at # t[k].at
  <2>1. s[j].at[2] \in a..b /\ t[k].at[2] \in a2..b2
    BY DEF Fits, Placed
  <2>2. s[j].at[2] # t[k].at[2]
    BY <2>1
  <2> QED BY <2>2
<1> QED BY <1>1 DEF Apart

\* What is apart from two sequences is apart from their concatenation.
LEMMA ApartJoin ==
  ASSUME NEW s \in Seq(Gate), NEW t \in Seq(Gate), NEW u \in Seq(Gate), Apart(s, u), Apart(t,
         u) PROVE Apart(s \o t, u)
<1>1. /\ DOMAIN (s \o t) = 1..(Len(s) + Len(t)) /\ Len(s) \in Nat /\ Len(t) \in Nat
      /\ \A j \in 1..(Len(s) + Len(t)) : (s \o t)[j] = IF j <= Len(s) THEN s[j] ELSE t[j - Len(s)]
  OBVIOUS
<1>2. ASSUME NEW j \in DOMAIN (s \o t), NEW k \in DOMAIN u PROVE (s \o t)[j].at # u[k].at
  <2>1. CASE j <= Len(s)
    <3>1. (s \o t)[j] = s[j] /\ j \in DOMAIN s
      BY <1>1, <2>1
    <3> QED BY <3>1 DEF Apart
  <2>2. CASE j > Len(s)
    <3>1. (s \o t)[j] = t[j - Len(s)] /\ j - Len(s) \in DOMAIN t
      BY <1>1, <2>2
    <3> QED BY <3>1 DEF Apart
  <2> QED BY <1>1, <2>1, <2>2
<1> QED BY <1>2 DEF Apart

Concatenates(t, s, u, m, r) ==
  t \in Seq(Nat) /\ Len(t) = m + r /\ \A k \in 1..(m + r) : t[k] = IF k <= m THEN s[k] ELSE u[k - m]
LEMMA Concat ==
  ASSUME NEW s \in Seq(Nat), NEW u \in Seq(Nat), NEW m \in Nat, NEW r \in Nat, Len(s) = m, Len(u) = r
  PROVE  Concatenates(s \o u, s, u, m, r)
<1>1. s \o u \in Seq(Nat) /\ Len(s \o u) = Len(s) + Len(u)
  OBVIOUS
<1>2. \A k \in 1..(Len(s) + Len(u)) : (s \o u)[k] = IF k <= Len(s) THEN s[k] ELSE u[k - Len(s)]
  OBVIOUS
<1> QED BY <1>1, <1>2 DEF Concatenates

\* The wires of the two halves are among those of the whole, each once.
LEMMA HalvesDistinct ==
  ASSUME NEW w \in Seq(Nat), Distinct(w), Len(w) > 3
  PROVE  LET up == Half(w, 1) \o Rest(w) IN
         /\ Half(w, 0) \in Seq(Nat) /\ Distinct(Half(w, 0)) /\ Len(Half(w, 0)) = Len(w) \div 2
         /\ \A j \in DOMAIN Half(w, 0) : Half(w, 0)[j] \in ToSet(w)
         /\ up \in Seq(Nat) /\ Distinct(up) /\ Len(up) = Len(w) - Len(w) \div 2
         /\ \A j \in DOMAIN up : up[j] \in ToSet(w)
<1> DEFINE L == Len(w)
           m == Len(w) \div 2
           lo == Half(w, 0)
           hi == Half(w, 1)
           rest == Rest(w)
           up == Half(w, 1) \o Rest(w)
<1>1. m \in Nat /\ L \in Nat /\ 2 * m <= L /\ L <= 2 * m + 1 /\ L % 2 = L - 2 * m /\ DOMAIN w = 1..L
  OBVIOUS
<1>2. /\ lo \in Seq(Nat) /\ Len(lo) = m /\ hi \in Seq(Nat) /\ Len(hi) = m
      /\ \A k \in 1..m : lo[k] = w[2 * k - 1] /\ hi[k] = w[2 * k]
  <2>1. /\ \A k \in 1..m : lo[k] = w[2 * k - 1 + 0]
        /\ \A k \in 1..m : hi[k] = w[2 * k - 1 + 1]
    BY HalfType
  <2>2. \A k \in 1..m : 2 * k - 1 + 0 = 2 * k - 1 /\ 2 * k - 1 + 1 = 2 * k
    BY <1>1
  <2>3. lo \in Seq(Nat) /\ Len(lo) = m /\ hi \in Seq(Nat) /\ Len(hi) = m
    BY HalfType
  <2> HIDE DEF lo, hi, m
  <2> QED BY <2>1, <2>2, <2>3
<1>3. rest \in Seq(Nat) /\ Len(rest) = L - 2 * m /\ (L # 2 * m => rest[1] = w[L])
  <2>1. rest \in Seq(Nat) /\ Len(rest) = L % 2
    BY RestType
  <2>2. L # 2 * m => L % 2 = 1
    BY <1>1
  <2>3. L # 2 * m => rest[1] = w[L]
    BY <2>2 DEF Rest
  <2> HIDE DEF m, rest, L
  <2> QED BY <1>1, <2>1, <2>3
<1> HIDE DEF L, m, lo, hi, rest
<1>4. /\ up \in Seq(Nat) /\ Len(up) = L - m
      /\ \A k \in 1..(L - m) : up[k] = w[IF k <= m THEN 2 * k ELSE L]
  <2>1. L - 2 * m \in Nat /\ m + (L - 2 * m) = L - m
    BY <1>1
  <2>2. /\ hi \o rest \in Seq(Nat) /\ Len(hi \o rest) = m + (L - 2 * m)
        /\ \A k \in 1..(m + (L - 2 * m)) : (hi \o rest)[k] = IF k <= m THEN hi[k] ELSE rest[k - m]
    <3> DEFINE r == L - 2 * m
    <3>1. r \in Nat /\ Len(rest) = r
      BY <1>3, <2>1
    <3> HIDE DEF r, up
    <3>2. hi \in Seq(Nat) /\ rest \in Seq(Nat) /\ m \in Nat /\ Len(hi) = m
      BY <1>1, <1>2, <1>3
    <3>3. Concatenates(hi \o rest, hi, rest, m, r)
      BY <3>1, <3>2, Concat
    <3> QED BY <3>3 DEF r, Concatenates
  <2>3. ASSUME NEW k \in 1..(L - m)
        PROVE  (IF k <= m THEN hi[k] ELSE rest[k - m]) = w[IF k <= m THEN 2 * k ELSE L]
    <3>1. CASE k <= m
      <4>1. k \in 1..m
        BY <1>1, <3>1
      <4>2. hi[k] = w[2 * k]
        BY <1>2, <4>1
      <4> QED BY <3>1, <4>2
    <3>2. CASE k > m
      <4>1. k - m = 1 /\ L # 2 * m
        BY <1>1, <3>2
      <4> QED BY <1>1, <1>3, <3>2, <4>1
    <3> QED BY <1>1, <3>1, <3>2
  <2> QED BY <2>1, <2>2, <2>3 DEF hi, rest
<1> HIDE DEF up
<1>5. Distinct(lo) /\ \A j \in DOMAIN lo : lo[j] \in ToSet(w)
  <2>1. DOMAIN lo = 1..m
    BY <1>1, <1>2
  <2>2. ASSUME NEW j \in 1..m PROVE 2 * j - 1 \in 1..L
    BY <1>1
  <2>3. \A j, k \in 1..m : j # k => 2 * j - 1 # 2 * k - 1
    BY <1>1
  <2>4. ASSUME NEW j \in 1..m, NEW k \in 1..m, j # k PROVE lo[j] # lo[k]
    <3>1. 2 * j - 1 \in DOMAIN w /\ 2 * k - 1 \in DOMAIN w /\ 2 * j - 1 # 2 * k - 1
      BY <1>1, <2>2, <2>3, <2>4
    <3>2. w[2 * j - 1] # w[2 * k - 1]
      BY <3>1 DEF Distinct
    <3> QED BY <1>2, <3>2
  <2>5. \A j \in 1..m : lo[j] \in ToSet(w)
    BY <1>1, <1>2, <2>2 DEF ToSet
  <2> QED BY <2>1, <2>4, <2>5 DEF Distinct
<1>6. Distinct(up) /\ \A j \in DOMAIN up : up[j] \in ToSet(w)
  <2> DEFINE at(k) == IF k <= m THEN 2 * k ELSE L
  <2>1. DOMAIN up = 1..(L - m)
    BY <1>1, <1>4
  <2>2. ASSUME NEW k \in 1..(L - m) PROVE at(k) \in DOMAIN w
    <3>1. k <= m => 2 * k \in 1..L
      BY <1>1
    <3>2. k > m => L \in 1..L
      BY <1>1
    <3> QED BY <1>1, <3>1, <3>2
  <2>3. ASSUME NEW j \in 1..(L - m), NEW k \in 1..(L - m), j # k PROVE at(j) # at(k)
    <3>1. j > m => j = m + 1 /\ L = 2 * m + 1
      BY <1>1
    <3>2. k > m => k = m + 1 /\ L = 2 * m + 1
      BY <1>1
    <3> QED BY <1>1, <2>3, <3>1, <3>2
  <2>4. \A k \in 1..(L - m) : up[k] = w[at(k)]
    BY <1>4
  <2> HIDE DEF at
  <2>5. \A j, k \in 1..(L - m) : j # k => up[j] # up[k]
    BY <2>2, <2>3, <2>4 DEF Distinct
  <2>6. \A j \in 1..(L - m) : up[j] \in ToSet(w)
    BY <2>2, <2>4 DEF ToSet
  <2> QED BY <2>1, <2>5, <2>6 DEF Distinct
<1> QED BY <1>2, <1>4, <1>5, <1>6 DEF L, m, lo, up
-----------------------------------------------------------------------------
\* A network of n levels fits the box of its levels and of half its wires.
Sound(n) == \A lvl, idx \in Nat, w \in Seq(Nat) :
  Distinct(w) /\ Len(w) \in 2..TwoTo[n] =>
    Fits(Circuit[n][lvl][idx][w], lvl, lvl + 2 * n - 2, idx, idx + Len(w) \div 2 - 1, ToSet(w))

LEMMA CircuitLayer ==
  ASSUME NEW n \in Nat, NEW lvl \in Nat, NEW idx \in Nat, NEW w \in Seq(Nat)
  PROVE  Circuit[n + 1][lvl][idx][w] = Layer(Circuit[n], n + 1, lvl, idx, w)
<1>1. Circuit[n + 1] = Layers(Circuit[n], n + 1)
  BY Circuits
<1> QED BY <1>1 DEF Layers

\* Wires but for the first, and how a half counts against a power of two.
LEMMA TailDistinct ==
  ASSUME NEW w \in Seq(Nat), Len(w) >= 1, Distinct(w)
  PROVE  /\ Tail(w) \in Seq(Nat) /\ Len(Tail(w)) = Len(w) - 1 /\ Distinct(Tail(w))
         /\ \A j \in DOMAIN Tail(w) : Tail(w)[j] \in ToSet(w)
<1> DEFINE v == Tail(w)
           m == Len(w) - 1
<1>1. m \in Nat /\ v \in Seq(Nat) /\ Len(v) = m /\ DOMAIN v = 1..m /\ DOMAIN w = 1..(m + 1)
  OBVIOUS
<1>2. \A j \in 1..m : v[j] = w[j + 1]
  <2>1. w # <<>>
    OBVIOUS
  <2> QED BY <1>1, <2>1, HeadTailProperties
<1> HIDE DEF v, m
<1>3. \A j, k \in 1..m : /\ j + 1 \in 1..(m + 1) /\ k + 1 \in 1..(m + 1)
                       /\ (j # k => j + 1 # k + 1)
  BY <1>1
<1>4. Distinct(v)
  BY <1>1, <1>2, <1>3 DEF Distinct
<1>5. \A j \in DOMAIN v : v[j] \in ToSet(w)
  BY <1>1, <1>2, <1>3 DEF ToSet
<1> QED BY <1>1, <1>4, <1>5 DEF v, m

LEMMA Halving ==
  ASSUME NEW L \in Nat, NEW T \in Nat, L > 3, L <= 2 * T
  PROVE  /\ L \div 2 \in 2..T /\ L - L \div 2 \in 2..T /\ L \div 4 \in Nat /\ L \div 4 <= L \div 2
         /\ (L \div 2) \div 2 = L \div 4 /\ L \div 4 + (L - L \div 2) \div 2 <= L \div 2
<1>1. L \div 2 \in 2..T /\ L - L \div 2 \in 2..T
  OBVIOUS
<1>2. L \div 4 \in Nat /\ L \div 4 <= L \div 2 /\ (L \div 2) \div 2 = L \div 4
  OBVIOUS
<1>3. L \div 4 + (L - L \div 2) \div 2 <= L \div 2
  OBVIOUS
<1> QED BY <1>1, <1>2, <1>3

\* The two networks inside a layer fit beside each other and between its columns.
LEMMA SoundStep == ASSUME NEW n \in Nat, Sound(n) PROVE Sound(n + 1)
<1>0. SUFFICES ASSUME NEW lvl \in Nat, NEW idx \in Nat, NEW w \in Seq(Nat), Distinct(w), Len(w) \in 2..TwoTo[n + 1]
             PROVE  Fits(Circuit[n + 1][lvl][idx][w], lvl, lvl + 2 * (n + 1) - 2, idx, idx + Len(w) \div 2 - 1, ToSet(w))
  BY DEF Sound
<1> DEFINE s == Circuit[n + 1][lvl][idx][w]
           L == Len(w)
           m == Len(w) \div 2
           Top == lvl + 2 * (n + 1) - 2
           V == ToSet(w)
           End == idx + Len(w) \div 2 - 1
<1>1. s = Layer(Circuit[n], n + 1, lvl, idx, w)
  BY CircuitLayer
<1>2. L \in Nat /\ DOMAIN w = 1..L /\ \A j \in DOMAIN w : w[j] \in V
  BY DEF ToSet
<1>3. TwoTo[n] \in Nat /\ TwoTo[n + 1] = 2 * TwoTo[n] /\ TwoTo[0] = 1
  BY Powers
<1>7. L \in 2..TwoTo[n + 1] /\ Distinct(w)
  BY <1>0
<1>4. CASE L = 2
  <2>1. s = Row(MiddleLevel(n + 1, lvl), idx, w)
    BY <1>1, <1>4 DEF Layer
  <2>2. MiddleLevel(n + 1, lvl) \in Nat /\ MiddleLevel(n + 1, lvl) >= lvl /\ MiddleLevel(n + 1, lvl) <= Top
    BY DEF MiddleLevel
  <2> HIDE DEF s, V
  <2>3. Fits(s, MiddleLevel(n + 1, lvl), MiddleLevel(n + 1, lvl), idx, End, V)
    BY <1>2, <1>7, <2>1, <2>2, RowFits
  <2>4. End \in Int /\ Top \in Int
    BY <1>4
  <2> HIDE DEF Top, End
  <2>5. Fits(s, lvl, Top, idx, End, V)
    BY <2>2, <2>3, <2>4, FitsWider
  <2> QED BY <2>5 DEF s, Top, End, V
<1>5. CASE L = 3
  <2> DEFINE r == Row(lvl, idx, w)
             q == Row(lvl + 1, idx, Tail(w))
             p == Row(lvl + 2, idx, w)
  <2>1. s = r \o q \o p
    BY <1>1, <1>5 DEF Layer
  <2>2. n >= 1
    BY <1>3, <1>5, <1>7
  <2>3. Tail(w) \in Seq(Nat) /\ Len(Tail(w)) = 2 /\ Distinct(Tail(w)) /\ \A j \in DOMAIN Tail(w) : Tail(w)[j] \in V
    <3>1. Len(w) >= 1 /\ Len(w) - 1 = 2
      <4>1. L >= 1 /\ L - 1 = 2
        <5> HIDE DEF L
        <5> QED BY <1>5
      <4> QED BY <4>1
    <3> HIDE DEF r, q, p, s
    <3> QED BY <1>7, <3>1, TailDistinct
  <2>5. /\ End = idx /\ lvl + 1 \in Nat /\ lvl + 2 \in Nat /\ Top \in Int /\ lvl + 2 <= Top
        /\ Len(Tail(w)) \div 2 = 1 /\ L \div 2 = 1 /\ idx \in Int
    <3>1. 2 \div 2 = 1 /\ 3 \div 2 = 1
      OBVIOUS
    <3>2. lvl + 1 \in Nat /\ lvl + 2 \in Nat /\ Top \in Int /\ lvl + 2 <= Top /\ idx \in Int /\ idx + 1 - 1 = idx
      BY <2>2
    <3> HIDE DEF Top
    <3> QED BY <1>5, <2>3, <3>1, <3>2
  <2> HIDE DEF r, q, p, s, V
  <2>6. Fits(r, lvl, lvl, idx, idx, V) /\ Fits(q, lvl + 1, lvl + 1, idx, idx, V) /\ Fits(p, lvl + 2, lvl + 2, idx, idx, V)
    <3>1. idx + 1 - 1 = idx
      OBVIOUS
    <3>2. Fits(r, lvl, lvl, idx, idx + Len(w) \div 2 - 1, V)
      BY <1>2, <1>7, RowFits DEF r
    <3>3. Fits(q, lvl + 1, lvl + 1, idx, idx + Len(Tail(w)) \div 2 - 1, V)
      BY <2>3, <2>5, RowFits DEF q
    <3>4. Fits(p, lvl + 2, lvl + 2, idx, idx + Len(w) \div 2 - 1, V)
      BY <1>2, <1>7, <2>5, RowFits DEF p
    <3> QED BY <2>5, <3>1, <3>2, <3>3, <3>4
  <2> HIDE DEF Top
  <2>7. Fits(r, lvl, Top, idx, idx, V) /\ Fits(q, lvl, Top, idx, idx, V) /\ Fits(p, lvl, Top, idx, idx, V)
    <3>1. /\ lvl \in Int /\ lvl + 1 \in Int /\ lvl + 2 \in Int /\ lvl <= lvl + 1 /\ lvl <= lvl + 2
          /\ lvl <= Top /\ lvl + 1 <= Top /\ lvl <= lvl /\ idx <= idx /\ V \subseteq V
      BY <2>5
    <3>2. Fits(r, lvl, Top, idx, idx, V)
      BY <2>5, <2>6, <3>1, FitsWider
    <3>3. Fits(q, lvl, Top, idx, idx, V)
      BY <2>5, <2>6, <3>1, FitsWider
    <3>4. Fits(p, lvl, Top, idx, idx, V)
      BY <2>5, <2>6, <3>1, FitsWider
    <3> QED BY <3>2, <3>3, <3>4
  <2>8. Apart(r, q) /\ Apart(r, p) /\ Apart(q, p)
    <3>1. lvl \in Int /\ lvl + 1 \in Int /\ lvl + 2 \in Int /\ lvl < lvl + 1 /\ lvl < lvl + 2 /\ lvl + 1 < lvl + 2
      OBVIOUS
    <3> QED BY <2>6, <3>1, ApartLevels
  <2>9. Fits(r \o q, lvl, Top, idx, idx, V)
    BY <2>7, <2>8, FitsJoin
  <2>10. Apart(r \o q, p)
    <3>1. r \in Seq(Gate) /\ q \in Seq(Gate) /\ p \in Seq(Gate)
      BY <2>7 DEF Fits
    <3> QED BY <2>8, <3>1, ApartJoin
  <2>11. Fits((r \o q) \o p, lvl, Top, idx, idx, V)
    BY <2>7, <2>9, <2>10, FitsJoin
  <2> QED BY <2>1, <2>5, <2>11 DEF s, Top, V
<1>6. CASE L > 3
  <2> DEFINE up == Half(w, 1) \o Rest(w)
             lo == Half(w, 0)
             q4 == Len(w) \div 4
             r == Row(lvl, idx, w)
             x == Circuit[n][lvl + 1][idx][lo]
             y == Circuit[n][lvl + 1][idx + q4][up]
             p == Row(lvl + 2 * (n + 1) - 2, idx, w)
  <2>1. s = r \o x \o y \o p
    <3>1. n + 1 > 0 /\ Len(w) # 2 /\ Len(w) # 3
      <4>1. L # 2 /\ L # 3 /\ n + 1 > 0
        <5> HIDE DEF L
        <5> QED BY <1>2, <1>6
      <4> QED BY <4>1
    <3>2. Circuit[(n + 1) - 1] = Circuit[n]
      OBVIOUS
    <3> QED BY <1>1, <1>6, <3>1, Zenon DEF Layer
  <2>2. /\ lo \in Seq(Nat) /\ Distinct(lo) /\ Len(lo) = m /\ \A j \in DOMAIN lo : lo[j] \in V
        /\ up \in Seq(Nat) /\ Distinct(up) /\ Len(up) = L - m /\ \A j \in DOMAIN up : up[j] \in V
    BY <1>6, <1>7, HalvesDistinct
  <2>3. /\ m \in 2..TwoTo[n] /\ L - m \in 2..TwoTo[n] /\ q4 \in Nat /\ q4 <= m
        /\ m \div 2 = q4 /\ q4 + (L - m) \div 2 <= m
    <3>1. L \in Nat /\ TwoTo[n] \in Nat /\ L > 3 /\ L <= 2 * TwoTo[n]
      BY <1>2, <1>3, <1>6, <1>7
    <3> HIDE DEF L, V, lo, up, r, x, y, p, s
    <3>2. /\ L \div 2 \in 2..TwoTo[n] /\ L - L \div 2 \in 2..TwoTo[n] /\ L \div 4 \in Nat /\ L \div 4 <= L \div 2
          /\ (L \div 2) \div 2 = L \div 4 /\ L \div 4 + (L - L \div 2) \div 2 <= L \div 2
      BY <3>1, Halving
    <3> QED BY <3>2 DEF L
  <2>4. n >= 1
    BY <1>3, <2>3
  <2>5. ToSet(lo) \subseteq V /\ ToSet(up) \subseteq V
    BY <2>2 DEF ToSet
  <2> HIDE DEF r, x, y, p, s, V, lo, up, q4, m
  <2>6. Fits(x, lvl + 1, lvl + 1 + 2 * n - 2, idx, idx + q4 - 1, ToSet(lo))
    <3>1. lvl + 1 \in Nat
      OBVIOUS
    <3>2. Fits(x, lvl + 1, lvl + 1 + 2 * n - 2, idx, idx + Len(lo) \div 2 - 1, ToSet(lo))
      BY <2>2, <2>3, <3>1 DEF Sound, x
    <3> QED BY <2>2, <2>3, <3>2
  <2>7. Fits(y, lvl + 1, lvl + 1 + 2 * n - 2, idx + q4, idx + q4 + (L - m) \div 2 - 1, ToSet(up))
    <3>1. lvl + 1 \in Nat /\ idx + q4 \in Nat
      BY <2>3
    <3>2. Fits(y, lvl + 1, lvl + 1 + 2 * n - 2, idx + q4, idx + q4 + Len(up) \div 2 - 1, ToSet(up))
      BY <2>2, <2>3, <3>1 DEF Sound, y
    <3> QED BY <2>2, <3>2
  <2>8. Fits(r, lvl, lvl, idx, End, V)
    BY <1>2, <1>7, RowFits DEF r
  <2>9. Fits(p, Top, Top, idx, End, V)
    <3>1. lvl + 2 * (n + 1) - 2 \in Nat
      OBVIOUS
    <3> QED BY <1>2, <1>7, <3>1, RowFits DEF p
  <2>10. End = idx + m - 1
    BY DEF m
  <2>11. /\ lvl < lvl + 1 /\ lvl < Top /\ lvl + 1 + 2 * n - 2 < Top /\ lvl <= lvl + 1
         /\ lvl <= lvl + 1 + 2 * n - 2 /\ lvl \in Int /\ Top \in Int
         /\ lvl + 1 \in Int /\ lvl + 1 + 2 * n - 2 \in Int /\ idx \in Int /\ End \in Int /\ idx + q4 \in Int
         /\ idx + q4 - 1 \in Int /\ idx + q4 - 1 < idx + q4 /\ idx + q4 + (L - m) \div 2 - 1 \in Int
         /\ idx <= idx + q4 /\ idx + q4 - 1 <= End /\ idx + q4 + (L - m) \div 2 - 1 <= End
    BY <1>2, <2>3, <2>4, <2>10
  <2> HIDE DEF Top, End
  <2> DEFINE mid == lvl + 1 + 2 * n - 2
             ex == idx + q4 - 1
             iy == idx + q4
             ey == idx + q4 + (L - m) \div 2 - 1
  <2>12. Fits(x, lvl + 1, mid, idx, ex, ToSet(lo)) /\ Fits(y, lvl + 1, mid, iy, ey, ToSet(up))
    BY <2>6, <2>7
  <2>13. /\ lvl < lvl + 1 /\ lvl < Top /\ mid < Top /\ lvl <= lvl + 1 /\ lvl <= Top /\ mid <= Top /\ lvl \in Int /\ Top \in Int
         /\ lvl + 1 \in Int /\ mid \in Int /\ idx \in Int /\ End \in Int /\ iy \in Int /\ ex \in Int /\ ex < iy /\ ey \in Int
         /\ idx <= iy /\ ex <= End /\ ey <= End
    BY <2>11
  <2> HIDE DEF mid, ex, iy, ey
  <2>14. Fits(r, lvl, Top, idx, End, V) /\ Fits(p, lvl, Top, idx, End, V)
    <3>1. idx <= idx /\ End <= End /\ lvl <= lvl /\ Top <= Top /\ V \subseteq V
      BY <2>13
    <3>2. Fits(r, lvl, Top, idx, End, V)
      BY <2>8, <2>13, <3>1, FitsWider
    <3>3. Fits(p, lvl, Top, idx, End, V)
      BY <2>9, <2>13, <3>1, FitsWider
    <3> QED BY <3>2, <3>3
  <2>15. Fits(x, lvl, Top, idx, End, V)
    <3>1. idx <= idx
      BY <2>13
    <3> QED BY <2>5, <2>12, <2>13, <3>1, FitsWider
  <2>16. Fits(y, lvl, Top, idx, End, V)
    BY <2>5, <2>12, <2>13, FitsWider
  <2>17. Apart(r, x) /\ Apart(r, y) /\ Apart(r, p)
    BY <2>8, <2>9, <2>12, <2>13, ApartLevels
  <2>18. Apart(x, p) /\ Apart(y, p)
    BY <2>9, <2>12, <2>13, ApartLevels
  <2>19. Apart(x, y)
    BY <2>12, <2>13, ApartIndices
  <2>20. r \in Seq(Gate) /\ x \in Seq(Gate) /\ y \in Seq(Gate) /\ p \in Seq(Gate)
    BY <2>14, <2>15, <2>16 DEF Fits
  <2>21. Fits(r \o x, lvl, Top, idx, End, V) /\ r \o x \in Seq(Gate)
    <3>1. Fits(r \o x, lvl, Top, idx, End, V)
      BY <2>14, <2>15, <2>17, FitsJoin
    <3> QED BY <3>1 DEF Fits
  <2>22. Apart(r \o x, y) /\ Apart(r \o x, p)
    BY <2>17, <2>18, <2>19, <2>20, ApartJoin
  <2>23. Fits((r \o x) \o y, lvl, Top, idx, End, V)
    BY <2>16, <2>21, <2>22, FitsJoin
  <2>24. Apart((r \o x) \o y, p)
    BY <2>18, <2>20, <2>21, <2>22, ApartJoin
  <2>25. Fits(((r \o x) \o y) \o p, lvl, Top, idx, End, V)
    BY <2>14, <2>23, <2>24, FitsJoin
  <2> QED BY <2>1, <2>25 DEF s, Top, V, End
<1> QED BY <1>2, <1>3, <1>4, <1>5, <1>6, <1>7
-----------------------------------------------------------------------------
\* By induction on the number of levels.
LEMMA SoundAll == \A n \in Nat : Sound(n)
<1> DEFINE T == {n \in Nat : Sound(n)}
<1>1. 0 \in T
  <2>1. ASSUME NEW w \in Seq(Nat), Len(w) \in 2..TwoTo[0] PROVE FALSE
    BY <2>1, Powers
  <2>2. Sound(0)
    BY <2>1, Zenon DEF Sound
  <2> QED BY <2>2
<1>2. \A n \in Nat : n \in T => n + 1 \in T
  BY SoundStep
<1>3. Nat \subseteq T
  <2> HIDE DEF T
  <2> QED BY <1>1, <1>2, Induct
<1> QED BY <1>3

\* The switches of a whole network are at different places of it.
LEMMA GatesFit ==
  ASSUME NEW h \in Nat, h >= 2
  PROVE  Fits(Gates(h), 0, Levels(h) - 1, 0, h \div 2 - 1, 1..h)
<1> DEFINE w == [i \in 1..h |-> i]
           n == LogCeil(h)
<1>1. w \in Seq(Nat) /\ Len(w) = h /\ Distinct(w) /\ ToSet(w) = 1..h
  <2>1. w \in [1..h -> Nat] /\ DOMAIN w = 1..h /\ \A i \in 1..h : w[i] = i
    OBVIOUS
  <2>2. w \in Seq(Nat) /\ Len(w) = h
    BY <2>1
  <2>3. Distinct(w)
    BY <2>1 DEF Distinct
  <2>4. ToSet(w) = 1..h
    BY <2>1 DEF ToSet
  <2> QED BY <2>2, <2>3, <2>4
<1>2. n \in Nat /\ TwoTo[n] >= h /\ TwoTo[n] \in Nat
  BY LogCeilBounds, Powers
<1> HIDE DEF w
<1>3. Fits(Circuit[n][0][0][w], 0, 0 + 2 * n - 2, 0, 0 + Len(w) \div 2 - 1, ToSet(w))
  <2>1. Sound(n)
    BY <1>2, SoundAll
  <2>2. Len(w) \in 2..TwoTo[n]
    BY <1>1, <1>2
  <2>3. 0 \in Nat
    OBVIOUS
  <2> QED BY <1>1, <2>1, <2>2, <2>3, Zenon DEF Sound
<1>4. 0 + 2 * n - 2 = (2 * n - 1) - 1 /\ 0 + h \div 2 - 1 = h \div 2 - 1
  BY <1>2
<1> QED BY <1>1, <1>3, <1>4 DEF Gates, Levels, w

\* The switches of h rows are on two different rows each.
LEMMA GatesTyped ==
  ASSUME NEW h \in Nat, h >= 2
  PROVE  /\ Gates(h) \in Seq(Gate) /\ Len(Gates(h)) \in Nat /\ DOMAIN Gates(h) = 1..Len(Gates(h))
         /\ \A k \in 1..Len(Gates(h)) :
              /\ Gates(h)[k].at \in Places(h)
              /\ Gates(h)[k].on[1] \in 1..h /\ Gates(h)[k].on[2] \in 1..h /\ Gates(h)[k].on[1] # Gates(h)[k].on[2]
         /\ \A j, k \in 1..Len(Gates(h)) : j # k => Gates(h)[j].at # Gates(h)[k].at
<1> DEFINE s == Gates(h)
<1>1. Fits(s, 0, Levels(h) - 1, 0, h \div 2 - 1, 1..h)
  BY GatesFit
<1> HIDE DEF s
<1>2. s \in Seq(Gate) /\ Len(s) \in Nat /\ DOMAIN s = 1..Len(s)
  BY <1>1 DEF Fits
<1>3. ASSUME NEW k \in 1..Len(s)
      PROVE s[k].at \in Places(h) /\ s[k].on[1] \in 1..h /\ s[k].on[2] \in 1..h /\ s[k].on[1] # s[k].on[2]
  <2>1. Placed(s[k], 0, Levels(h) - 1, 0, h \div 2 - 1, 1..h)
    BY <1>1, <1>2 DEF Fits
  <2>2. s[k] \in Gate
    BY <1>2
  <2>3. s[k].at \in Nat \X Nat
    BY <2>2 DEF Gate
  <2>4. s[k].at = <<s[k].at[1], s[k].at[2]>>
    BY <2>3
  <2> QED BY <2>1, <2>4 DEF Placed, Places
<1>4. \A j, k \in 1..Len(s) : j # k => s[j].at # s[k].at
  BY <1>1, <1>2 DEF Fits
<1> QED BY <1>2, <1>3, <1>4 DEF s
-----------------------------------------------------------------------------
(* A fold, along the prefixes of its sequence. *)
LEMMA Prefix ==
  ASSUME NEW n \in Nat, NEW k \in 0..(n - 1)
  PROVE  /\ 1..k \in SUBSET (1..n) /\ 1..(k + 1) \in SUBSET (1..n) /\ 1..(k + 1) # {}
         /\ Max(1..(k + 1)) = k + 1 /\ (1..(k + 1)) \ {k + 1} = 1..k /\ k + 1 \in 1..n
<1>1. 1..(k + 1) \in SUBSET (0..n) /\ k + 1 \in 1..(k + 1)
  OBVIOUS
<1>2. Max(1..(k + 1)) \in 1..(k + 1) /\ \A y \in 1..(k + 1) : y <= Max(1..(k + 1))
  <2>1. 1..(k + 1) # {}
    BY <1>1
  <2> HIDE DEF Max
  <2> QED BY <1>1, <2>1, Greatest
<1>3. Max(1..(k + 1)) = k + 1
  BY <1>1, <1>2
<1>4. 1..k \in SUBSET (1..n) /\ 1..(k + 1) \in SUBSET (1..n) /\ 1..(k + 1) # {} /\ k + 1 \in 1..n
  OBVIOUS
<1>5. (1..(k + 1)) \ {k + 1} = 1..k
  OBVIOUS
<1> QED BY <1>3, <1>4, <1>5, Zenon

LEMMA LastOf ==
  ASSUME NEW n \in Nat, NEW t \in SUBSET (1..n), t # {}
  PROVE  Max(t) \in 1..n /\ t \ {Max(t)} \in SUBSET (1..n)
<1>1. t \in SUBSET (0..n)
  OBVIOUS
<1>2. Max(t) \in t
  BY <1>1, Greatest
<1> QED BY <1>2

\* A column of h blocks is a sequence of them.
LEMMA LenColumn ==
  ASSUME NEW h \in Nat, NEW A, NEW column \in [1..h -> A]
  PROVE  column \in Seq(A) /\ Len(column) = h
OBVIOUS

\* What one switch of the sender does to a column, and the columns along the network.
PermuteAt(switches, g, x) == Put(x, g, Turned(Ends(x, g), g.at \in switches))
PermuteRun(P, switches, column, h, A) ==
  /\ P \in [0..Len(Gates(h)) -> [1..h -> A]] /\ P[0] = column /\ P[Len(Gates(h))] = Permuted(switches, column)
  /\ \A k \in 0..(Len(Gates(h)) - 1) : P[k + 1] = PermuteAt(switches, Gates(h)[k + 1], P[k])

\* Permuted goes through those columns.
LEMMA PermutedRun ==
  ASSUME NEW h \in Nat, h >= 2, NEW A, NEW column \in [1..h -> A], NEW switches
  PROVE  \E P : PermuteRun(P, switches, column, h, A)
<1> DEFINE s == Gates(h)
           n == Len(Gates(h))
           St == [1..h -> A]
           H == [k \in 1..n |-> [x \in St |-> PermuteAt(switches, s[k], x)]]
<1>0. n \in Nat /\ DOMAIN s = 1..n
  BY GatesTyped
<1>1. \A k \in 1..n, x \in St : PermuteAt(switches, s[k], x) \in St
  <2> SUFFICES ASSUME NEW k \in 1..n, NEW x \in St PROVE PermuteAt(switches, s[k], x) \in St
    OBVIOUS
  <2>1. s[k].on[1] \in 1..h /\ s[k].on[2] \in 1..h
    BY GatesTyped
  <2>2. x[s[k].on[1]] \in A /\ x[s[k].on[2]] \in A
    BY <2>1
  <2> HIDE DEF s
  <2> QED BY <2>1, <2>2 DEF PermuteAt, Put, Turned, Ends
<1>2. column \in St
  BY DEF St
<1> HIDE DEF s, n, St
<1>3. PICK g : IsFold(g, H, column, n, St)
  <2>1. H \in [1..n -> [St -> St]]
    BY <1>1
  <2> HIDE DEF H
  <2> QED BY <1>0, <1>2, <2>1, Folding
<1> DEFINE Next1(f, t) == IF t = {} THEN column ELSE PermuteAt(switches, s[Max(t)], f[t \ {Max(t)}])
<1>4. \A t \in SUBSET (1..n) : g[t] = Next1(g, t)
  <2> SUFFICES ASSUME NEW t \in SUBSET (1..n) PROVE g[t] = Next1(g, t)
    OBVIOUS
  <2>1. g[t] = FoldedAt(H, column, n, t, g) /\ \A u \in SUBSET (1..n) : g[u] \in St
    BY <1>3 DEF IsFold
  <2>2. CASE t = {}
    BY <2>1, <2>2 DEF FoldedAt
  <2>3. CASE t # {}
    <3>1. Max(t) \in 1..n /\ t \ {Max(t)} \in SUBSET (1..n)
      BY <1>0, <2>3, LastOf
    <3>2. g[t] = H[Max(t)][g[t \ {Max(t)}]] /\ g[t \ {Max(t)}] \in St
      BY <2>1, <2>3, <3>1 DEF FoldedAt
    <3> HIDE DEF Max
    <3>3. g[t] = PermuteAt(switches, s[Max(t)], g[t \ {Max(t)}])
      BY <3>1, <3>2
    <3> QED BY <2>3, <3>3
  <2> QED BY <2>2, <2>3
<1> HIDE DEF Next1
<1>5. g = [t \in SUBSET (1..n) |-> Next1(g, t)]
  BY <1>3, <1>4, Zenon DEF IsFold
<1> DEFINE iter == CHOOSE f : f = [t \in SUBSET (1..n) |-> Next1(f, t)]
<1>6. iter = [t \in SUBSET (1..n) |-> Next1(iter, t)]
  BY <1>5, Zenon
<1>15. Len(column) = h
  BY LenColumn
<1>7. Permuted(switches, column) = iter[1..n]
  BY <1>0, <1>15, Zenon DEF Permuted, FoldLeft, MapThenFoldSet, Next1, PermuteAt, s
<1> HIDE DEF iter
<1>8. \A t \in SUBSET (1..n) : iter[t] = Next1(iter, t)
  BY <1>6, Zenon
<1>9. iter[1..0] = column
  <2>1. 1..0 = {} /\ 1..0 \in SUBSET (1..n)
    OBVIOUS
  <2> QED BY <1>8, <2>1 DEF Next1
<1>10. ASSUME NEW k \in 0..(n - 1) PROVE iter[1..(k + 1)] = PermuteAt(switches, s[k + 1], iter[1..k])
  <2>1. /\ 1..(k + 1) \in SUBSET (1..n) /\ 1..(k + 1) # {}
        /\ Max(1..(k + 1)) = k + 1 /\ (1..(k + 1)) \ {k + 1} = 1..k
    BY <1>0, Prefix
  <2>2. iter[1..(k + 1)] = Next1(iter, 1..(k + 1))
    BY <1>8, <2>1
  <2> QED BY <2>1, <2>2, Zenon DEF Next1
<1> DEFINE T == {k \in 0..n : iter[1..k] \in St}
           Q == [k \in 0..n |-> iter[1..k]]
<1>11. 0..n \subseteq T
  <2>1. 0 \in T
    BY <1>0, <1>2, <1>9
  <2>2. ASSUME NEW k \in 0..(n - 1), k \in T PROVE k + 1 \in T
    <3>1. k + 1 \in 1..n /\ k + 1 \in 0..n
      BY <1>0
    <3> QED BY <1>1, <1>10, <2>2, <3>1
  <2> HIDE DEF T
  <2> QED BY <1>0, <2>1, <2>2, InductUpTo
<1>12. Q \in [0..n -> St] /\ Q[0] = column /\ Q[n] = Permuted(switches, column)
  BY <1>0, <1>7, <1>9, <1>11
<1>13. \A k \in 0..(n - 1) : Q[k + 1] = PermuteAt(switches, s[k + 1], Q[k])
  <2> SUFFICES ASSUME NEW k \in 0..(n - 1) PROVE Q[k + 1] = PermuteAt(switches, s[k + 1], Q[k])
    OBVIOUS
  <2>1. k \in 0..n /\ k + 1 \in 0..n
    BY <1>0
  <2>2. Q[k] = iter[1..k] /\ Q[k + 1] = iter[1..(k + 1)]
    BY <2>1
  <2> QED BY <1>10, <2>2
<1> HIDE DEF Q
<1>14. PermuteRun(Q, switches, column, h, A)
  BY <1>12, <1>13 DEF PermuteRun, s, n, St
<1> QED BY <1>14

\* The same for maskedEvaluate, with the pads of each switch.
MaskAt(switches, pads, g, x) == Put(x, g, Turned(XorPair(Ends(x, g), pads[g.at]), g.at \in switches))

MaskRun(P, switches, pads, column, h, A) ==
  /\ P \in [0..Len(Gates(h)) -> [1..h -> SUBSET A]] /\ P[0] = column /\ P[Len(Gates(h))] = MaskedEvaluate(switches, pads, column)
  /\ \A k \in 0..(Len(Gates(h)) - 1) : P[k + 1] = MaskAt(switches, pads, Gates(h)[k + 1], P[k])

\* MaskedEvaluate goes through those columns.
LEMMA MaskedRun ==
  ASSUME NEW h \in Nat, h >= 2, NEW A, NEW column \in [1..h -> SUBSET A], NEW switches,
         NEW pads, \A p \in Places(h) : pads[p][1] \in SUBSET A /\ pads[p][2] \in SUBSET A
  PROVE  \E P : MaskRun(P, switches, pads, column, h, A)
<1> DEFINE s == Gates(h)
           n == Len(Gates(h))
           St == [1..h -> SUBSET A]
           H == [k \in 1..n |-> [x \in St |-> MaskAt(switches, pads, s[k], x)]]
<1>0. n \in Nat /\ DOMAIN s = 1..n
  BY GatesTyped
<1>1. \A k \in 1..n, x \in St : MaskAt(switches, pads, s[k], x) \in St
  <2> SUFFICES ASSUME NEW k \in 1..n, NEW x \in St PROVE MaskAt(switches, pads, s[k], x) \in St
    OBVIOUS
  <2>1. s[k].on[1] \in 1..h /\ s[k].on[2] \in 1..h /\ s[k].at \in Places(h)
    BY GatesTyped
  <2> HIDE DEF s
  <2>2. x[s[k].on[1]] \in SUBSET A /\ x[s[k].on[2]] \in SUBSET A /\ pads[s[k].at][1] \in SUBSET A /\ pads[s[k].at][2] \in SUBSET A
    BY <2>1
  <2>3. \A a, b \in SUBSET A : Xor(a, b) \in SUBSET A
    BY DEF Xor, SymDiff
  <2> QED BY <2>1, <2>2, <2>3 DEF MaskAt, Put, Turned, XorPair, Ends
<1>2. column \in St
  BY DEF St
<1> HIDE DEF s, n, St
<1>3. PICK g : IsFold(g, H, column, n, St)
  <2>1. H \in [1..n -> [St -> St]]
    BY <1>1
  <2> HIDE DEF H
  <2> QED BY <1>0, <1>2, <2>1, Folding
<1> DEFINE Next1(f, t) == IF t = {} THEN column ELSE MaskAt(switches, pads, s[Max(t)], f[t \ {Max(t)}])
<1>4. \A t \in SUBSET (1..n) : g[t] = Next1(g, t)
  <2> SUFFICES ASSUME NEW t \in SUBSET (1..n) PROVE g[t] = Next1(g, t)
    OBVIOUS
  <2>1. g[t] = FoldedAt(H, column, n, t, g) /\ \A u \in SUBSET (1..n) : g[u] \in St
    BY <1>3 DEF IsFold
  <2>2. CASE t = {}
    BY <2>1, <2>2 DEF FoldedAt
  <2>3. CASE t # {}
    <3>1. Max(t) \in 1..n /\ t \ {Max(t)} \in SUBSET (1..n)
      BY <1>0, <2>3, LastOf
    <3>2. g[t] = H[Max(t)][g[t \ {Max(t)}]] /\ g[t \ {Max(t)}] \in St
      BY <2>1, <2>3, <3>1 DEF FoldedAt
    <3> HIDE DEF Max
    <3>3. g[t] = MaskAt(switches, pads, s[Max(t)], g[t \ {Max(t)}])
      BY <3>1, <3>2
    <3> QED BY <2>3, <3>3
  <2> QED BY <2>2, <2>3
<1> HIDE DEF Next1
<1>5. g = [t \in SUBSET (1..n) |-> Next1(g, t)]
  BY <1>3, <1>4, Zenon DEF IsFold
<1> DEFINE iter == CHOOSE f : f = [t \in SUBSET (1..n) |-> Next1(f, t)]
<1>6. iter = [t \in SUBSET (1..n) |-> Next1(iter, t)]
  BY <1>5, Zenon
<1>15. Len(column) = h
  BY LenColumn
<1>7. MaskedEvaluate(switches, pads, column) = iter[1..n]
  BY <1>0, <1>15, Zenon DEF MaskedEvaluate, FoldLeft, MapThenFoldSet, Next1, MaskAt, s
<1> HIDE DEF iter
<1>8. \A t \in SUBSET (1..n) : iter[t] = Next1(iter, t)
  BY <1>6, Zenon
<1>9. iter[1..0] = column
  <2>1. 1..0 = {} /\ 1..0 \in SUBSET (1..n)
    OBVIOUS
  <2> QED BY <1>8, <2>1 DEF Next1
<1>10. ASSUME NEW k \in 0..(n - 1) PROVE iter[1..(k + 1)] = MaskAt(switches, pads, s[k + 1], iter[1..k])
  <2>1. /\ 1..(k + 1) \in SUBSET (1..n) /\ 1..(k + 1) # {}
        /\ Max(1..(k + 1)) = k + 1 /\ (1..(k + 1)) \ {k + 1} = 1..k
    BY <1>0, Prefix
  <2>2. iter[1..(k + 1)] = Next1(iter, 1..(k + 1))
    BY <1>8, <2>1
  <2> QED BY <2>1, <2>2, Zenon DEF Next1
<1> DEFINE T == {k \in 0..n : iter[1..k] \in St}
           Q == [k \in 0..n |-> iter[1..k]]
<1>11. 0..n \subseteq T
  <2>1. 0 \in T
    BY <1>0, <1>2, <1>9
  <2>2. ASSUME NEW k \in 0..(n - 1), k \in T PROVE k + 1 \in T
    <3>1. k + 1 \in 1..n /\ k + 1 \in 0..n
      BY <1>0
    <3> QED BY <1>1, <1>10, <2>2, <3>1
  <2> HIDE DEF T
  <2> QED BY <1>0, <2>1, <2>2, InductUpTo
<1>12. Q \in [0..n -> St] /\ Q[0] = column /\ Q[n] = MaskedEvaluate(switches, pads, column)
  BY <1>0, <1>7, <1>9, <1>11
<1>13. \A k \in 0..(n - 1) : Q[k + 1] = MaskAt(switches, pads, s[k + 1], Q[k])
  <2> SUFFICES ASSUME NEW k \in 0..(n - 1) PROVE Q[k + 1] = MaskAt(switches, pads, s[k + 1], Q[k])
    OBVIOUS
  <2>1. k \in 0..n /\ k + 1 \in 0..n
    BY <1>0
  <2>2. Q[k] = iter[1..k] /\ Q[k + 1] = iter[1..(k + 1)]
    BY <2>1
  <2> QED BY <1>10, <2>2
<1> HIDE DEF Q
<1>14. MaskRun(Q, switches, pads, column, h, A)
  BY <1>12, <1>13 DEF MaskRun, s, n, St
<1> QED BY <1>14

\* prepare_correction at one switch: what the masks become, and what it is corrected by.
Behind(messages, g, masks) == XorPair(messages[g.at][1], Ends(masks, g))
Correction(messages, g, masks) ==
  XorPair(XorPair(messages[g.at][2], Ends(masks, g)), <<Behind(messages, g, masks)[2], Behind(messages, g, masks)[1]>>)

PrepareRun(P, messages, masks, h, A) ==
  /\ P \in [0..Len(Gates(h)) -> [masks : [1..h -> SUBSET A], corrections : [Places(h) -> (SUBSET A) \X (SUBSET A)]]]
  /\ P[0] = Unprepared(masks) /\ P[Len(Gates(h))] = PrepareCorrection(messages, masks)
  /\ \A k \in 0..(Len(Gates(h)) - 1) : P[k + 1] = Prepare(messages, P[k], Gates(h)[k + 1])

\* PrepareCorrection goes through those masks and corrections.
LEMMA PreparedRun ==
  ASSUME NEW h \in Nat, h >= 2, NEW A, NEW masks \in [1..h -> SUBSET A], NEW messages,
         \A p \in Places(h), b, c \in {1, 2} : messages[p][b][c] \in SUBSET A
  PROVE  \E P : PrepareRun(P, messages, masks, h, A)
<1> DEFINE s == Gates(h)
           n == Len(Gates(h))
           St == [masks : [1..h -> SUBSET A], corrections : [Places(h) -> (SUBSET A) \X (SUBSET A)]]
           H == [k \in 1..n |-> [x \in St |-> Prepare(messages, x, s[k])]]
<1>0. n \in Nat /\ DOMAIN s = 1..n
  BY GatesTyped
<1>1. \A k \in 1..n, x \in St : Prepare(messages, x, s[k]) \in St
  <2> SUFFICES ASSUME NEW k \in 1..n, NEW x \in St PROVE Prepare(messages, x, s[k]) \in St
    OBVIOUS
  <2>1. s[k].on[1] \in 1..h /\ s[k].on[2] \in 1..h /\ s[k].at \in Places(h)
    BY GatesTyped
  <2> HIDE DEF s
  <2> DEFINE g == s[k]
             m == Ends(x.masks, g)
             w == Behind(messages, g, x.masks)
             z == Correction(messages, g, x.masks)
  <2>2. \A a, b \in SUBSET A : Xor(a, b) \in SUBSET A
    BY DEF Xor, SymDiff
  <2>3. x.masks \in [1..h -> SUBSET A] /\ x.corrections \in [Places(h) -> (SUBSET A) \X (SUBSET A)]
    OBVIOUS
  <2>4. m[1] \in SUBSET A /\ m[2] \in SUBSET A
    BY <2>1, <2>3 DEF Ends
  <2>5. /\ messages[g.at][1][1] \in SUBSET A /\ messages[g.at][1][2] \in SUBSET A
        /\ messages[g.at][2][1] \in SUBSET A /\ messages[g.at][2][2] \in SUBSET A
    BY <2>1
  <2>6. w[1] \in SUBSET A /\ w[2] \in SUBSET A
    <3> HIDE DEF m
    <3>1. w = <<Xor(messages[g.at][1][1], m[1]), Xor(messages[g.at][1][2], m[2])>>
      BY DEF Behind, XorPair, m
    <3> HIDE DEF w
    <3> QED BY <2>2, <2>4, <2>5, <3>1
  <2>7. z \in (SUBSET A) \X (SUBSET A)
    <3>1. z = <<Xor(Xor(messages[g.at][2][1], m[1]), w[2]), Xor(Xor(messages[g.at][2][2], m[2]), w[1])>>
      BY DEF Correction, XorPair
    <3> HIDE DEF z, w, m
    <3> QED BY <2>2, <2>4, <2>5, <2>6, <3>1
  <2> HIDE DEF w, z, m
  <2>8. Put(x.masks, g, w) \in [1..h -> SUBSET A]
    BY <2>1, <2>3, <2>6 DEF Put
  <2>9. [x.corrections EXCEPT ![g.at] = z] \in [Places(h) -> (SUBSET A) \X (SUBSET A)]
    BY <2>1, <2>3, <2>7
  <2> QED BY <2>8, <2>9 DEF Prepare, Behind, Correction, w, z, m
<1>2. Unprepared(masks) \in St
  BY LenColumn DEF St, Unprepared
<1> HIDE DEF s, n, St
<1>3. PICK g : IsFold(g, H, Unprepared(masks), n, St)
  <2>1. H \in [1..n -> [St -> St]]
    BY <1>1
  <2> HIDE DEF H
  <2> QED BY <1>0, <1>2, <2>1, Folding
<1> DEFINE Next1(f, t) == IF t = {} THEN Unprepared(masks) ELSE Prepare(messages, f[t \ {Max(t)}], s[Max(t)])
<1>4. \A t \in SUBSET (1..n) : g[t] = Next1(g, t)
  <2> SUFFICES ASSUME NEW t \in SUBSET (1..n) PROVE g[t] = Next1(g, t)
    OBVIOUS
  <2>1. g[t] = FoldedAt(H, Unprepared(masks), n, t, g) /\ \A u \in SUBSET (1..n) : g[u] \in St
    BY <1>3 DEF IsFold
  <2>2. CASE t = {}
    BY <2>1, <2>2 DEF FoldedAt
  <2>3. CASE t # {}
    <3>1. Max(t) \in 1..n /\ t \ {Max(t)} \in SUBSET (1..n)
      BY <1>0, <2>3, LastOf
    <3>2. g[t] = H[Max(t)][g[t \ {Max(t)}]] /\ g[t \ {Max(t)}] \in St
      BY <2>1, <2>3, <3>1 DEF FoldedAt
    <3> HIDE DEF Max
    <3>3. g[t] = Prepare(messages, g[t \ {Max(t)}], s[Max(t)])
      BY <3>1, <3>2
    <3> QED BY <2>3, <3>3
  <2> QED BY <2>2, <2>3
<1> HIDE DEF Next1
<1>5. g = [t \in SUBSET (1..n) |-> Next1(g, t)]
  BY <1>3, <1>4, Zenon DEF IsFold
<1> DEFINE iter == CHOOSE f : f = [t \in SUBSET (1..n) |-> Next1(f, t)]
<1>6. iter = [t \in SUBSET (1..n) |-> Next1(iter, t)]
  BY <1>5, Zenon
<1>15. Len(masks) = h
  BY LenColumn
<1>7. PrepareCorrection(messages, masks) = iter[1..n]
  BY <1>0, <1>15, Zenon DEF PrepareCorrection, FoldLeft, MapThenFoldSet, Next1, Next1, s
<1> HIDE DEF iter
<1>8. \A t \in SUBSET (1..n) : iter[t] = Next1(iter, t)
  BY <1>6, Zenon
<1>9. iter[1..0] = Unprepared(masks)
  <2>1. 1..0 = {} /\ 1..0 \in SUBSET (1..n)
    OBVIOUS
  <2> QED BY <1>8, <2>1 DEF Next1
<1>10. ASSUME NEW k \in 0..(n - 1) PROVE iter[1..(k + 1)] = Prepare(messages, iter[1..k], s[k + 1])
  <2>1. /\ 1..(k + 1) \in SUBSET (1..n) /\ 1..(k + 1) # {}
        /\ Max(1..(k + 1)) = k + 1 /\ (1..(k + 1)) \ {k + 1} = 1..k
    BY <1>0, Prefix
  <2>2. iter[1..(k + 1)] = Next1(iter, 1..(k + 1))
    BY <1>8, <2>1
  <2> QED BY <2>1, <2>2, Zenon DEF Next1
<1> DEFINE T == {k \in 0..n : iter[1..k] \in St}
           Q == [k \in 0..n |-> iter[1..k]]
<1>11. 0..n \subseteq T
  <2>1. 0 \in T
    BY <1>0, <1>2, <1>9
  <2>2. ASSUME NEW k \in 0..(n - 1), k \in T PROVE k + 1 \in T
    <3>1. k + 1 \in 1..n /\ k + 1 \in 0..n
      BY <1>0
    <3> QED BY <1>1, <1>10, <2>2, <3>1
  <2> HIDE DEF T
  <2> QED BY <1>0, <2>1, <2>2, InductUpTo
<1>12. Q \in [0..n -> St] /\ Q[0] = Unprepared(masks) /\ Q[n] = PrepareCorrection(messages, masks)
  BY <1>0, <1>7, <1>9, <1>11
<1>13. \A k \in 0..(n - 1) : Q[k + 1] = Prepare(messages, Q[k], s[k + 1])
  <2> SUFFICES ASSUME NEW k \in 0..(n - 1) PROVE Q[k + 1] = Prepare(messages, Q[k], s[k + 1])
    OBVIOUS
  <2>1. k \in 0..n /\ k + 1 \in 0..n
    BY <1>0
  <2>2. Q[k] = iter[1..k] /\ Q[k + 1] = iter[1..(k + 1)]
    BY <2>1
  <2> QED BY <1>10, <2>2
<1> HIDE DEF Q
<1>14. PrepareRun(Q, messages, masks, h, A)
  BY <1>12, <1>13 DEF PrepareRun, s, n, St
<1> QED BY <1>14
-----------------------------------------------------------------------------
(* XOR of blocks. *)
LEMMA XorLaws ==
  ASSUME NEW a, NEW b, NEW c
  PROVE  /\ Xor(a, b) = Xor(b, a) /\ Xor(Xor(a, b), c) = Xor(a, Xor(b, c))
         /\ Xor(a, {}) = a /\ Xor(a, a) = {}
<1>1. \A x, y, z : z \in Xor(x, y) <=> ~(z \in x <=> z \in y)
  BY DEF Xor, SymDiff
<1>2. \A x, y, z : z \in Xor(x, Xor(y, z)) <=> z \in Xor(Xor(x, y), z)
  BY <1>1
<1>3. \A z : z \in Xor(a, b) <=> z \in Xor(b, a)
  BY <1>1
<1>4. \A z : z \in Xor(Xor(a, b), c) <=> z \in Xor(a, Xor(b, c))
  BY <1>1
<1>5. \A z : z \in Xor(a, {}) <=> z \in a
  BY <1>1
<1>6. \A z : z \in Xor(a, a) <=> z \in {}
  BY <1>1
<1>7. \A x, y : (\A z : z \in x <=> z \in y) => x = y
  OBVIOUS
<1> HIDE DEF Xor
<1> QED BY <1>3, <1>4, <1>5, <1>6, <1>7

\* The position that a switch takes the value at position j from.
TakenFrom(switches, g, j) ==
  IF g.at \in switches THEN (IF j = g.on[1] THEN g.on[2] ELSE IF j = g.on[2] THEN g.on[1] ELSE j) ELSE j

OnWires(g, h) == g.on[1] \in 1..h /\ g.on[2] \in 1..h /\ g.on[1] # g.on[2]

\* A switch turned, or not, on the two values at its wires.
LEMMA TurnAt ==
  ASSUME NEW h \in Nat, NEW switches, NEW g, OnWires(g, h)
  PROVE  /\ \A j \in 1..h : TakenFrom(switches, g, j) \in 1..h
         /\ \A i, j \in 1..h : i # j => TakenFrom(switches, g, i) # TakenFrom(switches, g, j)
<1> DEFINE a == g.on[1]
           b == g.on[2]
<1>1. a \in 1..h /\ b \in 1..h /\ a # b
  BY DEF OnWires
<1>2. \A j : TakenFrom(switches, g, j) = IF g.at \in switches THEN (IF j = a THEN b ELSE IF j = b THEN a ELSE j) ELSE j
  BY DEF TakenFrom
<1> HIDE DEF a, b
<1>3. \A j \in 1..h : TakenFrom(switches, g, j) \in 1..h
  BY <1>1, <1>2
<1>4. \A i, j \in 1..h : i # j => TakenFrom(switches, g, i) # TakenFrom(switches, g, j)
  BY <1>1, <1>2
<1> QED BY <1>3, <1>4

LEMMA PermutedAt ==
  ASSUME NEW h \in Nat, NEW switches, NEW g, OnWires(g, h), NEW x, DOMAIN x = 1..h, NEW j \in 1..h
  PROVE  PermuteAt(switches, g, x)[j] = x[TakenFrom(switches, g, j)]
<1> DEFINE a == g.on[1]
           b == g.on[2]
<1>1. a \in 1..h /\ b \in 1..h /\ a # b
  BY DEF OnWires
<1>2. TakenFrom(switches, g, j) = IF g.at \in switches THEN (IF j = a THEN b ELSE IF j = b THEN a ELSE j) ELSE j
  BY DEF TakenFrom
<1>3. PermuteAt(switches, g, x) = IF g.at \in switches THEN [x EXCEPT ![a] = x[b], ![b] = x[a]] ELSE [x EXCEPT ![a] = x[a], ![b] = x[b]]
  BY DEF PermuteAt, Put, Turned, Ends
<1> HIDE DEF a, b
<1> QED BY <1>1, <1>2, <1>3

\* What the sender's order makes of a column's positions.
Arrangement(switches, h) == Permuted(switches, [i \in 1..h |-> i])

\* No switch brings a position together with another.
LEMMA Arranged ==
  ASSUME NEW h \in Nat, h >= 2, NEW switches, NEW P, PermuteRun(P, switches, [i \in 1..h |-> i], h, 1..h)
  PROVE  \A k \in 0..Len(Gates(h)) : \A i, j \in 1..h : i # j => P[k][i] # P[k][j]
<1> DEFINE s == Gates(h)
           n == Len(Gates(h))
           T == {k \in 0..n : \A i, j \in 1..h : i # j => P[k][i] # P[k][j]}
<1>0. n \in Nat
  BY GatesTyped
<1>1. 0 \in T
  BY <1>0 DEF PermuteRun
<1>2. ASSUME NEW k \in 0..(n - 1), k \in T PROVE k + 1 \in T
  <2>1. k + 1 \in 1..n /\ k \in 0..n /\ k + 1 \in 0..n
    BY <1>0
  <2>2. OnWires(s[k + 1], h)
    BY <2>1, GatesTyped DEF OnWires
  <2>3. P[k] \in [1..h -> 1..h] /\ P[k + 1] = PermuteAt(switches, s[k + 1], P[k])
    BY <2>1 DEF PermuteRun
  <2> HIDE DEF s, n
  <2>4. \A j \in 1..h : P[k + 1][j] = P[k][TakenFrom(switches, s[k + 1], j)]
    <3>1. ASSUME NEW x, DOMAIN x = 1..h, NEW j \in 1..h
          PROVE  PermuteAt(switches, s[k + 1], x)[j] = x[TakenFrom(switches, s[k + 1], j)]
      BY <2>2, <3>1, PermutedAt
    <3> QED BY <2>3, <3>1
  <2>5. /\ \A j \in 1..h : TakenFrom(switches, s[k + 1], j) \in 1..h
        /\ \A i, j \in 1..h : i # j => TakenFrom(switches, s[k + 1], i) # TakenFrom(switches, s[k + 1], j)
    BY <2>2, TurnAt
  <2>6. \A i, j \in 1..h : i # j => P[k][i] # P[k][j]
    BY <1>2
  <2>7. \A i, j \in 1..h : i # j => P[k + 1][i] # P[k + 1][j]
    BY <2>4, <2>5, <2>6
  <2> QED BY <2>1, <2>7
<1>3. 0..n \subseteq T
  <2> HIDE DEF T, n
  <2> QED BY <1>0, <1>1, <1>2, InductUpTo
<1> QED BY <1>3

\* It takes every position once.
LEMMA ArrangementBijective ==
  ASSUME NEW h \in Nat, h >= 2, NEW switches
  PROVE  /\ Arrangement(switches, h) \in [1..h -> 1..h]
         /\ \A i, j \in 1..h : i # j => Arrangement(switches, h)[i] # Arrangement(switches, h)[j]
<1> DEFINE id == [i \in 1..h |-> i]
           n == Len(Gates(h))
<1>1. id \in [1..h -> 1..h]
  OBVIOUS
<1>2. n \in 0..n
  BY GatesTyped
<1> HIDE DEF id
<1>3. PICK P : PermuteRun(P, switches, id, h, 1..h)
  BY <1>1, PermutedRun
<1>4. P[n] = Arrangement(switches, h) /\ P[n] \in [1..h -> 1..h]
  BY <1>2, <1>3 DEF PermuteRun, Arrangement, id
<1>5. \A i, j \in 1..h : i # j => P[n][i] # P[n][j]
  BY <1>2, <1>3, Arranged DEF id
<1> QED BY <1>4, <1>5

\* permuteBlocks puts a column in that order.
IsColumn(x, h) == x = [j \in 1..h |-> x[j]]
Permutes(y, switches, x, h) == IsColumn(y, h) /\ \A j \in 1..h : y[j] = x[Arrangement(switches, h)[j]]
\* ... whatever the column holds.
LEMMA PermutedColumn ==
  ASSUME NEW h \in Nat, h >= 2, NEW switches, NEW column, IsColumn(column, h)
  PROVE  Permutes(Permuted(switches, column), switches, column, h)
<1> DEFINE A == {column[j] : j \in 1..h}
<1>a. column \in [1..h -> A]
  BY DEF IsColumn
<1> HIDE DEF A
<1> DEFINE id == [i \in 1..h |-> i]
           s == Gates(h)
           n == Len(Gates(h))
<1>0. n \in Nat /\ n \in 0..n
  BY GatesTyped
<1>1. id \in [1..h -> 1..h] /\ \A i \in 1..h : id[i] = i
  OBVIOUS
<1> HIDE DEF id
<1>2. PICK P : PermuteRun(P, switches, id, h, 1..h)
  BY <1>1, PermutedRun
<1>3. PICK Q : PermuteRun(Q, switches, column, h, A)
  BY <1>a, PermutedRun
<1> DEFINE T == {k \in 0..n : \A j \in 1..h : Q[k][j] = column[P[k][j]]}
<1>4. 0 \in T
  BY <1>0, <1>1, <1>2, <1>3 DEF PermuteRun
<1>5. ASSUME NEW k \in 0..(n - 1), k \in T PROVE k + 1 \in T
  <2>1. k + 1 \in 1..n /\ k \in 0..n /\ k + 1 \in 0..n
    BY <1>0
  <2>2. OnWires(s[k + 1], h)
    BY <2>1, GatesTyped DEF OnWires
  <2>3. /\ P[k] \in [1..h -> 1..h] /\ P[k + 1] = PermuteAt(switches, s[k + 1], P[k])
        /\ Q[k] \in [1..h -> A] /\ Q[k + 1] = PermuteAt(switches, s[k + 1], Q[k])
    BY <1>2, <1>3, <2>1 DEF PermuteRun
  <2> HIDE DEF s, n
  <2>4. \A j \in 1..h : TakenFrom(switches, s[k + 1], j) \in 1..h
    BY <2>2, TurnAt
  <2>5. \A j \in 1..h : P[k + 1][j] = P[k][TakenFrom(switches, s[k + 1], j)]
    <3>1. ASSUME NEW x, DOMAIN x = 1..h, NEW j \in 1..h
          PROVE  PermuteAt(switches, s[k + 1], x)[j] = x[TakenFrom(switches, s[k + 1], j)]
      BY <2>2, <3>1, PermutedAt
    <3> QED BY <2>3, <3>1
  <2>6. \A j \in 1..h : Q[k + 1][j] = Q[k][TakenFrom(switches, s[k + 1], j)]
    <3>1. ASSUME NEW x, DOMAIN x = 1..h, NEW j \in 1..h
          PROVE  PermuteAt(switches, s[k + 1], x)[j] = x[TakenFrom(switches, s[k + 1], j)]
      BY <2>2, <3>1, PermutedAt
    <3> QED BY <2>3, <3>1
  <2>7. \A j \in 1..h : Q[k][j] = column[P[k][j]]
    BY <1>5
  <2>8. \A j \in 1..h : Q[k + 1][j] = column[P[k + 1][j]]
    BY <2>4, <2>5, <2>6, <2>7
  <2> QED BY <2>1, <2>8
<1>6. 0..n \subseteq T
  <2> HIDE DEF T, n
  <2> QED BY <1>0, <1>4, <1>5, InductUpTo
<1>7. \A j \in 1..h : Q[n][j] = column[P[n][j]]
  BY <1>0, <1>6
<1>8. Q[n] = Permuted(switches, column) /\ Q[n] \in [1..h -> A] /\ P[n] = Arrangement(switches, h)
  BY <1>0, <1>2, <1>3 DEF PermuteRun, Arrangement, id
<1>9. IsColumn(Permuted(switches, column), h)
  BY <1>8 DEF IsColumn
<1> QED BY <1>7, <1>8, <1>9 DEF Permutes
-----------------------------------------------------------------------------
\* One switch of prepare_correction.
Prepares(R, messages, k, g) ==
  /\ R[k + 1].masks = Put(R[k].masks, g, Behind(messages, g, R[k].masks))
  /\ R[k + 1].corrections = [R[k].corrections EXCEPT ![g.at] = Correction(messages, g, R[k].masks)]

LEMMA PreparedAt ==
  ASSUME NEW h \in Nat, h >= 2, NEW A, NEW masks, NEW messages, NEW R, PrepareRun(R, messages, masks, h, A),
         NEW k \in 0..(Len(Gates(h)) - 1)
  PROVE  Prepares(R, messages, k, Gates(h)[k + 1])
<1> DEFINE g == Gates(h)[k + 1]
<1>1. R[k + 1] = Prepare(messages, R[k], g)
  BY DEF PrepareRun
<1> HIDE DEF g
<1>2. R[k + 1] = [masks |-> Put(R[k].masks, g, Behind(messages, g, R[k].masks)),
                  corrections |-> [R[k].corrections EXCEPT ![g.at] = Correction(messages, g, R[k].masks)]]
  BY <1>1, Zenon DEF Prepare, Behind, Correction
<1> DEFINE c1 == Put(R[k].masks, g, Behind(messages, g, R[k].masks))
           c2 == [R[k].corrections EXCEPT ![g.at] = Correction(messages, g, R[k].masks)]
<1>3. R[k + 1] = [masks |-> c1, corrections |-> c2]
  BY <1>2
<1> HIDE DEF c1, c2
<1>4. R[k + 1].masks = c1 /\ R[k + 1].corrections = c2
  BY <1>3
<1> QED BY <1>4, Zenon DEF c1, c2, g, Prepares

\* The correction of a switch is written once, by the switch itself.
LEMMA CorrectedOnce ==
  ASSUME NEW h \in Nat, h >= 2, NEW A, NEW masks, NEW messages, NEW R, PrepareRun(R, messages, masks, h, A),
         NEW k \in 0..(Len(Gates(h)) - 1)
  PROVE  R[Len(Gates(h))].corrections[Gates(h)[k + 1].at] = Correction(messages, Gates(h)[k + 1], R[k].masks)
<1> DEFINE s == Gates(h)
           n == Len(Gates(h))
           z == Correction(messages, Gates(h)[k + 1], R[k].masks)
           T == {l \in 0..(n - (k + 1)) : R[k + 1 + l].corrections[s[k + 1].at] = z}
<1>0. n \in Nat /\ k + 1 \in 1..n /\ n - (k + 1) \in Nat
  BY GatesTyped
<1>1. \A l \in 0..n : DOMAIN R[l].corrections = Places(h)
  <2>1. \A l \in 0..n : R[l] \in [masks : [1..h -> SUBSET A], corrections : [Places(h) -> (SUBSET A) \X (SUBSET A)]]
    BY DEF PrepareRun
  <2> QED BY <2>1
<1>2. 0 \in T
  <2>1. R[k + 1].corrections = [R[k].corrections EXCEPT ![s[k + 1].at] = z]
    BY PreparedAt DEF Prepares
  <2>2. s[k + 1].at \in Places(h) /\ k \in 0..n
    BY <1>0, GatesTyped
  <2> HIDE DEF s, n, z
  <2>3. R[k + 1].corrections[s[k + 1].at] = z
    BY <1>1, <2>1, <2>2
  <2>4. k + 1 + 0 = k + 1
    BY <1>0
  <2> QED BY <1>0, <2>3, <2>4
<1>3. ASSUME NEW l \in 0..(n - (k + 1) - 1), l \in T PROVE l + 1 \in T
  <2> DEFINE j == k + 1 + l
  <2>1. j \in 0..(n - 1) /\ j \in 0..n /\ j + 1 \in 1..n /\ j + 1 # k + 1 /\ k + 1 + (l + 1) = j + 1 /\ l + 1 \in 0..(n - (k + 1))
    BY <1>0
  <2>2. R[j + 1].corrections = [R[j].corrections EXCEPT ![s[j + 1].at] = Correction(messages, s[j + 1], R[j].masks)]
    <3>1. ASSUME NEW i \in 0..(n - 1) PROVE Prepares(R, messages, i, s[i + 1])
      BY PreparedAt
    <3> HIDE DEF j, s, n
    <3> QED BY <2>1, <3>1 DEF Prepares
  <2>3. s[j + 1].at # s[k + 1].at /\ s[k + 1].at \in Places(h)
    BY <1>0, <2>1, GatesTyped
  <2>4. R[j].corrections[s[k + 1].at] = z
    BY <1>3
  <2> HIDE DEF s, n, z, j
  <2>5. R[j + 1].corrections[s[k + 1].at] = z
    BY <1>1, <2>1, <2>2, <2>3, <2>4
  <2> QED BY <2>1, <2>5
<1>4. 0..(n - (k + 1)) \subseteq T
  <2> HIDE DEF T, n
  <2> QED BY <1>0, <1>2, <1>3, InductUpTo
<1>5. n - (k + 1) \in T /\ k + 1 + (n - (k + 1)) = n
  <2> HIDE DEF T, n
  <2> QED BY <1>0, <1>4
<1> QED BY <1>5

\* x and m share the input in the order p.
Shared(x, m, p, input, h, A) ==
  /\ x \in [1..h -> SUBSET A] /\ m \in [1..h -> SUBSET A] /\ p \in [1..h -> 1..h]
  /\ \A j \in 1..h : x[j] = Xor(input[p[j]], m[j])
\* The pads of a switch: its message, or the other one corrected.
Padded(pads, switches, messages, g, m) ==
  /\ g.at \notin switches => pads[g.at] = messages[g.at][1]
  /\ g.at \in switches => pads[g.at] = XorPair(Correction(messages, g, m), messages[g.at][2])
\* y and m share the input in the order p turned by a switch.
Turns(y, m, p, input, switches, g, h) == \A j \in 1..h : y[j] = Xor(input[p[TakenFrom(switches, g, j)]], m[j])
\* What a switch does to the two shares.
LEMMA SharesAt ==
  ASSUME NEW h \in Nat, NEW g, OnWires(g, h), NEW switches, NEW messages, NEW pads,
         NEW A, NEW x, NEW m, NEW p, NEW input, Shared(x, m, p, input, h, A), Padded(pads, switches, messages, g, m)
  PROVE  Turns(MaskAt(switches, pads, g, x), Put(m, g, Behind(messages, g, m)), p, input, switches, g, h)
<1> DEFINE a == g.on[1]
           b == g.on[2]
           w1 == Xor(messages[g.at][1][1], m[a])
           w2 == Xor(messages[g.at][1][2], m[b])
           v1 == messages[g.at][2][1]
           v2 == messages[g.at][2][2]
<1>1. a \in 1..h /\ b \in 1..h /\ a # b
  BY DEF OnWires
<1>7. x \in [1..h -> SUBSET A] /\ m \in [1..h -> SUBSET A] /\ p \in [1..h -> 1..h]
  BY DEF Shared
<1>8. \A j \in 1..h : x[j] = Xor(input[p[j]], m[j])
  BY DEF Shared
<1>2. Behind(messages, g, m) = <<w1, w2>>
  BY DEF Behind, XorPair, Ends
<1>3. Put(m, g, Behind(messages, g, m)) = [m EXCEPT ![a] = w1, ![b] = w2]
  BY <1>2 DEF Put
<1>4. g.at \in switches => pads[g.at] = <<Xor(Xor(Xor(v1, m[a]), w2), v1), Xor(Xor(Xor(v2, m[b]), w1), v2)>>
  <2>1. Correction(messages, g, m) = <<Xor(Xor(v1, m[a]), w2), Xor(Xor(v2, m[b]), w1)>>
    <3> HIDE DEF w1, w2
    <3> QED BY <1>2 DEF Correction, XorPair, Ends
  <2> HIDE DEF w1, w2
  <2> QED BY <2>1 DEF XorPair, Padded
<1>5. CASE g.at \in switches
  <2>1. MaskAt(switches, pads, g, x) = [x EXCEPT ![a] = Xor(x[b], pads[g.at][2]), ![b] = Xor(x[a], pads[g.at][1])]
    BY <1>5 DEF MaskAt, Put, Turned, XorPair, Ends
  <2>2. \A j : TakenFrom(switches, g, j) = IF j = a THEN b ELSE IF j = b THEN a ELSE j
    BY <1>5 DEF TakenFrom
  <2>3. pads[g.at][1] = Xor(Xor(Xor(v1, m[a]), w2), v1) /\ pads[g.at][2] = Xor(Xor(Xor(v2, m[b]), w1), v2)
    BY <1>4, <1>5
  <2> HIDE DEF a, b, w1, w2, v1, v2
  <2>4. \A i, c, v, w : Xor(Xor(i, c), Xor(Xor(Xor(v, c), w), v)) = Xor(i, w)
    <3> SUFFICES ASSUME NEW i, NEW c, NEW v, NEW w PROVE Xor(Xor(i, c), Xor(Xor(Xor(v, c), w), v)) = Xor(i, w)
      OBVIOUS
    <3>1. Xor(Xor(Xor(v, c), w), v) = Xor(c, w)
      <4>1. Xor(Xor(v, c), w) = Xor(v, Xor(c, w))
        BY XorLaws
      <4>2. Xor(v, Xor(c, w)) = Xor(Xor(c, w), v)
        BY XorLaws
      <4>3. Xor(Xor(Xor(c, w), v), v) = Xor(Xor(c, w), Xor(v, v))
        BY XorLaws
      <4>4. Xor(v, v) = {} /\ Xor(Xor(c, w), {}) = Xor(c, w)
        BY XorLaws
      <4> QED BY <4>1, <4>2, <4>3, <4>4
    <3>2. Xor(Xor(i, c), Xor(c, w)) = Xor(i, Xor(c, Xor(c, w)))
      BY XorLaws
    <3>3. Xor(c, Xor(c, w)) = Xor(Xor(c, c), w)
      BY XorLaws
    <3>4. Xor(c, c) = {} /\ Xor({}, w) = Xor(w, {}) /\ Xor(w, {}) = w
      BY XorLaws
    <3> QED BY <3>1, <3>2, <3>3, <3>4
  <2>5. x[a] = Xor(input[p[a]], m[a]) /\ x[b] = Xor(input[p[b]], m[b])
    BY <1>1, <1>8
  <2>6. Xor(x[b], pads[g.at][2]) = Xor(input[p[b]], w1) /\ Xor(x[a], pads[g.at][1]) = Xor(input[p[a]], w2)
    BY <2>3, <2>4, <2>5
  <2> HIDE DEF MaskAt, TakenFrom, Put, Behind
  <2> SUFFICES ASSUME NEW j \in 1..h
      PROVE  MaskAt(switches, pads, g, x)[j] = Xor(input[p[TakenFrom(switches, g, j)]], Put(m, g, Behind(messages, g, m))[j])
    BY DEF Turns
  <2>7. CASE j = a
    BY <1>1, <1>3, <1>7, <1>8, <2>1, <2>2, <2>6, <2>7
  <2>8. CASE j = b
    BY <1>1, <1>3, <1>7, <1>8, <2>1, <2>2, <2>6, <2>8
  <2>9. CASE j # a /\ j # b
    <3>1. MaskAt(switches, pads, g, x)[j] = x[j]
      BY <1>1, <1>7, <2>1, <2>9
    <3>2. Put(m, g, Behind(messages, g, m))[j] = m[j] /\ TakenFrom(switches, g, j) = j
      BY <1>1, <1>3, <1>7, <2>2, <2>9
    <3> QED BY <1>8, <3>1, <3>2
  <2> QED BY <2>7, <2>8, <2>9
<1>6. CASE g.at \notin switches
  <2>1. MaskAt(switches, pads, g, x) = [x EXCEPT ![a] = Xor(x[a], messages[g.at][1][1]), ![b] = Xor(x[b], messages[g.at][1][2])]
    BY <1>6 DEF Padded, MaskAt, Put, Turned, XorPair, Ends
  <2>2. \A j : TakenFrom(switches, g, j) = j
    BY <1>6 DEF TakenFrom
  <2>3. \A i, c, v : Xor(Xor(i, c), v) = Xor(i, Xor(v, c))
    <3> SUFFICES ASSUME NEW i, NEW c, NEW v PROVE Xor(Xor(i, c), v) = Xor(i, Xor(v, c))
      OBVIOUS
    <3>1. Xor(Xor(i, c), v) = Xor(i, Xor(c, v))
      BY XorLaws
    <3>2. Xor(c, v) = Xor(v, c)
      BY XorLaws
    <3> QED BY <3>1, <3>2
  <2>4. x[a] = Xor(input[p[a]], m[a]) /\ x[b] = Xor(input[p[b]], m[b])
    BY <1>1, <1>8
  <2>5. Xor(x[a], messages[g.at][1][1]) = Xor(input[p[a]], w1) /\ Xor(x[b], messages[g.at][1][2]) = Xor(input[p[b]], w2)
    BY <2>3, <2>4
  <2> HIDE DEF a, b, w1, w2, v1, v2
  <2> SUFFICES ASSUME NEW j \in 1..h
      PROVE  MaskAt(switches, pads, g, x)[j] = Xor(input[p[TakenFrom(switches, g, j)]], Put(m, g, Behind(messages, g, m))[j])
    BY DEF Turns
  <2>7. CASE j = a
    BY <1>1, <1>3, <1>7, <1>8, <2>1, <2>2, <2>5, <2>7
  <2>8. CASE j = b
    BY <1>1, <1>3, <1>7, <1>8, <2>1, <2>2, <2>5, <2>8
  <2>9. CASE j # a /\ j # b
    <3>1. MaskAt(switches, pads, g, x)[j] = x[j]
      BY <1>1, <1>7, <2>1, <2>9
    <3>2. Put(m, g, Behind(messages, g, m))[j] = m[j] /\ TakenFrom(switches, g, j) = j
      BY <1>1, <1>3, <1>7, <2>2, <2>9
    <3> QED BY <1>8, <3>1, <3>2
  <2> QED BY <2>7, <2>8, <2>9
<1> QED BY <1>5, <1>6
-----------------------------------------------------------------------------
\* What the sender walks the network with.
Pads(messages, masks, switches) ==
  Corrected(Transferred(messages, switches), PrepareCorrection(messages, masks).corrections, switches)
Hidden(input, masks, h) == [i \in 1..h |-> Xor(input[i], masks[i])]
\* The shapes of messages, columns and of what the two parties end with.
Typed(messages, h, A) ==
  DOMAIN messages = Places(h) /\ \A p \in Places(h), b, c \in {1, 2} : messages[p][b][c] \in SUBSET A
Blocks(x, h, A) == x \in [1..h -> SUBSET A]
Rejoins(x, y, switches, input, h) == \A j \in 1..h : Xor(x[j], y[j]) = input[Arrangement(switches, h)[j]]
\* Along the network the sender's column and the masks share the input in the order so far.
LEMMA OsnShares ==
  ASSUME NEW h \in Nat, h >= 2, NEW A, NEW switches, NEW input, NEW masks, NEW messages,
         Blocks(input, h, A), Blocks(masks, h, A), Typed(messages, h, A)
  PROVE  /\ Blocks(MaskedEvaluate(switches, Pads(messages, masks, switches), Hidden(input, masks, h)), h, A)
         /\ Blocks(PrepareCorrection(messages, masks).masks, h, A)
         /\ Rejoins(MaskedEvaluate(switches, Pads(messages, masks, switches), Hidden(input, masks, h)),
                    PrepareCorrection(messages, masks).masks, switches, input, h)
<1> DEFINE prepared == PrepareCorrection(messages, masks)
           pads == Pads(messages, masks, switches)
           first == Hidden(input, masks, h)
           s == Gates(h)
           n == Len(Gates(h))
           id == [i \in 1..h |-> i]
<1>0. n \in Nat /\ n \in 0..n /\ 0 \in 0..n
  BY GatesTyped
<1>20. DOMAIN messages = Places(h) /\ \A p \in Places(h), b, c \in {1, 2} : messages[p][b][c] \in SUBSET A
  BY DEF Typed
<1>21. input \in [1..h -> SUBSET A] /\ masks \in [1..h -> SUBSET A]
  BY DEF Blocks
<1>1. PICK R : PrepareRun(R, messages, masks, h, A)
  BY <1>20, <1>21, PreparedRun
<1>2. id \in [1..h -> 1..h]
  OBVIOUS
<1>3. PICK P : PermuteRun(P, switches, id, h, 1..h)
  <2> HIDE DEF id
  <2> QED BY <1>2, PermutedRun
<1>4. prepared = R[n] /\ prepared.corrections \in [Places(h) -> (SUBSET A) \X (SUBSET A)]
  <2>1. R[n] = prepared /\ R[n] \in [masks : [1..h -> SUBSET A], corrections : [Places(h) -> (SUBSET A) \X (SUBSET A)]]
    BY <1>0, <1>1 DEF PrepareRun
  <2> HIDE DEF prepared
  <2> QED BY <2>1
<1>5. \A a, b \in SUBSET A : Xor(a, b) \in SUBSET A
  BY DEF Xor, SymDiff
<1>6. first \in [1..h -> SUBSET A]
  BY <1>5, <1>21 DEF Hidden
<1>7. \A p \in Places(h) : /\ p \notin switches => pads[p] = messages[p][1]
                           /\ p \in switches => pads[p] = XorPair(prepared.corrections[p], messages[p][2])
  <2>1. pads = Corrected(Transferred(messages, switches), prepared.corrections, switches)
    BY DEF Pads
  <2> HIDE DEF prepared, pads
  <2> QED BY <1>20, <2>1 DEF Corrected, Transferred
<1>8. \A p \in Places(h) : pads[p][1] \in SUBSET A /\ pads[p][2] \in SUBSET A
  <2> SUFFICES ASSUME NEW p \in Places(h) PROVE pads[p][1] \in SUBSET A /\ pads[p][2] \in SUBSET A
    OBVIOUS
  <2> HIDE DEF pads, prepared
  <2>1. prepared.corrections[p][1] \in SUBSET A /\ prepared.corrections[p][2] \in SUBSET A
    BY <1>4
  <2>2. /\ messages[p][1][1] \in SUBSET A /\ messages[p][1][2] \in SUBSET A
        /\ messages[p][2][1] \in SUBSET A /\ messages[p][2][2] \in SUBSET A
    BY <1>20
  <2>3. CASE p \in switches
    <3>1. pads[p] = <<Xor(prepared.corrections[p][1], messages[p][2][1]), Xor(prepared.corrections[p][2], messages[p][2][2])>>
      BY <1>7, <2>3 DEF XorPair
    <3> QED BY <1>5, <2>1, <2>2, <3>1
  <2>4. CASE p \notin switches
    <3>1. pads[p] = messages[p][1]
      BY <1>7, <2>4
    <3> QED BY <2>2, <3>1
  <2> QED BY <2>3, <2>4
<1> HIDE DEF pads, first
<1>9. PICK E : MaskRun(E, switches, pads, first, h, A)
  BY <1>6, <1>8, MaskedRun
<1> DEFINE T == {k \in 0..n : \A j \in 1..h : E[k][j] = Xor(input[P[k][j]], R[k].masks[j])}
<1>10. 0 \in T
  <2>1. P[0] = id /\ E[0] = first /\ R[0] = Unprepared(masks)
    BY <1>1, <1>3, <1>9 DEF PermuteRun, MaskRun, PrepareRun
  <2>2. R[0].masks = masks
    BY <2>1 DEF Unprepared
  <2>3. \A j \in 1..h : E[0][j] = Xor(input[P[0][j]], R[0].masks[j])
    BY <2>1, <2>2 DEF first, Hidden
  <2> QED BY <1>0, <2>3
<1>11. ASSUME NEW k \in 0..(n - 1), k \in T PROVE k + 1 \in T
  <2> DEFINE g == s[k + 1]
  <2>1. k + 1 \in 1..n /\ k \in 0..n /\ k + 1 \in 0..n
    BY <1>0
  <2>2. OnWires(g, h) /\ g.at \in Places(h)
    BY <2>1, GatesTyped DEF OnWires
  <2>3. P[k] \in [1..h -> 1..h] /\ P[k + 1] = PermuteAt(switches, g, P[k])
    BY <1>3, <2>1 DEF PermuteRun
  <2>4. E[k] \in [1..h -> SUBSET A] /\ E[k + 1] = MaskAt(switches, pads, g, E[k])
    BY <1>9, <2>1 DEF MaskRun
  <2>5. R[k].masks \in [1..h -> SUBSET A]
    <3>1. R[k] \in [masks : [1..h -> SUBSET A], corrections : [Places(h) -> (SUBSET A) \X (SUBSET A)]]
      BY <1>1, <2>1 DEF PrepareRun
    <3> QED BY <3>1
  <2>6. R[k + 1].masks = Put(R[k].masks, g, Behind(messages, g, R[k].masks))
    <3>1. Prepares(R, messages, k, g)
      BY <1>1, PreparedAt
    <3> QED BY <3>1 DEF Prepares
  <2>7. prepared.corrections[g.at] = Correction(messages, g, R[k].masks)
    BY <1>1, <1>4, CorrectedOnce
  <2>8. \A j \in 1..h : E[k][j] = Xor(input[P[k][j]], R[k].masks[j])
    BY <1>11
  <2> HIDE DEF g, prepared, T, n
  <2>9. Padded(pads, switches, messages, g, R[k].masks)
    BY <1>7, <2>2, <2>7 DEF Padded
  <2>10. \A j \in 1..h :
           MaskAt(switches, pads, g, E[k])[j] =
             Xor(input[P[k][TakenFrom(switches, g, j)]], Put(R[k].masks, g, Behind(messages, g, R[k].masks))[j])
    <3>1. Shared(E[k], R[k].masks, P[k], input, h, A)
      BY <2>3, <2>4, <2>5, <2>8 DEF Shared
    <3>2. Turns(MaskAt(switches, pads, g, E[k]), Put(R[k].masks, g, Behind(messages, g, R[k].masks)), P[k], input, switches, g, h)
      BY <2>2, <2>9, <3>1, SharesAt
    <3> QED BY <3>2, Zenon DEF Turns
  <2>11. ASSUME NEW j \in 1..h PROVE P[k + 1][j] = P[k][TakenFrom(switches, g, j)]
    <3>1. DOMAIN P[k] = 1..h
      BY <2>3
    <3>2. PermuteAt(switches, g, P[k])[j] = P[k][TakenFrom(switches, g, j)]
      BY <2>2, <3>1, PermutedAt
    <3> QED BY <2>3, <3>2
  <2>12. \A j \in 1..h : E[k + 1][j] = Xor(input[P[k + 1][j]], R[k + 1].masks[j])
    BY <2>4, <2>6, <2>10, <2>11
  <2> QED BY <2>1, <2>12 DEF T
<1>12. 0..n \subseteq T
  <2> HIDE DEF T, n
  <2> QED BY <1>0, <1>10, <1>11, InductUpTo
<1>13. \A j \in 1..h : E[n][j] = Xor(input[P[n][j]], prepared.masks[j])
  <2> HIDE DEF prepared
  <2> QED BY <1>0, <1>4, <1>12
<1>14. E[n] = MaskedEvaluate(switches, pads, first) /\ P[n] = Arrangement(switches, h)
  BY <1>3, <1>9 DEF MaskRun, PermuteRun, Arrangement
<1>15. ASSUME NEW j \in 1..h
       PROVE  Xor(MaskedEvaluate(switches, pads, first)[j], prepared.masks[j]) = input[Arrangement(switches, h)[j]]
  <2> HIDE DEF prepared
  <2>1. \A a, b : Xor(Xor(a, b), b) = a
    <3> SUFFICES ASSUME NEW a, NEW b PROVE Xor(Xor(a, b), b) = a
      OBVIOUS
    <3>1. Xor(Xor(a, b), b) = Xor(a, Xor(b, b))
      BY XorLaws
    <3>2. Xor(b, b) = {} /\ Xor(a, {}) = a
      BY XorLaws
    <3> QED BY <3>1, <3>2
  <2> QED BY <1>13, <1>14, <2>1
<1>16. Blocks(MaskedEvaluate(switches, pads, first), h, A)
  <2>1. E[n] \in [1..h -> SUBSET A]
    BY <1>0, <1>9 DEF MaskRun
  <2> QED BY <1>14, <2>1 DEF Blocks
<1>17. Blocks(prepared.masks, h, A)
  <2>1. R[n] \in [masks : [1..h -> SUBSET A], corrections : [Places(h) -> (SUBSET A) \X (SUBSET A)]]
    BY <1>0, <1>1 DEF PrepareRun
  <2>2. prepared.masks \in [1..h -> SUBSET A]
    <3> HIDE DEF prepared
    <3> QED BY <1>4, <2>1
  <2> QED BY <2>2 DEF Blocks
<1>18. Rejoins(MaskedEvaluate(switches, pads, first), prepared.masks, switches, input, h)
  BY <1>15 DEF Rejoins
<1> QED BY <1>16, <1>17, <1>18, Zenon DEF pads, first, prepared

\* Two columns of h blocks that together are the input, permuted.
Reassembled(osn, switches, input, h) ==
  IsColumn(osn.sender, h) /\ IsColumn(osn.receiver, h) /\ Rejoins(osn.sender, osn.receiver, switches, input, h)
(* A run of the network on a column of two rows or more (runOsnSender and
   runOsnReceiver) leaves the two parties with shares of the column in the order
   that the sender's switches make of it, whatever switches and masks are drawn. *)
THEOREM NetworkShares ==
  ASSUME NEW h \in Nat, h >= 2, NEW switches, NEW fresh, NEW input, IsColumn(input, h)
  PROVE  Reassembled(RunOsn(switches, fresh, input), switches, input, h)
<1> DEFINE masks == InputMasks(fresh, h)
           messages == Messages(fresh, h)
           C == {messages[q][d][e] : q \in Places(h), d \in {1, 2}, e \in {1, 2}}
           A == UNION {input[j] : j \in 1..h}
           B == A \cup (UNION {masks[i] : i \in 1..h}) \cup (UNION C)
           prepared == PrepareCorrection(messages, masks)
           sent == MaskedEvaluate(switches, Pads(messages, masks, switches), Hidden(input, masks, h))
<1>0. input \in [1..h -> SUBSET A]
  <2>1. \A j \in 1..h : input[j] \in SUBSET A
    OBVIOUS
  <2> HIDE DEF A
  <2> QED BY <2>1 DEF IsColumn
<1> HIDE DEF A
<1>1. Len(input) = h
  BY <1>0, LenColumn
<1>2. Blocks(input, h, B) /\ Blocks(masks, h, B)
  <2>1. A \subseteq B /\ \A i \in 1..h : masks[i] \subseteq B
    OBVIOUS
  <2> HIDE DEF B
  <2> QED BY <1>0, <2>1 DEF InputMasks, Blocks
<1>3. Typed(messages, h, B)
  <2>1. DOMAIN messages = Places(h)
    BY DEF Messages
  <2>2. ASSUME NEW p \in Places(h), NEW b \in {1, 2}, NEW c \in {1, 2} PROVE messages[p][b][c] \in SUBSET B
    <3>1. messages[p][b][c] \in C
      <4> HIDE DEF messages
      <4> QED OBVIOUS
    <3>2. UNION C \subseteq B
      <4> HIDE DEF messages, C
      <4> QED OBVIOUS
    <3> HIDE DEF messages, B, C
    <3> QED BY <3>1, <3>2
  <2> HIDE DEF messages, B
  <2> QED BY <2>1, <2>2 DEF Typed
<1> HIDE DEF masks, messages, C, B
<1>4. Blocks(sent, h, B) /\ Blocks(prepared.masks, h, B) /\ Rejoins(sent, prepared.masks, switches, input, h)
  BY <1>2, <1>3, OsnShares
<1>5. RunOsn(switches, fresh, input) = [sender |-> sent, receiver |-> prepared.masks]
  BY <1>1, Zenon DEF RunOsn, Pads, Hidden, masks, messages
<1> HIDE DEF sent, prepared
<1>6. IsColumn(sent, h) /\ IsColumn(prepared.masks, h)
  BY <1>4 DEF Blocks, IsColumn
<1> QED BY <1>4, <1>5, <1>6 DEF Reassembled
-----------------------------------------------------------------------------
(* Sequences of messages. *)
Queue(s) == s \in Seq(ToSet(s))
Batch(s, S) == Queue(s) /\ ToSet(s) \subseteq S

\* A queue is a function on 1..Len; batches of letters are joined, cut and widened.
LEMMA QueueRange ==
  ASSUME NEW s, Queue(s)
  PROVE  Len(s) \in Nat /\ DOMAIN s = 1..Len(s) /\ ToSet(s) = {s[n] : n \in 1..Len(s)}
BY DEF Queue, ToSet

LEMMA BatchIn == ASSUME NEW S, NEW s \in Seq(S) PROVE Batch(s, S)
<1>1. ToSet(s) \subseteq S
  BY DEF ToSet
<1>2. s \in [1..Len(s) -> ToSet(s)] /\ Len(s) \in Nat
  BY DEF ToSet
<1>3. s \in Seq(ToSet(s))
  <2> DEFINE T == ToSet(s)
             n == Len(s)
  <2>1. s \in [1..n -> T] /\ n \in Nat
    BY <1>2
  <2> HIDE DEF T, n
  <2>2. s \in Seq(T)
    BY <2>1
  <2> QED BY <2>2 DEF T
<1> QED BY <1>1, <1>3 DEF Batch, Queue

LEMMA BatchSeq == ASSUME NEW S, NEW s, Batch(s, S) PROVE s \in Seq(S)
<1>1. s \in Seq(ToSet(s)) /\ ToSet(s) \subseteq S
  BY DEF Batch, Queue
<1> DEFINE T == ToSet(s)
<1> HIDE DEF T
<1>2. s \in Seq(T) /\ T \subseteq S
  BY <1>1 DEF T
<1> QED BY <1>2

LEMMA BatchJoin == ASSUME NEW S, NEW s, NEW t, Batch(s, S), Batch(t, S) PROVE Batch(s \o t, S)
<1>1. s \in Seq(S) /\ t \in Seq(S)
  BY BatchSeq
<1>2. s \o t \in Seq(S)
  BY <1>1
<1> QED BY <1>2, BatchIn

LEMMA BatchNone == ASSUME NEW S PROVE Batch(<<>>, S)
<1>1. <<>> \in Seq(S)
  OBVIOUS
<1> QED BY <1>1, BatchIn

LEMMA BatchOne == ASSUME NEW S, NEW m \in S PROVE Batch(<<m>>, S)
<1>1. <<m>> \in Seq(S)
  OBVIOUS
<1> QED BY <1>1, BatchIn

LEMMA BatchTwo == ASSUME NEW S, NEW m \in S, NEW n \in S PROVE Batch(<<m, n>>, S)
<1>1. <<m, n>> \in Seq(S)
  OBVIOUS
<1> QED BY <1>1, BatchIn

LEMMA BatchRow == ASSUME NEW S, NEW n \in Nat, NEW s \in [1..n -> S] PROVE Batch(s, S)
<1>1. s \in Seq(S)
  OBVIOUS
<1> QED BY <1>1, BatchIn

LEMMA BatchWhen == ASSUME NEW S, NEW s, NEW flag, flag => Batch(s, S) PROVE Batch(When(flag, s), S)
BY BatchNone DEF When

LEMMA BatchTail ==
  ASSUME NEW S, NEW s, Batch(s, S), s # <<>>
  PROVE  Batch(Tail(s), S) /\ Head(s) \in S
<1>1. s \in Seq(S)
  BY BatchSeq
<1>2. Tail(s) \in Seq(S) /\ Head(s) \in S
  BY <1>1, HeadTailProperties
<1> QED BY <1>2, BatchIn

LEMMA BatchPrefix ==
  ASSUME NEW S, NEW s, Batch(s, S), NEW t \in Prefixes(s)
  PROVE  Batch(t, S)
<1>1. s \in Seq(S)
  BY BatchSeq
<1>2. PICK n \in 0..Len(s) : t = SubSeq(s, 1, n)
  BY DEF Prefixes
<1>3. t \in Seq(S)
  BY <1>1, <1>2
<1> QED BY <1>3, BatchIn
-----------------------------------------------------------------------------
(* The elements of a sequence at some of its positions. *)
Ranked(b) == \A S \in SUBSET (1..b) : \A k \in 1..Cardinality(S) : \E n \in S : Cardinality({m \in S : m <= n}) = k

LEMMA RankedAll == \A b \in Nat : Ranked(b)
<1> DEFINE T == {b \in Nat : Ranked(b)}
<1>1. 0 \in T
  <2>1. \A S \in SUBSET (1..0) : S = {}
    OBVIOUS
  <2>2. \A S \in SUBSET (1..0) : 1..Cardinality(S) = {}
    BY <2>1, FS_EmptySet
  <2> QED BY <2>2 DEF Ranked
<1>2. ASSUME NEW b \in Nat, b \in T PROVE b + 1 \in T
  <2> SUFFICES ASSUME NEW S \in SUBSET (1..(b + 1)), NEW k \in 1..Cardinality(S)
               PROVE  \E n \in S : Cardinality({m \in S : m <= n}) = k
    BY DEF Ranked
  <2> DEFINE R == S \ {b + 1}
  <2>1. R \in SUBSET (1..b)
    OBVIOUS
  <2>2. IsFiniteSet(S) /\ Cardinality(S) \in Nat
    BY FS_Interval, FS_Subset, FS_CardinalityType, 1 \in Int, b + 1 \in Int
  <2>3. CASE b + 1 \notin S
    <3>1. S \in SUBSET (1..b)
      BY <2>3
    <3> QED BY <1>2, <3>1 DEF Ranked
  <2>4. CASE b + 1 \in S /\ k = Cardinality(S)
    <3>1. \A m \in S : m <= b + 1
      OBVIOUS
    <3>2. {m \in S : m <= b + 1} = S
      BY <3>1
    <3> QED BY <2>4, <3>2
  <2>5. CASE b + 1 \in S /\ k # Cardinality(S)
    <3>1. IsFiniteSet(R) /\ Cardinality(R) = Cardinality(S) - 1
      BY <2>2, <2>5, FS_RemoveElement
    <3>2. k \in 1..Cardinality(R)
      BY <2>2, <2>5, <3>1
    <3>3. PICK n \in R : Cardinality({m \in R : m <= n}) = k
      BY <1>2, <2>1, <3>2 DEF Ranked
    <3>4. {m \in S : m <= n} = {m \in R : m <= n}
      BY <2>1, <3>3
    <3> QED BY <3>3, <3>4
  <2> QED BY <2>3, <2>4, <2>5
<1>3. Nat \subseteq T
  <2> HIDE DEF T
  <2> QED BY <1>1, <1>2, Induct
<1> QED BY <1>3

Keeps(s, S) == Cardinality(S) \in Nat /\ Kept(s, S) \in [1..Cardinality(S) -> {s[k] : k \in S}]
LEMMA KeptElements == ASSUME NEW n \in Nat, NEW s, NEW S, S \subseteq 1..n PROVE Keeps(s, S)
<1>1. IsFiniteSet(S) /\ Cardinality(S) \in Nat
  BY FS_Interval, FS_Subset, FS_CardinalityType, 1 \in Int, n \in Int
<1>0. S \in SUBSET (1..n)
  OBVIOUS
<1>2. ASSUME NEW k \in 1..Cardinality(S)
      PROVE  (CHOOSE j \in S : Cardinality({m \in S : m <= j}) = k) \in S
  BY <1>0, RankedAll DEF Ranked
<1> DEFINE rank(k) == CHOOSE j \in S : Cardinality({m \in S : m <= j}) = k
<1>3. \A k \in 1..Cardinality(S) : rank(k) \in S
  BY <1>2
<1>4. Kept(s, S) = [k \in 1..Cardinality(S) |-> s[rank(k)]]
  BY DEF Kept
<1> HIDE DEF rank
<1> QED BY <1>1, <1>3, <1>4 DEF Keeps

\* What goes to one socket of a batch is some of the batch.
LEMMA SentBatch ==
  ASSUME NEW s, Queue(s), NEW ch
  PROVE  Batch(Sent(s, ch), {m \in ToSet(s) : m.on = ch})
<1> DEFINE S == {n \in DOMAIN s : s[n].on = ch}
           M == {m \in ToSet(s) : m.on = ch}
<1>1. Len(s) \in Nat /\ DOMAIN s = 1..Len(s) /\ ToSet(s) = {s[n] : n \in 1..Len(s)}
  BY QueueRange
<1>2. S \subseteq 1..Len(s) /\ {s[k] : k \in S} \subseteq M
  BY <1>1
<1>3. Sent(s, ch) = Kept(s, S)
  BY DEF Sent
<1> HIDE DEF S, M
<1>4. Cardinality(S) \in Nat /\ Kept(s, S) \in [1..Cardinality(S) -> {s[k] : k \in S}]
  <2>1. Keeps(s, S)
    BY <1>1, <1>2, KeptElements
  <2> QED BY <2>1 DEF Keeps
<1>5. Kept(s, S) \in [1..Cardinality(S) -> M]
  BY <1>2, <1>4
<1>6. Batch(Kept(s, S), M)
  BY <1>4, <1>5, BatchRow
<1> QED BY <1>3, <1>6 DEF M

LEMMA MaxOfTwo ==
  ASSUME NEW a \in Nat, NEW b \in Nat
  PROVE  Max({a, b}) \in Nat /\ Max({a, b}) >= a /\ Max({a, b}) >= b /\ Max({a, b}) \in {a, b}
<1>1. \E x \in {a, b} : \A y \in {a, b} : x >= y
  OBVIOUS
<1> QED BY <1>1 DEF Max
-----------------------------------------------------------------------------
(* What is on the way, and what a stage that ends does to it. *)
Flight(w) == UNION {ToSet(w[ch]) : ch \in Channel}
Queues(w) == DOMAIN w = Channel /\ \A ch \in Channel : Queue(w[ch]) /\ \A m \in ToSet(w[ch]) : m.on = ch
Letter(ch, is, val) == \E m \in Flight(wire) : m.on = ch /\ m.is = is /\ m.val = val

\* Whoever reads a letter reads one that is on the way.
LEMMA ReadLetter ==
  ASSUME Queues(wire), NEW p, Arrived(p), NEW n \in DOMAIN Inbox(p), Inbox(p)[n].on \in Channel
  PROVE  Letter(Inbox(p)[n].on, Inbox(p)[n].is, Got(p, n))
<1> DEFINE ch == Inbox(p)[n].on
<1>1. wire[ch] # <<>> /\ Head(wire[ch]).is = Inbox(p)[n].is
  BY DEF Arrived, Has
<1>2. Queue(wire[ch]) /\ \A m \in ToSet(wire[ch]) : m.on = ch
  BY DEF Queues
<1>3. Got(p, n) = Head(wire[ch]).val
  BY DEF Got
<1> DEFINE q == wire[ch]
<1> HIDE DEF q
<1>4. Head(q) \in ToSet(q)
  <2>1. Batch(q, ToSet(q)) /\ q # <<>>
    BY <1>1, <1>2 DEF Batch, q
  <2> QED BY <2>1, BatchTail
<1>5. Head(q) \in Flight(wire)
  BY <1>4 DEF Flight, q
<1> HIDE DEF ch
<1> QED BY <1>1, <1>2, <1>3, <1>4, <1>5 DEF Letter, q, ch

\* The outcome of a Move of p that sends letters of a set S.
Posted(S) == Queues(wire') /\ Flight(wire') \subseteq Flight(wire) \cup S
Settled(p, next) ==
  /\ \E s \in {next, "failed"} : stage' = [stage EXCEPT ![p] = s]
  /\ conf' = conf /\ csv' = csv /\ linked' = linked
Moved(p, S, next) == Posted(S) /\ Settled(p, next)

\* A Move posts some of its letters and ends in its next stage or dies.
LEMMA MoveOut ==
  ASSUME Queues(wire), NEW p, Arrived(p), NEW S, \A m \in S : m.on \in Channel,
         NEW out, Batch(out, S), NEW next, Move(p, out, next)
  PROVE  Moved(p, S, next)
<1> DEFINE read == {Inbox(p)[n].on : n \in DOMAIN Inbox(p)}
<1>1. PICK sent \in Prefixes(out) :
        /\ stage' = [stage EXCEPT ![p] = IF Len(sent) = Len(out) THEN next ELSE "failed"]
        /\ wire' = [ch \in Channel |-> (IF ch \in read THEN Tail(wire[ch]) ELSE wire[ch]) \o Sent(sent, ch)]
        /\ UNCHANGED <<conf, csv, linked>>
  BY DEF Move
<1>2. Batch(sent, S)
  BY BatchPrefix
<1>3. \A ch \in read : wire[ch] # <<>>
  BY DEF Arrived, Has
<1> HIDE DEF read
<1> DEFINE rest(ch) == IF ch \in read THEN Tail(wire[ch]) ELSE wire[ch]
<1>4. ASSUME NEW ch \in Channel
      PROVE  /\ Queue(wire'[ch]) /\ \A m \in ToSet(wire'[ch]) : m.on = ch
             /\ ToSet(wire'[ch]) \subseteq Flight(wire) \cup S
  <2> DEFINE F == {m \in Flight(wire) \cup S : m.on = ch}
             q == wire[ch]
  <2>1. Queue(q) /\ \A m \in ToSet(q) : m.on = ch
    BY DEF Queues
  <2>2. ToSet(q) \subseteq F
    BY <2>1 DEF Flight
  <2>3. ch \in read => q # <<>>
    BY <1>3
  <2>4. wire'[ch] = rest(ch) \o Sent(sent, ch)
    BY <1>1
  <2>5. rest(ch) = IF ch \in read THEN Tail(q) ELSE q
    OBVIOUS
  <2>6. {m \in ToSet(sent) : m.on = ch} \subseteq F
    BY <1>2 DEF Batch
  <2> HIDE DEF F, q, rest
  <2>7. Batch(q, F)
    BY <2>1, <2>2 DEF Batch
  <2>8. Batch(rest(ch), F)
    BY <2>3, <2>5, <2>7, BatchTail
  <2>9. Batch(Sent(sent, ch), F)
    <3>1. Batch(Sent(sent, ch), {m \in ToSet(sent) : m.on = ch})
      BY <1>2, SentBatch DEF Batch
    <3> QED BY <2>6, <3>1 DEF Batch
  <2>10. Batch(wire'[ch], F)
    BY <2>4, <2>8, <2>9, BatchJoin
  <2> QED BY <2>10 DEF Batch, F
<1>5. DOMAIN wire' = Channel
  BY <1>1
<1>6. Posted(S)
  BY <1>4, <1>5 DEF Posted, Queues, Flight
<1>7. Settled(p, next)
  BY <1>1 DEF Settled
<1> QED BY <1>6, <1>7 DEF Moved
-----------------------------------------------------------------------------
(* The letters of each stage. *)
OnChannels(S) == \A m \in S : m.on \in Channel

\* The sockets that parties write to are there.
LEMMA Sockets ==
  /\ \A i \in Sender : Star(SP, i) \in Channel /\ Star(i, SP) \in Channel
  /\ \A i, j \in Sender : i # j => Mesh(i, j) \in Channel
  /\ \A k \in 0..(N-2) : Osn(k) \in Channel
  /\ Reveal \in Channel
<1>1. ASSUME NEW i \in Sender, NEW j \in Sender, i # j PROVE Mesh(i, j) \in Channel
  <2> DEFINE P == {q \in Sender \X Sender : q[1] # q[2]}
  <2>1. <<i, j>> \in P
    BY <1>1
  <2>2. Mesh(i, j) \in {Mesh(p[1], p[2]) : p \in P}
    BY <2>1
  <2> QED BY <2>2 DEF Channel
<1>2. ASSUME NEW i \in Sender PROVE Star(SP, i) \in Channel /\ Star(i, SP) \in Channel
  BY DEF Channel
<1>3. ASSUME NEW k \in 0..(N-2) PROVE Osn(k) \in Channel
  BY DEF Channel
<1>4. Reveal \in Channel
  BY DEF Channel
<1> QED BY <1>1, <1>2, <1>3, <1>4

\* The senders, and the provider after them.
LEMMA Parties ==
  /\ N \in Nat /\ N >= 2 /\ SP = N /\ 0 \in Sender /\ N-1 \in Sender /\ SP \in Party
  /\ \A i \in Sender : i \in Party /\ i \in Int /\ i # SP /\ 0 <= i /\ i <= N-1
  /\ \A i \in Sender : \A n \in 1..(N-1) : Peers(i)[n] \in Sender \ {i}
  /\ \A p \in Party : p = SP \/ p \in Sender
BY SizeAssumption DEF SP, Sender, Party, Peers

ToAll(is, val) == {Msg(Star(SP, i), is, val) : i \in Sender}
ToPeers(i, is, val) == {Msg(Mesh(i, j), is, val) : j \in Sender \ {i}}
\* A letter to every sender, and to every peer.
LEMMA ToAllBatch ==
  ASSUME NEW is, NEW val
  PROVE  Batch(ToSenders(is, val), ToAll(is, val)) /\ OnChannels(ToAll(is, val))
<1> DEFINE S == ToAll(is, val)
<1>1. \A n \in 1..N : n-1 \in Sender
  BY Parties DEF Sender
<1>2. ToSenders(is, val) \in [1..N -> S]
  BY <1>1 DEF ToSenders, ToAll
<1> HIDE DEF S
<1>3. Batch(ToSenders(is, val), S)
  BY <1>2, Parties, BatchRow
<1>4. OnChannels(ToAll(is, val))
  BY Sockets DEF OnChannels, ToAll, Msg
<1> QED BY <1>3, <1>4 DEF S

LEMMA ToPeersBatch ==
  ASSUME NEW i \in Sender, NEW is, NEW val
  PROVE  /\ Batch([n \in 1..(N-1) |-> Msg(Mesh(i, Peers(i)[n]), is, val)], ToPeers(i, is, val))
         /\ OnChannels(ToPeers(i, is, val))
<1> DEFINE S == ToPeers(i, is, val)
           s == [n \in 1..(N-1) |-> Msg(Mesh(i, Peers(i)[n]), is, val)]
<1>2. s \in [1..(N-1) -> S]
  BY Parties DEF ToPeers
<1>3. N-1 \in Nat
  BY Parties
<1> HIDE DEF S, s
<1>4. Batch(s, S)
  BY <1>2, <1>3, BatchRow
<1>5. OnChannels(ToPeers(i, is, val))
  BY Sockets DEF OnChannels, ToPeers, Msg
<1> QED BY <1>4, <1>5 DEF S, s

LEMMA BatchWider == ASSUME NEW S, NEW T, S \subseteq T, NEW s, Batch(s, S) PROVE Batch(s, T)
BY DEF Batch

\* The letters that carry nothing a later stage computes with, and those that
\* carry a file.
Errands == {Msg(ch, is, 0) : ch \in Channel, is \in {"session", "spkey", "aesKey", "candSize", "key", "salt", "peerKey"}}
Satisfied(i) == At(i, "spsig") /\ Got(i, 1)
Signed == {Msg(Star(SP, i), "spsig", Genuine(SP)) : i \in Sender}
  \cup {Msg(Star(i, SP), "signature", Genuine(i)) : i \in {j \in Sender : Satisfied(j)}}
Filed == {Msg(Star(i, SP), is, csv[i]) : i \in Sender, is \in {"set", "psi"}}
Quietly == Errands \cup Signed \cup Filed

LEMMA QuietChannels == OnChannels(Quietly)
<1>1. OnChannels(Errands)
  BY DEF OnChannels, Errands, Msg
<1>2. OnChannels(Signed)
  BY Sockets DEF OnChannels, Signed, Msg
<1>3. OnChannels(Filed)
  BY Sockets DEF OnChannels, Filed, Msg
<1> QED BY <1>1, <1>2, <1>3 DEF OnChannels, Quietly

\* What the steps before the intersection send.
LEMMA QuietLetters ==
  /\ \A is \in {"session", "spkey", "aesKey"} : ToAll(is, 0) \subseteq Quietly
  /\ ToAll("spsig", Genuine(SP)) \subseteq Quietly
  /\ \A i \in Sender : Msg(Star(SP, i), "candSize", 0) \in Quietly
  /\ \A i \in Sender : Satisfied(i) => Msg(Star(i, SP), "signature", Genuine(i)) \in Quietly
  /\ \A i \in Sender : Msg(Star(i, SP), "key", 0) \in Quietly
  /\ \A i \in Sender : \A is \in {"set", "psi"} : Msg(Star(i, SP), is, csv[i]) \in Quietly
  /\ \A j \in Sender : j # 0 => Msg(Mesh(0, j), "salt", 0) \in Quietly
  /\ \A i \in Sender : ToPeers(i, "peerKey", 0) \subseteq Quietly
<1>0. 0 \in Sender
  BY Parties
<1>1. \A ch \in Channel : \A is \in {"session", "spkey", "aesKey", "candSize", "key", "salt", "peerKey"} : Msg(ch, is, 0) \in Errands
  BY DEF Errands
<1>2. \A is \in {"session", "spkey", "aesKey"} : ToAll(is, 0) \subseteq Errands
  BY <1>1, Sockets DEF ToAll
<1>3. ToAll("spsig", Genuine(SP)) \subseteq Signed
  BY DEF ToAll, Signed
<1>4. \A i \in Sender : Msg(Star(SP, i), "candSize", 0) \in Errands
  BY <1>1, Sockets
<1>5. \A i \in Sender : Satisfied(i) => Msg(Star(i, SP), "signature", Genuine(i)) \in Signed
  BY DEF Signed
<1>6. \A i \in Sender : Msg(Star(i, SP), "key", 0) \in Errands
  BY <1>1, Sockets
<1>7. \A i \in Sender : \A is \in {"set", "psi"} : Msg(Star(i, SP), is, csv[i]) \in Filed
  BY DEF Filed
<1>8. \A j \in Sender : j # 0 => Msg(Mesh(0, j), "salt", 0) \in Errands
  BY <1>0, <1>1, Sockets
<1>9. \A i \in Sender : ToPeers(i, "peerKey", 0) \subseteq Errands
  BY <1>1, Sockets DEF ToPeers
<1>10. Errands \subseteq Quietly /\ Signed \subseteq Quietly /\ Filed \subseteq Quietly
  BY DEF Quietly
<1> HIDE DEF Errands, Signed, Filed, Quietly
<1>11. /\ \A is \in {"session", "spkey", "aesKey"} : ToAll(is, 0) \subseteq Quietly
       /\ ToAll("spsig", Genuine(SP)) \subseteq Quietly
       /\ \A i \in Sender : ToPeers(i, "peerKey", 0) \subseteq Quietly
  BY <1>2, <1>3, <1>9, <1>10
<1>12. /\ \A i \in Sender : Msg(Star(SP, i), "candSize", 0) \in Quietly
       /\ \A i \in Sender : Msg(Star(i, SP), "key", 0) \in Quietly
       /\ \A j \in Sender : j # 0 => Msg(Mesh(0, j), "salt", 0) \in Quietly
  BY <1>4, <1>6, <1>8, <1>10
<1>13. \A i \in Sender : Satisfied(i) => Msg(Star(i, SP), "signature", Genuine(i)) \in Quietly
  BY <1>5, <1>10
<1>14. \A i \in Sender : \A is \in {"set", "psi"} : Msg(Star(i, SP), is, csv[i]) \in Quietly
  BY <1>7, <1>10
<1> QED BY <1>11, <1>12, <1>13, <1>14
-----------------------------------------------------------------------------
\* A stage that has arrived ends as MoveOut says.
LEMMA MoveAt ==
  ASSUME Queues(wire), NEW p, NEW s, At(p, s), NEW S, OnChannels(S), NEW out, Batch(out, S),
         NEW next, Move(p, out, next)
  PROVE  Moved(p, S, next)
<1>1. Arrived(p)
  BY DEF At
<1>2. \A m \in S : m.on \in Channel
  BY DEF OnChannels
<1> QED BY <1>1, <1>2, MoveOut

\* Steps that change nothing but who waits for what.
Early(p) == IF p = SP THEN {"greet", "signatures", "keys", "hashes", "seed"}
                      ELSE {"salt", "session", "spsig", "spkey", "hashing", "psi", "result"}
\* The provider goes on from the signatures only when every one is good.
Cleared == conf.auth => At(SP, "signatures") /\ \A n \in 1..N : Got(SP, n)
Admitted(s) == stage[SP] \in {"greet", "signatures"} /\ s \notin {"signatures", "failed"} => Cleared
Advance(p, s) ==
  /\ stage' = [stage EXCEPT ![p] = s]
  /\ s = "failed" \/ (stage[p] \in Early(p) /\ s \in Early(p))
  /\ p = SP => Admitted(s)
Quiet ==
  /\ Posted(Quietly) /\ UNCHANGED <<conf, csv, data>>
  /\ stage' = stage \/ \E p \in Party : \E s \in Early(p) \cup {"failed"} : Advance(p, s)

\* Each of the steps that matter to nobody's data is Quiet.
LEMMA QuietMove ==
  ASSUME Queues(wire), NEW p \in Party, NEW s \in Early(p), At(p, s), NEW out, Batch(out, Quietly),
         NEW next \in Early(p) \cup {"failed"}, Move(p, out, next), UNCHANGED data, p = SP => Admitted(next)
  PROVE  Quiet /\ linked' = linked
<1>1. Moved(p, Quietly, next)
  BY MoveAt, QuietChannels
<1>2. Posted(Quietly) /\ Settled(p, next)
  BY <1>1 DEF Moved
<1>3. stage[p] \in Early(p)
  BY DEF At
<1>4. PICK t \in {next, "failed"} : stage' = [stage EXCEPT ![p] = t]
  BY <1>2 DEF Settled
<1>5. t \in Early(p) \cup {"failed"} /\ Advance(p, t)
  BY <1>3, <1>4 DEF Advance, Admitted
<1> QED BY <1>2, <1>5 DEF Settled, Quiet

LEMMA QuietStay == ASSUME Queues(wire), UNCHANGED <<conf, csv, stage, wire, data>> PROVE Quiet
BY DEF Quiet, Posted, Queues, Flight

LEMMA QuietStop == ASSUME Queues(wire), NEW p \in Party, Stop(p) PROVE Quiet /\ linked' = linked
<1>1. Posted(Quietly)
  BY DEF Stop, Posted, Queues, Flight
<1>2. Advance(p, "failed")
  BY DEF Stop, Advance, Admitted
<1> QED BY <1>1, <1>2 DEF Stop, Quiet

LEMMA QuietProvider ==
  ASSUME Queues(wire), Greet \/ Signatures \/ Keys
  PROVE  Quiet /\ linked' = linked
<1>0. SP \in Party /\ Early(SP) = {"greet", "signatures", "keys", "hashes", "seed"}
  BY Parties DEF Early
<1>1. Batch(AskKeys, Quietly) /\ Batch(<<>>, Quietly) /\ Batch(ToSenders("session", 0), Quietly)
      /\ Batch(ToSenders("aesKey", 0), Quietly) /\ Batch(ToSenders("spsig", Genuine(SP)), Quietly)
  <2>1. \A is \in {"session", "spkey", "aesKey"} : Batch(ToSenders(is, 0), Quietly)
    BY ToAllBatch, QuietLetters, BatchWider
  <2>2. Batch(ToSenders("spsig", Genuine(SP)), Quietly)
    BY ToAllBatch, QuietLetters, BatchWider
  <2> QED BY <2>1, <2>2, BatchNone DEF AskKeys
<1>2. CASE Greet
  <2> DEFINE then == IF conf.auth THEN ToSenders("spsig", Genuine(SP)) ELSE AskKeys
             out == ToSenders("session", 0) \o then
             next == IF conf.auth THEN "signatures" ELSE "keys"
  <2>1. At(SP, "greet") /\ Move(SP, out, next) /\ UNCHANGED data
    BY <1>2 DEF Greet
  <2>2. Batch(then, Quietly)
    BY <1>1
  <2> HIDE DEF then
  <2>3. Batch(out, Quietly)
    BY <1>1, <2>2, BatchJoin
  <2>4. next \in Early(SP) \cup {"failed"} /\ "greet" \in Early(SP) /\ Admitted(next)
    BY <1>0 DEF Admitted, Cleared
  <2> HIDE DEF out, next
  <2> QED BY <1>0, <2>1, <2>3, <2>4, QuietMove
<1>3. CASE Signatures
  <2>1. /\ At(SP, "signatures") /\ UNCHANGED data
        /\ (Move(SP, AskKeys, "keys") /\ Admitted("keys")) \/ (Move(SP, <<>>, "failed") /\ Admitted("failed"))
    BY <1>3 DEF Signatures, Admitted, Cleared
  <2>2. "signatures" \in Early(SP) /\ "keys" \in Early(SP) \cup {"failed"} /\ "failed" \in Early(SP) \cup {"failed"}
    BY <1>0
  <2> QED BY <1>0, <1>1, <2>1, <2>2, QuietMove
<1>4. CASE Keys
  <2>1. At(SP, "keys") /\ UNCHANGED data /\ (Move(SP, <<>>, "seed") \/ Move(SP, ToSenders("aesKey", 0), "hashes"))
    BY <1>4 DEF Keys
  <2>3. \A s : Admitted(s)
    BY <2>1 DEF At, Admitted
  <2>2. "keys" \in Early(SP) /\ "seed" \in Early(SP) \cup {"failed"} /\ "hashes" \in Early(SP) \cup {"failed"}
    BY <1>0
  <2> QED BY <1>0, <1>1, <2>1, <2>2, <2>3, QuietMove
<1> QED BY <1>2, <1>3, <1>4

LEMMA QuietSender ==
  ASSUME Queues(wire), NEW i \in Sender, Salt(i) \/ Session(i) \/ SpSig(i) \/ SpKey(i) \/ Hashing(i) \/ Psi(i)
  PROVE  Quiet /\ linked' = linked
<1>0. i \in Party /\ i # SP /\ Early(i) = {"salt", "session", "spsig", "spkey", "hashing", "psi", "result"}
  BY Parties DEF Early
<1>1. Batch(<<>>, Quietly)
  BY BatchNone
<1>2. \A is \in {"set", "psi"} : Batch(SendSet(i, is), Quietly)
  BY QuietLetters, BatchOne DEF SendSet
<1>3. CASE Salt(i)
  <2> DEFINE s == [j \in 1..(N-1) |-> Msg(Mesh(0, j), "salt", 0)]
  <2>1. At(i, "salt") /\ Move(i, When(i = 0, s), "session") /\ UNCHANGED data
    BY <1>3 DEF Salt
  <2>2. s \in [1..(N-1) -> Quietly]
    <3>1. \A j \in 1..(N-1) : j \in Sender /\ j # 0
      BY Parties DEF Sender
    <3> QED BY <3>1, QuietLetters
  <2> HIDE DEF s
  <2>3. Batch(When(i = 0, s), Quietly)
    BY <2>2, BatchRow, BatchWhen, Parties
  <2>4. "salt" \in Early(i) /\ "session" \in Early(i) \cup {"failed"}
    BY <1>0
  <2> QED BY <1>0, <2>1, <2>3, <2>4, QuietMove
<1>4. CASE Session(i)
  <2>1. At(i, "session") /\ Move(i, <<>>, IF conf.auth THEN "spsig" ELSE "spkey") /\ UNCHANGED data
    BY <1>4 DEF Session
  <2>2. "session" \in Early(i) /\ (IF conf.auth THEN "spsig" ELSE "spkey") \in Early(i) \cup {"failed"}
    BY <1>0
  <2> QED BY <1>0, <1>1, <2>1, <2>2, QuietMove
<1>5. CASE SpSig(i)
  <2>1. /\ At(i, "spsig") /\ UNCHANGED data
        /\ (Satisfied(i) /\ Move(i, <<Msg(Star(i, SP), "signature", Genuine(i))>>, "spkey")) \/ Move(i, <<>>, "failed")
    BY <1>5 DEF SpSig, Satisfied
  <2>2. "spsig" \in Early(i) /\ "spkey" \in Early(i) \cup {"failed"} /\ "failed" \in Early(i) \cup {"failed"}
    BY <1>0
  <2>3. Satisfied(i) => Batch(<<Msg(Star(i, SP), "signature", Genuine(i))>>, Quietly)
    BY QuietLetters, BatchOne
  <2> QED BY <1>0, <1>1, <2>1, <2>2, <2>3, QuietMove
<1>6. CASE SpKey(i)
  <2> DEFINE out == <<Msg(Star(i, SP), "key", 0)>> \o When(conf.vole /\ i = 0, SendSet(i, "set"))
             next == IF ~conf.vole THEN "hashing" ELSE IF i = 0 THEN "result" ELSE "psi"
  <2>1. At(i, "spkey") /\ Move(i, out, next) /\ UNCHANGED data
    BY <1>6 DEF SpKey
  <2>2. Batch(<<Msg(Star(i, SP), "key", 0)>>, Quietly) /\ Batch(When(conf.vole /\ i = 0, SendSet(i, "set")), Quietly)
    BY <1>2, QuietLetters, BatchOne, BatchWhen
  <2>3. Batch(out, Quietly)
    BY <2>2, BatchJoin
  <2>4. "spkey" \in Early(i) /\ next \in Early(i) \cup {"failed"}
    BY <1>0
  <2> HIDE DEF out, next
  <2> QED BY <1>0, <2>1, <2>3, <2>4, QuietMove
<1>7. CASE Hashing(i)
  <2>1. At(i, "hashing") /\ Move(i, SendSet(i, "set"), "result") /\ UNCHANGED data
    BY <1>7 DEF Hashing
  <2>2. "hashing" \in Early(i) /\ "result" \in Early(i) \cup {"failed"}
    BY <1>0
  <2> QED BY <1>0, <1>2, <2>1, <2>2, QuietMove
<1>8. CASE Psi(i)
  <2>1. At(i, "psi") /\ Move(i, SendSet(i, "psi"), "result") /\ UNCHANGED data
    BY <1>8 DEF Psi
  <2>2. "psi" \in Early(i) /\ "result" \in Early(i) \cup {"failed"}
    BY <1>0
  <2> QED BY <1>0, <1>2, <2>1, <2>2, QuietMove
<1> QED BY <1>3, <1>4, <1>5, <1>6, <1>7, <1>8

LEMMA QuietRest ==
  ASSUME Queues(wire)
  PROVE  /\ \A p, q : Connect(p, q) => Quiet
         /\ \A p \in Party : Throw(p) \/ Die(p) => Quiet /\ linked' = linked
<1>1. ASSUME NEW p, NEW q, Connect(p, q) PROVE Quiet
  <2>1. UNCHANGED <<conf, csv, stage, wire, data>>
    BY <1>1 DEF Connect
  <2> QED BY <2>1, QuietStay
<1>2. ASSUME NEW p \in Party, Throw(p) \/ Die(p) PROVE Quiet /\ linked' = linked
  <2>1. Stop(p)
    BY <1>2 DEF Throw, Die
  <2> QED BY <2>1, QuietStop
<1> QED BY <1>1, <1>2
-----------------------------------------------------------------------------
\* What each of the other steps sends and where it leads.
Telling(common) ==
  /\ cand' = common
  /\ Moved(SP, ToAll("result", common), IF Cardinality(common) < conf.minK THEN "failed" ELSE "masked")
\* ... the provider's,
LEMMA TellOut == ASSUME Queues(wire), NEW s, At(SP, s), NEW common, Tell(common) PROVE Telling(common)
<1> DEFINE next == IF Cardinality(common) < conf.minK THEN "failed" ELSE "masked"
<1>1. Move(SP, ToSenders("result", common), next) /\ cand' = common
  BY DEF Tell
<1> HIDE DEF next
<1>2. Moved(SP, ToAll("result", common), next)
  BY <1>1, ToAllBatch, MoveAt
<1> QED BY <1>1, <1>2 DEF Telling, next

LEMMA SeedOut == ASSUME Queues(wire), Seed PROVE Moved(SP, Quietly, "cascade")
<1>1. At(SP, "seed") /\ Move(SP, AskPsi(1), "cascade")
  BY DEF Seed
<1>2. Batch(AskPsi(1), Quietly)
  <2>1. 1 \in Sender
    BY Parties DEF Sender
  <2> QED BY <2>1, QuietLetters, BatchOne DEF AskPsi
<1> QED BY <1>1, <1>2, MoveAt, QuietChannels

Matched == cand \cap ToSet(Got(SP, 1))
LEMMA CascadeOut ==
  ASSUME Queues(wire), Cascade, round \in 1..(N-1)
  PROVE  /\ round = N-1 => Telling(Matched) /\ round' = 0
         /\ round # N-1 => cand' = Matched /\ round' = round + 1 /\ Moved(SP, Quietly, "cascade")
<1>1. /\ At(SP, "cascade")
      /\ round = N-1 => Tell(Matched) /\ round' = 0
      /\ round # N-1 => cand' = Matched /\ round' = round + 1 /\ Move(SP, AskPsi(round + 1), "cascade")
  BY DEF Cascade, Matched
<1>2. CASE round = N-1
  BY <1>1, <1>2, TellOut
<1>3. CASE round # N-1
  <2>1. round + 1 \in Sender
    BY <1>3, Parties DEF Sender
  <2>2. Batch(AskPsi(round + 1), Quietly)
    BY <2>1, QuietLetters, BatchOne DEF AskPsi
  <2>3. Moved(SP, Quietly, "cascade")
    BY <1>1, <1>3, <2>2, MoveAt, QuietChannels
  <2> QED BY <1>1, <1>3, <2>3
<1> QED BY <1>2, <1>3

LEMMA SilentOut ==
  ASSUME Queues(wire), NEW p, NEW s, At(p, s), NEW next, Move(p, <<>>, next)
  PROVE  Moved(p, {}, next)
<1>1. Batch(<<>>, {}) /\ OnChannels({})
  BY BatchNone DEF OnChannels
<1> QED BY <1>1, MoveAt

MaskedOf(i, common) ==
  [claim |-> IF conf.integrity THEN Sums(Contribution(i, common), i, Height(common)) ELSE <<>>,
   columns |-> XorColumns(Contribution(i, common), Mask(i, Height(common)))]
Contributing(i, common) ==
  /\ rows' = [rows EXCEPT ![i] = Contribution(i, common)]
  /\ Moved(i, {Msg(Star(i, SP), "masked", MaskedOf(i, common))} \cup Quietly, "peerKeys")
\* ... and the senders'.
LEMMA ResultOut ==
  ASSUME Queues(wire), NEW i \in Sender, Result(i)
  PROVE  (rows' = rows /\ Moved(i, {}, "failed")) \/ Contributing(i, Got(i, 1))
<1> DEFINE common == Got(i, 1)
           m == MaskedOf(i, common)
           keys == [n \in 1..(N-1) |-> Msg(Mesh(i, Peers(i)[n]), "peerKey", 0)]
           S == {Msg(Star(i, SP), "masked", m)} \cup Quietly
<1>1. At(i, "result") /\ (\/ Move(i, <<>>, "failed") /\ rows' = rows
                          \/ /\ rows' = [rows EXCEPT ![i] = Contribution(i, common)]
                             /\ Move(i, <<Msg(Star(i, SP), "masked", m)>> \o keys, "peerKeys"))
  BY DEF Result, MaskedOf
<1> HIDE DEF m, common
<1>2. Batch(keys, S)
  <2>1. Batch(keys, ToPeers(i, "peerKey", 0)) /\ ToPeers(i, "peerKey", 0) \subseteq S
    BY ToPeersBatch, QuietLetters
  <2> HIDE DEF keys, S
  <2> QED BY <2>1, BatchWider
<1>3. Batch(<<Msg(Star(i, SP), "masked", m)>>, S)
  BY BatchOne
<1>4. OnChannels(S)
  BY QuietChannels, Sockets DEF OnChannels, Msg
<1> HIDE DEF keys, S
<1>5. CASE Move(i, <<>>, "failed") /\ rows' = rows
  BY <1>1, <1>5, SilentOut
<1>6. CASE rows' = [rows EXCEPT ![i] = Contribution(i, common)] /\ Move(i, <<Msg(Star(i, SP), "masked", m)>> \o keys, "peerKeys")
  <2>1. Batch(<<Msg(Star(i, SP), "masked", m)>> \o keys, S)
    BY <1>2, <1>3, BatchJoin
  <2>2. Moved(i, S, "peerKeys")
    BY <1>1, <1>4, <1>6, <2>1, MoveAt
  <2> QED BY <1>6, <2>2 DEF Contributing, S, m, common
<1> QED BY <1>1, <1>5, <1>6 DEF common

Commits(i) == ToPeers(i, "commit", Mask(i, MyHeight(i)))
LEMMA PeerKeysOut ==
  ASSUME Queues(wire), NEW i \in Sender, PeerKeys(i)
  PROVE  Moved(i, Commits(i), "peerCommits")
<1> DEFINE s == [n \in 1..(N-1) |-> Msg(Mesh(i, Peers(i)[n]), "commit", Mask(i, MyHeight(i)))]
<1>1. At(i, "peerKeys") /\ Move(i, When(i > 0, s), "peerCommits")
  BY DEF PeerKeys
<1>2. Batch(s, Commits(i)) /\ OnChannels(Commits(i))
  BY ToPeersBatch DEF Commits
<1> HIDE DEF s
<1>3. Batch(When(i > 0, s), Commits(i))
  BY <1>2, BatchWhen
<1> QED BY <1>1, <1>2, <1>3, MoveAt

ShowsMask(i) == {Msg(Mesh(j, 0), "open", Opened(j)) : j \in {i} \ {0}}
LEMMA PeerCommitsOut ==
  ASSUME Queues(wire), NEW i \in Sender, PeerCommits(i)
  PROVE  Moved(i, ShowsMask(i), IF i = 0 THEN "opens" ELSE "turn")
<1> DEFINE s == <<Msg(Mesh(i, 0), "open", Opened(i))>>
           next == IF i = 0 THEN "opens" ELSE "turn"
<1>1. At(i, "peerCommits") /\ Move(i, When(i > 0, s), next)
  BY DEF PeerCommits
<1>2. i > 0 => Batch(s, ShowsMask(i))
  <2>1. i > 0 => Msg(Mesh(i, 0), "open", Opened(i)) \in ShowsMask(i)
    BY Parties DEF ShowsMask
  <2> QED BY <2>1, BatchOne
<1>3. OnChannels(ShowsMask(i))
  BY Sockets, Parties DEF OnChannels, ShowsMask, Msg
<1> HIDE DEF s, next
<1>4. Batch(When(i > 0, s), ShowsMask(i))
  BY <1>2, BatchWhen
<1>5. Moved(i, ShowsMask(i), next)
  BY <1>1, <1>3, <1>4, MoveAt
<1> QED BY <1>5 DEF next

Showing(i) == {Msg(Star(i, SP), "opening", Sums(rows[i], i, MyHeight(i)))}
LEMMA ShowOut == ASSUME NEW i \in Sender PROVE Batch(ShowSums(i), Showing(i)) /\ OnChannels(Showing(i))
<1>1. Msg(Star(i, SP), "opening", Sums(rows[i], i, MyHeight(i))) \in Showing(i)
  BY DEF Showing
<1>2. Batch(ShowSums(i), Showing(i))
  BY <1>1, BatchOne, BatchWhen DEF ShowSums
<1> QED BY <1>2, Sockets DEF OnChannels, Showing, Msg

Revealing(i) == {Msg(Reveal, "columns", Got(i, 1))} \cup Showing(i)
LEMMA TurnOut ==
  ASSUME Queues(wire), NEW i \in Sender, Turn(i)
  PROVE  /\ i < N-1 => Moved(i, {}, "drive")
         /\ ~(i < N-1) => Moved(i, Revealing(i), "done")
<1>1. /\ At(i, "turn")
      /\ i < N-1 => Move(i, <<>>, "drive")
      /\ ~(i < N-1) => Move(i, <<Msg(Reveal, "columns", Got(i, 1))>> \o ShowSums(i), "done")
  BY DEF Turn
<1>2. i < N-1 => Moved(i, {}, "drive")
  BY <1>1, SilentOut
<1>3. ASSUME ~(i < N-1) PROVE Moved(i, Revealing(i), "done")
  <2>1. Batch(ShowSums(i), Revealing(i))
    BY ShowOut, BatchWider DEF Revealing
  <2>2. Batch(<<Msg(Reveal, "columns", Got(i, 1))>>, Revealing(i))
    BY BatchOne DEF Revealing
  <2>3. OnChannels(Revealing(i))
    BY ShowOut, Sockets DEF OnChannels, Revealing, Msg
  <2>4. Batch(<<Msg(Reveal, "columns", Got(i, 1))>> \o ShowSums(i), Revealing(i))
    BY <2>1, <2>2, BatchJoin
  <2> QED BY <1>1, <1>3, <2>3, <2>4, MoveAt
<1> QED BY <1>2, <1>3

Delta(k, dest) == [c \in Column |-> Networks(k, dest)[c].receiver]
Out(k, dest) == [c \in Column |-> Networks(k, dest)[c].sender]
Driving(k, got, dest) ==
  {Msg(Osn(k), "osn", got), Msg(Mesh(k, k+1), "handoff", Handed(dest, Out(k, dest), share[k]))} \cup Showing(k)
Driven(k, got, dest) == share' = [share EXCEPT ![k] = <<>>] /\ Moved(k, Driving(k, got, dest), "done")
LEMMA DriveOut ==
  ASSUME Queues(wire), NEW k \in Sender, k # N-1, Drive(k)
  PROVE  \/ share' = share /\ Moved(k, {}, "failed")
         \/ ~(MyHeight(k) < 2) /\ \E dest \in Routing(k) : \E got \in Received(k, Delta(k, dest)) : Driven(k, got, dest)
<1>1. At(k, "drive")
  BY DEF Drive
<1>2. CASE MyHeight(k) < 2
  <2>1. Move(k, <<>>, "failed") /\ share' = share
    BY <1>2 DEF Drive
  <2> QED BY <1>1, <2>1, SilentOut
<1>3. CASE ~(MyHeight(k) < 2)
  <2>0. PICK dest \in Routing(k) : \E got \in Received(k, Delta(k, dest)) :
          /\ share' = [share EXCEPT ![k] = <<>>]
          /\ Move(k, <<Msg(Osn(k), "osn", got), Msg(Mesh(k, k+1), "handoff", Handed(dest, Out(k, dest), share[k]))>> \o ShowSums(k), "done")
    BY <1>3, Zenon DEF Drive, Delta, Out
  <2>1. PICK got \in Received(k, Delta(k, dest)) :
          /\ share' = [share EXCEPT ![k] = <<>>]
          /\ Move(k, <<Msg(Osn(k), "osn", got), Msg(Mesh(k, k+1), "handoff", Handed(dest, Out(k, dest), share[k]))>> \o ShowSums(k), "done")
    BY <2>0
  <2> DEFINE S == Driving(k, got, dest)
             two == <<Msg(Osn(k), "osn", got), Msg(Mesh(k, k+1), "handoff", Handed(dest, Out(k, dest), share[k]))>>
  <2>2. Batch(two, S)
    BY BatchTwo DEF Driving
  <2>3. Batch(ShowSums(k), S)
    BY ShowOut, BatchWider DEF Driving
  <2>4. OnChannels(S)
    <3>1. k+1 \in Sender /\ k # k+1 /\ k \in 0..(N-2)
      BY Parties DEF Sender
    <3>2. Osn(k) \in Channel /\ Mesh(k, k+1) \in Channel
      BY <3>1, Sockets
    <3> QED BY <3>2, ShowOut DEF OnChannels, Driving, Msg
  <2> HIDE DEF S, two
  <2>5. Batch(two \o ShowSums(k), S)
    BY <2>2, <2>3, BatchJoin
  <2>6. Moved(k, S, "done")
    BY <1>1, <2>1, <2>4, <2>5, MoveAt DEF two
  <2>7. Driven(k, got, dest)
    BY <2>1, <2>6 DEF Driven, S
  <2> QED BY <1>3, <2>7
<1> QED BY <1>2, <1>3
-----------------------------------------------------------------------------
(* Where every party can be, and what its sockets are. *)
SpStages == {"greet", "signatures", "keys", "hashes", "seed", "cascade", "masked", "round", "reveal",
  "openings", "done", "failed"}
SenderStages == {"salt", "session", "spsig", "spkey", "hashing", "psi", "result", "peerKeys", "peerCommits", "opens",
  "turn", "drive", "done", "failed"}
StagesOf(p) == IF p = SP THEN SpStages
  ELSE (SenderStages \ (IF p = 0 THEN {"turn"} ELSE {"opens"})) \ (IF p = N-1 THEN {"drive"} ELSE {})
Stationed == stage \in [Party -> Stages] /\ \A p \in Party : stage[p] \in StagesOf(p)
Rounds ==
  /\ round \in 0..(N-1)
  /\ stage[SP] \in {"greet", "signatures", "keys", "hashes", "seed", "masked"} => round = 0
  /\ stage[SP] = "cascade" => round # 0
  /\ stage[SP] = "round" => round # N-1
  /\ stage[SP] = "reveal" => round = N-1
Wired == linked \in [Party -> Nat] /\ \A p \in Party : linked[p] <= Len(Links(p))
Shape == conf \in Confs /\ csv \in Inputs /\ Queues(wire) /\ Stationed /\ Rounds /\ Wired

\* A party has as many sockets as Links lists.
LEMMA LinkCount == \A p \in Party : Len(Links(p)) \in Nat
<1> SUFFICES ASSUME NEW p \in Party PROVE Len(Links(p)) \in Nat
  OBVIOUS
<1>1. ASSUME NEW S, NEW s, Batch(s, S) PROVE Len(s) \in Nat
  BY <1>1, BatchSeq
<1>2. CASE p = SP
  <2> DEFINE a == [n \in 1..N |-> Pair("star", n-1, SP)]
             b == [n \in 1..N |-> LateLink(n-1)]
             S == {Pair("star", n-1, SP) : n \in 1..N} \cup {LateLink(n-1) : n \in 1..N}
  <2>1. a \in [1..N -> S] /\ b \in [1..N -> S]
    OBVIOUS
  <2>2. Links(p) = a \o b
    BY <1>2 DEF Links
  <2> HIDE DEF a, b, S
  <2>3. Batch(a \o b, S)
    BY <2>1, BatchRow, BatchJoin, Parties
  <2> QED BY <1>1, <2>2, <2>3
<1>3. CASE p # SP
  <2> DEFINE a == [n \in 1..p |-> Pair("mesh", n-1, p)]
             b == [n \in 1..(N-1-p) |-> Pair("mesh", p, p+n)]
             f == Pair("star", p, SP)
             l == LateLink(p)
             S == {Pair("mesh", n-1, p) : n \in 1..p} \cup {Pair("mesh", p, p+n) : n \in 1..(N-1-p)} \cup {f, l}
  <2>1. p \in Nat /\ N-1-p \in Nat
    BY <1>3, Parties
  <2>2. a \in [1..p -> S] /\ b \in [1..(N-1-p) -> S] /\ f \in S /\ l \in S
    OBVIOUS
  <2>3. Links(p) = <<f>> \o (a \o b) \o <<l>>
    BY <1>3 DEF Links, MeshLinks
  <2> HIDE DEF a, b, f, l, S
  <2>4. Batch(a, S) /\ Batch(b, S) /\ Batch(<<f>>, S) /\ Batch(<<l>>, S)
    BY <2>1, <2>2, BatchRow, BatchOne
  <2>5. Batch(<<f>> \o (a \o b), S)
    BY <2>4, BatchJoin
  <2>6. Batch(<<f>> \o (a \o b) \o <<l>>, S)
    BY <2>4, <2>5, BatchJoin
  <2> QED BY <1>1, <2>3, <2>6
<1> QED BY <1>2, <1>3

LEMMA StagesOfAll ==
  /\ \A p \in Party : StagesOf(p) \subseteq Stages /\ "failed" \in StagesOf(p) /\ Early(p) \subseteq StagesOf(p)
  /\ StagesOf(SP) = SpStages
  /\ \A i \in Sender : {"peerKeys", "peerCommits", "done"} \subseteq StagesOf(i)
  /\ \A i \in Sender : (i = 0 => "opens" \in StagesOf(i)) /\ (i # 0 => "turn" \in StagesOf(i))
  /\ \A i \in Sender : i # N-1 => "drive" \in StagesOf(i)
<1>1. \A p \in Party : StagesOf(p) \subseteq Stages /\ "failed" \in StagesOf(p) /\ Early(p) \subseteq StagesOf(p)
  BY DEF StagesOf, SpStages, SenderStages, Stages, Early
<1>2. StagesOf(SP) = SpStages
  BY DEF StagesOf
<1>3. \A i \in Sender : {"peerKeys", "peerCommits", "done"} \subseteq StagesOf(i)
  BY Parties DEF StagesOf, SenderStages
<1>4. \A i \in Sender : (i = 0 => "opens" \in StagesOf(i)) /\ (i # 0 => "turn" \in StagesOf(i))
  BY Parties DEF StagesOf, SenderStages
<1>5. \A i \in Sender : i # N-1 => "drive" \in StagesOf(i)
  BY Parties DEF StagesOf, SenderStages
<1> QED BY <1>1, <1>2, <1>3, <1>4, <1>5

\* A party that ends a stage is in another of its stages.
LEMMA StationedNext ==
  ASSUME Stationed, NEW p \in Party, NEW next \in StagesOf(p), Settled(p, next)
  PROVE  Stationed' /\ \A q \in Party : q # p => stage'[q] = stage[q]
<1>1. PICK s \in {next, "failed"} : stage' = [stage EXCEPT ![p] = s]
  BY DEF Settled
<1>2. s \in StagesOf(p) /\ s \in Stages
  BY <1>1, StagesOfAll
<1> QED BY <1>1, <1>2 DEF Stationed

\* A step of a sender leaves the round of the provider alone.
LEMMA SenderShape ==
  ASSUME Shape, NEW i \in Sender, NEW S, NEW next \in StagesOf(i), Moved(i, S, next), round' = round
  PROVE  Shape'
<1>1. Queues(wire') /\ Settled(i, next)
  BY DEF Moved, Posted
<1>2. Stationed' /\ stage'[SP] = stage[SP]
  BY <1>1, Parties, StationedNext DEF Shape
<1>3. Rounds'
  BY <1>2 DEF Shape, Rounds, SP
<1>4. conf' = conf /\ csv' = csv /\ Wired'
  BY <1>1 DEF Settled, Shape, Wired
<1> QED BY <1>1, <1>2, <1>3, <1>4 DEF Shape

LEMMA ProviderShape ==
  ASSUME Shape, NEW S, NEW next \in SpStages, Moved(SP, S, next), round' \in 0..(N-1),
         next \in {"greet", "signatures", "keys", "hashes", "seed", "masked"} => round' = 0,
         next = "cascade" => round' # 0, next = "round" => round' # N-1, next = "reveal" => round' = N-1
  PROVE  Shape'
<1>1. Queues(wire') /\ Settled(SP, next)
  BY DEF Moved, Posted
<1>2. Stationed'
  BY <1>1, Parties, StationedNext, StagesOfAll DEF Shape
<1>3. stage'[SP] \in {next, "failed"}
  BY <1>1, Parties DEF Settled, Shape, Stationed
<1>4. Rounds'
  BY <1>3 DEF Rounds, SP
<1>5. conf' = conf /\ csv' = csv /\ Wired'
  BY <1>1 DEF Settled, Shape, Wired
<1> QED BY <1>1, <1>2, <1>4, <1>5 DEF Shape

LEMMA QuietShape == ASSUME Shape, Quiet, Wired' PROVE Shape'
<1>1. Queues(wire') /\ conf' = conf /\ csv' = csv /\ round' = round
  BY DEF Quiet, Posted, data
<1>2. CASE stage' = stage
  <2>1. Stationed' /\ Rounds'
    BY <1>1, <1>2 DEF Shape, Stationed, Rounds
  <2> QED BY <1>1, <2>1 DEF Shape
<1>3. CASE stage' # stage
  <2>0. PICK p \in Party : \E s \in Early(p) \cup {"failed"} : Advance(p, s)
    BY <1>3 DEF Quiet
  <2>1. PICK s \in Early(p) \cup {"failed"} : Advance(p, s)
    BY <2>0
  <2>2. stage' = [stage EXCEPT ![p] = s] /\ s \in StagesOf(p) /\ s \in Stages
    BY <2>1, StagesOfAll DEF Advance
  <2>3. Stationed'
    BY <2>2 DEF Shape, Stationed
  <2>4. Rounds'
    <3>1. CASE p # SP
      <4>1. stage'[SP] = stage[SP]
        BY <2>2, <3>1, Parties DEF Shape, Stationed
      <4> QED BY <1>1, <4>1 DEF Shape, Rounds, SP
    <3>2. CASE p = SP
      <4>1. stage'[SP] = s
        BY <2>2, <3>2, Parties DEF Shape, Stationed
      <4>2. s = "failed" \/ (/\ stage[SP] \in {"greet", "signatures", "keys", "hashes", "seed"}
                           /\ s \in {"greet", "signatures", "keys", "hashes", "seed"})
        BY <2>1, <3>2 DEF Advance, Early
      <4> QED BY <1>1, <4>1, <4>2 DEF Shape, Rounds, SP
    <3> QED BY <3>1, <3>2
  <2> QED BY <1>1, <2>3, <2>4 DEF Shape
<1> QED BY <1>2, <1>3
-----------------------------------------------------------------------------
\* The steps that make, carry or open something: the others are Quiet.
Loud == Hashes \/ Seed \/ Cascade \/ Masked \/ Round \/ Revealed \/ Openings
LoudOf(i) == Result(i) \/ PeerKeys(i) \/ PeerCommits(i) \/ (i = 0 /\ Opens) \/ Turn(i) \/ Drive(i)

LEMMA ConnectWired == ASSUME Wired, NEW p \in Party, NEW q \in Party, p < q, Connect(p, q) PROVE Wired'
<1>1. linked' = [linked EXCEPT ![p] = @ + 1, ![q] = @ + 1] /\ p # q
  BY Parties DEF Connect, Party
<1>2. ~Linked(p) /\ ~Linked(q)
  BY DEF Connect, AtLink
<1>3. linked[p] + 1 <= Len(Links(p)) /\ linked[q] + 1 <= Len(Links(q))
  BY <1>2, LinkCount DEF Wired, Linked
<1>4. linked' \in [Party -> Nat]
  BY <1>1 DEF Wired
<1>5. \A r \in Party : linked'[r] <= Len(Links(r))
  BY <1>1, <1>3 DEF Wired
<1> QED BY <1>4, <1>5 DEF Wired

\* Every step is of one kind.
LEMMA StepKinds ==
  ASSUME Shape, [Next]_vars
  PROVE  (Quiet /\ Wired') \/ Loud \/ \E i \in Sender : LoudOf(i)
<1>0. Queues(wire) /\ Wired
  BY DEF Shape
<1>1. CASE UNCHANGED vars
  <2>1. UNCHANGED <<conf, csv, stage, wire, data>> /\ linked' = linked
    BY <1>1 DEF vars, data
  <2> QED BY <1>0, <2>1, QuietStay DEF Wired
<1>2. CASE SpNext
  <2>1. CASE Greet \/ Signatures \/ Keys
    BY <1>0, <2>1, QuietProvider DEF Wired
  <2>2. CASE Loud
    BY <2>2
  <2> QED BY <1>2, <2>1, <2>2 DEF SpNext, Loud
<1>3. ASSUME NEW i \in Sender, SenderNext(i) PROVE (Quiet /\ Wired') \/ LoudOf(i)
  <2>1. CASE Salt(i) \/ Session(i) \/ SpSig(i) \/ SpKey(i) \/ Hashing(i) \/ Psi(i)
    BY <1>0, <2>1, QuietSender DEF Wired
  <2>2. CASE LoudOf(i)
    BY <2>2
  <2> QED BY <1>3, <2>1, <2>2 DEF SenderNext, LoudOf
<1>4. ASSUME NEW p \in Party, NEW q \in Party, p < q, Connect(p, q) PROVE Quiet /\ Wired'
  BY <1>0, <1>4, QuietRest, ConnectWired
<1>5. ASSUME NEW p \in Party, Throw(p) \/ Die(p) PROVE Quiet /\ Wired'
  BY <1>0, <1>5, QuietRest DEF Wired
<1> QED BY <1>1, <1>2, <1>3, <1>4, <1>5 DEF Next, Run

\* Shape is an invariant.
LEMMA ShapeInit == ASSUME Init PROVE Shape
<1>1. Queues(wire)
  <2>1. Queue(<<>>) /\ ToSet(<<>>) = {}
    <3>1. ToSet(<<>>) = {}
      BY DEF ToSet
    <3> QED BY <3>1 DEF Queue
  <2>2. wire = [ch \in Channel |-> <<>>]
    BY DEF Init
  <2> QED BY <2>1, <2>2 DEF Queues
<1>2. Stationed /\ Rounds
  <2>1. stage = [p \in Party |-> IF p = SP THEN "greet" ELSE IF conf.salted THEN "salt" ELSE "session"] /\ round = 0
    BY DEF Init
  <2>2. \A p \in Party : stage[p] \in Early(p)
    BY <2>1 DEF Early
  <2>3. Stationed
    BY <2>1, <2>2, StagesOfAll DEF Stationed
  <2>4. stage[SP] = "greet"
    BY <2>1, Parties
  <2> QED BY <2>1, <2>3, <2>4, Parties DEF Rounds, SP
<1>3. Wired
  <2>1. \A p \in Party : 0 <= Len(Links(p))
    BY LinkCount
  <2> QED BY <2>1 DEF Wired, Init
<1> QED BY <1>1, <1>2, <1>3 DEF Init, Shape

LEMMA ShapeLoud == ASSUME Shape, Loud PROVE Shape'
<1>0. Queues(wire) /\ N \in Nat /\ N >= 2 /\ round \in 0..(N-1)
  BY Parties DEF Shape, Rounds
<1>1. ASSUME NEW c, Telling(c), round' = 0 PROVE Shape'
  <2>1. PICK next \in {"failed", "masked"} : Moved(SP, ToAll("result", c), next)
    BY <1>1 DEF Telling
  <2>2. next \in SpStages
    BY DEF SpStages
  <2> QED BY <1>0, <1>1, <2>1, <2>2, ProviderShape
<1>2. CASE Hashes
  <2>1. At(SP, "hashes") /\ Tell(SeenByAll) /\ round' = round
    BY <1>2 DEF Hashes
  <2>2. round = 0
    BY <2>1 DEF At, Shape, Rounds
  <2> QED BY <1>0, <1>1, <2>1, <2>2, TellOut
<1>3. CASE Seed
  <2>1. Moved(SP, Quietly, "cascade") /\ round' = 1
    BY <1>0, <1>3, SeedOut DEF Seed
  <2>2. "cascade" \in SpStages
    BY DEF SpStages
  <2> QED BY <1>0, <2>1, <2>2, ProviderShape
<1>4. CASE Cascade
  <2>1. round # 0
    BY <1>4 DEF Cascade, At, Shape, Rounds
  <2>2. round \in 1..(N-1)
    BY <1>0, <2>1
  <2>3. CASE round = N-1
    BY <1>0, <1>1, <1>4, <2>2, <2>3, CascadeOut
  <2>4. CASE round # N-1
    <3>1. Moved(SP, Quietly, "cascade") /\ round' = round + 1
      BY <1>0, <1>4, <2>2, <2>4, CascadeOut
    <3>2. "cascade" \in SpStages /\ round' \in 0..(N-1) /\ round' # 0
      BY <1>0, <2>2, <2>4, <3>1 DEF SpStages
    <3> QED BY <3>1, <3>2, ProviderShape
  <2> QED BY <2>3, <2>4
<1>5. CASE Masked
  <2>1. At(SP, "masked") /\ Move(SP, <<>>, "round") /\ round' = round
    BY <1>5 DEF Masked
  <2>2. round = 0
    BY <2>1 DEF At, Shape, Rounds
  <2>3. Moved(SP, {}, "round") /\ "round" \in SpStages /\ 0 # N-1
    BY <1>0, <2>1, SilentOut DEF SpStages
  <2> QED BY <1>0, <2>1, <2>2, <2>3, ProviderShape
<1>6. CASE Round
  <2> DEFINE next == IF round + 1 = N-1 THEN "reveal" ELSE "round"
  <2>1. At(SP, "round") /\ Move(SP, <<>>, next) /\ round' = round + 1
    BY <1>6 DEF Round
  <2>2. round # N-1
    BY <2>1 DEF At, Shape, Rounds
  <2>3. round' \in 0..(N-1) /\ next \in SpStages /\ (next = "reveal" => round' = N-1) /\ (next = "round" => round' # N-1)
    BY <1>0, <2>1, <2>2 DEF SpStages
  <2>4. next \notin {"greet", "signatures", "keys", "hashes", "seed", "masked", "cascade"}
    OBVIOUS
  <2> HIDE DEF next
  <2>5. Moved(SP, {}, next)
    BY <1>0, <2>1, SilentOut
  <2> QED BY <2>3, <2>4, <2>5, ProviderShape
<1>7. ASSUME NEW s, At(SP, s), NEW next \in {"openings", "done", "failed"}, Move(SP, <<>>, next), round' = round
      PROVE  Shape'
  <2>1. Moved(SP, {}, next)
    BY <1>0, <1>7, SilentOut
  <2>2. next \in SpStages
    BY DEF SpStages
  <2> QED BY <1>0, <1>7, <2>1, <2>2, ProviderShape
<1>8. CASE Revealed
  <2>1. At(SP, "reveal") /\ (Move(SP, <<>>, "openings") \/ Move(SP, <<>>, "done")) /\ round' = round
    BY <1>8 DEF Revealed
  <2> QED BY <1>7, <2>1
<1>9. CASE Openings
  <2>1. At(SP, "openings") /\ (Move(SP, <<>>, "done") \/ Move(SP, <<>>, "failed")) /\ round' = round
    BY <1>9 DEF Openings
  <2> QED BY <1>7, <2>1
<1> QED BY <1>2, <1>3, <1>4, <1>5, <1>6, <1>8, <1>9 DEF Loud

LEMMA ShapeLoudOf == ASSUME Shape, NEW i \in Sender, LoudOf(i) PROVE Shape'
<1>0. Queues(wire) /\ stage[i] \in StagesOf(i) /\ {"peerKeys", "peerCommits", "done", "failed"} \subseteq StagesOf(i)
  BY Parties, StagesOfAll DEF Shape, Stationed
<1>1. CASE Result(i)
  <2>1. round' = round
    BY <1>1 DEF Result
  <2>2. CASE Moved(i, {}, "failed")
    BY <1>0, <2>1, <2>2, SenderShape
  <2>3. CASE Contributing(i, Got(i, 1))
    BY <1>0, <2>1, <2>3, SenderShape DEF Contributing
  <2> QED BY <1>0, <1>1, <2>2, <2>3, ResultOut
<1>2. CASE PeerKeys(i)
  <2>1. round' = round
    BY <1>2 DEF PeerKeys, data
  <2> QED BY <1>0, <1>2, <2>1, PeerKeysOut, SenderShape
<1>3. CASE PeerCommits(i)
  <2>1. round' = round
    BY <1>3 DEF PeerCommits
  <2>2. (IF i = 0 THEN "opens" ELSE "turn") \in StagesOf(i)
    BY StagesOfAll
  <2>3. Moved(i, ShowsMask(i), IF i = 0 THEN "opens" ELSE "turn")
    BY <1>0, <1>3, PeerCommitsOut
  <2> QED BY <2>1, <2>2, <2>3, SenderShape
<1>4. CASE i = 0 /\ Opens
  <2>1. round' = round /\ At(0, "opens") /\ (Move(0, <<>>, "drive") \/ Move(0, <<>>, "failed"))
    BY <1>4 DEF Opens
  <2>2. Moved(i, {}, "drive") \/ Moved(i, {}, "failed")
    BY <1>0, <1>4, <2>1, SilentOut
  <2>3. "drive" \in StagesOf(i)
    BY <1>4, Parties, StagesOfAll
  <2> QED BY <1>0, <2>1, <2>2, <2>3, SenderShape
<1>5. CASE Turn(i)
  <2>1. round' = round
    BY <1>5 DEF Turn
  <2>2. CASE i < N-1
    <3>1. "drive" \in StagesOf(i)
      BY <2>2, Parties, StagesOfAll
    <3> QED BY <1>0, <1>5, <2>1, <2>2, <3>1, TurnOut, SenderShape
  <2>3. CASE ~(i < N-1)
    BY <1>0, <1>5, <2>1, <2>3, TurnOut, SenderShape
  <2> QED BY <2>2, <2>3
<1>6. CASE Drive(i)
  <2>1. round' = round /\ stage[i] = "drive"
    BY <1>6 DEF Drive, At
  <2>2. i # N-1
    BY <1>0, <2>1, Parties DEF StagesOf
  <2>3. (\E S : Moved(i, S, "done")) \/ Moved(i, {}, "failed")
    BY <1>0, <1>6, <2>2, DriveOut DEF Driven
  <2> QED BY <1>0, <2>1, <2>3, SenderShape
<1> QED BY <1>1, <1>2, <1>3, <1>4, <1>5, <1>6 DEF LoudOf

LEMMA ShapeNext == ASSUME Shape, [Next]_vars PROVE Shape'
<1>1. CASE Quiet /\ Wired'
  BY <1>1, QuietShape
<1>2. CASE Loud
  BY <1>2, ShapeLoud
<1>3. CASE \E i \in Sender : LoudOf(i)
  BY <1>3, ShapeLoudOf
<1> QED BY <1>1, <1>2, <1>3, StepKinds
-----------------------------------------------------------------------------
(* Heights, contributions and shares. *)
HeightOf(pad, common) == Max({Cardinality(common), pad})
ContributionOf(file, pad, i, common) ==
  LET mine == Kept(file, {n \in DOMAIN file : file[n] \in common}) IN
  [c \in Own(i) |-> [k \in 1..HeightOf(pad, common) |->
     IF k > Cardinality(common) THEN Block("dummy", i, k, c)
     ELSE IF k <= Len(mine) THEN Block("payload", i, mine[k], c) ELSE {}]]

LEMMA HeightIs == \A common : Height(common) = HeightOf(conf.pad, common)
BY DEF Height, HeightOf
LEMMA ContributionIs == \A i, common : Contribution(i, common) = ContributionOf(csv[i], conf.pad, i, common)
<1> SUFFICES ASSUME NEW i, NEW common
    PROVE  Contribution(i, common) = ContributionOf(csv[i], conf.pad, i, common)
  OBVIOUS
<1> QED BY HeightIs, Zenon DEF Contribution, ContributionOf, Mine

LEMMA HeightNat ==
  ASSUME NEW pad \in Nat, NEW common, IsFiniteSet(common)
  PROVE  HeightOf(pad, common) \in Nat /\ HeightOf(pad, common) >= Cardinality(common) /\ HeightOf(pad, common) >= pad
BY FS_CardinalityType, MaxOfTwo DEF HeightOf

Spanning(f, cols, h) == f = [c \in cols |-> f[c]] /\ \A c \in cols : IsColumn(f[c], h)
IsShare(f, h) == Spanning(f, Column, h)
SumOf(x, f, g, cols, h) == \A c \in cols : \A j \in 1..h : x[c][j] = Xor(f[c][j], g[c][j])

\* A contribution is as high as the intersection, padded.
LEMMA ContributionShape ==
  ASSUME NEW file, NEW pad, NEW i, NEW common
  PROVE  Spanning(ContributionOf(file, pad, i, common), Own(i), HeightOf(pad, common))
<1> DEFINE mine == Kept(file, {n \in DOMAIN file : file[n] \in common})
           h == HeightOf(pad, common)
           f == ContributionOf(file, pad, i, common)
           g(c) == [k \in 1..h |-> IF k > Cardinality(common) THEN Block("dummy", i, k, c)
                      ELSE IF k <= Len(mine) THEN Block("payload", i, mine[k], c) ELSE {}]
<1>1. f = [c \in Own(i) |-> g(c)]
  BY Zenon DEF ContributionOf
<1>2. \A c : IsColumn(g(c), h)
  BY DEF IsColumn
<1> HIDE DEF g, h, f
<1>3. Spanning(f, Own(i), h)
  BY <1>1, <1>2 DEF Spanning
<1> QED BY <1>3 DEF f, h

LEMMA ColumnLen == ASSUME NEW h \in Nat, NEW x, IsColumn(x, h) PROVE Len(x) = h /\ DOMAIN x = 1..h
<1>1. x \in [1..h -> {x[j] : j \in 1..h}]
  BY DEF IsColumn
<1> DEFINE A == {x[j] : j \in 1..h}
<1> HIDE DEF A
<1>2. x \in [1..h -> A]
  BY <1>1 DEF A
<1> QED BY <1>2, LenColumn

\* A column belongs to the sender that it names.
LEMMA Owns ==
  /\ \A i \in Sender : <<i, 1>> \in Own(i)
  /\ \A i \in Sender : \A c \in Own(i) : c \in Column /\ c[1] = i
  /\ \A c \in Column : c[1] \in Sender /\ c \in Own(c[1])
<1>1. 1 \in 1..W
  BY SizeAssumption
<1> QED BY <1>1 DEF Own, Column

\* Columns of a height, combined, are columns of that height.
LEMMA XorShape ==
  ASSUME NEW h, NEW cols, NEW f, NEW g, Spanning(f, cols, h)
  PROVE  Spanning(XorColumns(f, g), cols, h) /\ SumOf(XorColumns(f, g), f, g, cols, h)
<1> DEFINE x(c) == [k \in DOMAIN f[c] |-> Xor(f[c][k], g[c][k])]
<1>0. DOMAIN f = cols
  BY DEF Spanning
<1>1. XorColumns(f, g) = [c \in cols |-> x(c)]
  BY <1>0 DEF XorColumns
<1>2. ASSUME NEW c \in cols PROVE IsColumn(x(c), h) /\ \A j \in 1..h : x(c)[j] = Xor(f[c][j], g[c][j])
  <2>1. DOMAIN f[c] = 1..h
    BY DEF IsColumn, Spanning
  <2> QED BY <2>1 DEF IsColumn
<1> HIDE DEF x
<1>3. \A c \in cols : XorColumns(f, g)[c] = x(c)
  BY <1>1
<1> QED BY <1>1, <1>2, <1>3 DEF Spanning, SumOf

\* Masks drawn for a height are columns of that height.
LEMMA FreshShape ==
  ASSUME NEW kind, NEW i, NEW h, NEW cols
  PROVE  Spanning(Fresh(kind, i, h, cols), cols, h)
<1> DEFINE g(c) == [k \in 1..h |-> Block(kind, i, k, c)]
<1>1. Fresh(kind, i, h, cols) = [c \in cols |-> g(c)]
  BY DEF Fresh
<1>2. \A c : IsColumn(g(c), h)
  BY DEF IsColumn
<1> HIDE DEF g
<1> QED BY <1>1, <1>2 DEF Spanning

\* The height of the rows in which the provider and the senders agree.
Tall == HeightOf(conf.pad, cand)
Whole(i) == ContributionOf(csv[i], conf.pad, i, cand)
LEMMA TallNat == ASSUME Shape, IsFiniteSet(cand) PROVE Tall \in Nat
BY HeightNat, FlagAssumption DEF Tall, Shape
LEMMA WholeShape == \A i : Spanning(Whole(i), Own(i), Tall)
BY ContributionShape DEF Whole, Tall
LEMMA MyHeightIs ==
  ASSUME Shape, IsFiniteSet(cand), NEW i \in Sender, rows[i] = Whole(i)
  PROVE  MyHeight(i) = Tall
<1>1. IsColumn(Whole(i)[<<i, 1>>], Tall)
  BY WholeShape, Owns DEF Spanning
<1> QED BY <1>1, TallNat, ColumnLen DEF MyHeight

\* They change with the candidates only.
LEMMA SameTall ==
  ASSUME conf' = conf, csv' = csv, cand' = cand
  PROVE  Tall' = Tall /\ \A i : Whole(i)' = Whole(i)
BY DEF Tall, Whole
-----------------------------------------------------------------------------
(* What each stage reads. *)
LEMMA InboxOfAll ==
  ASSUME NEW is, stage[SP] \in {"hashes", "masked", "openings", "signatures"},
         is = CASE stage[SP] = "hashes" -> "set" [] stage[SP] = "masked" -> "masked"
                [] stage[SP] = "openings" -> "opening" [] OTHER -> "signature"
  PROVE  Inbox(SP) = From(Everyone, is)
<1>1. CASE stage[SP] = "hashes"
  BY <1>1 DEF Inbox, SpInbox
<1>2. CASE stage[SP] = "masked"
  BY <1>2 DEF Inbox, SpInbox
<1>3. CASE stage[SP] = "openings"
  BY <1>3 DEF Inbox, SpInbox
<1>4. CASE stage[SP] = "signatures"
  BY <1>4 DEF Inbox, SpInbox
<1> QED BY <1>1, <1>2, <1>3, <1>4

LEMMA ReadAll ==
  ASSUME Queues(wire), Arrived(SP), NEW is, Inbox(SP) = From(Everyone, is)
  PROVE  \A i \in Sender : Letter(Star(i, SP), is, Got(SP, i+1))
<1>1. DOMAIN Inbox(SP) = 1..N /\ \A n \in 1..N : Inbox(SP)[n] = [on |-> Star(n-1, SP), is |-> is]
  BY Parties DEF From, Everyone
<1>2. ASSUME NEW i \in Sender PROVE Letter(Star(i, SP), is, Got(SP, i+1))
  <2>1. i+1 \in 1..N /\ (i+1)-1 = i
    BY Parties DEF Sender
  <2>2. Inbox(SP)[i+1].on = Star(i, SP) /\ Inbox(SP)[i+1].is = is
    BY <1>1, <2>1
  <2>3. i+1 \in DOMAIN Inbox(SP) /\ Inbox(SP)[i+1].on \in Channel
    BY <1>1, <2>1, <2>2, Sockets
  <2>4. Letter(Inbox(SP)[i+1].on, Inbox(SP)[i+1].is, Got(SP, i+1))
    BY <2>3, ReadLetter
  <2> QED BY <2>2, <2>4
<1> QED BY <1>2

LEMMA ReadOne ==
  ASSUME Queues(wire), NEW p, Arrived(p), NEW ch \in Channel, NEW is, Inbox(p) = One(ch, is)
  PROVE  Letter(ch, is, Got(p, 1))
<1>1. 1 \in DOMAIN Inbox(p) /\ Inbox(p)[1].on = ch /\ Inbox(p)[1].is = is
  BY DEF One
<1>2. Letter(Inbox(p)[1].on, Inbox(p)[1].is, Got(p, 1))
  BY <1>1, ReadLetter
<1> QED BY <1>1, <1>2

LEMMA ReadPeers ==
  ASSUME Queues(wire), Arrived(0), NEW is, Inbox(0) = FromPeers(0, Peers(0), is)
  PROVE  \A n \in 1..(N-1) : Letter(Mesh(n, 0), is, Got(0, n))
<1>1. DOMAIN Peers(0) = 1..(N-1) /\ \A n \in 1..(N-1) : Peers(0)[n] = n
  BY Parties DEF Peers
<1>2. DOMAIN Inbox(0) = 1..(N-1) /\ \A n \in 1..(N-1) : Inbox(0)[n].on = Mesh(n, 0) /\ Inbox(0)[n].is = is
  <2> DEFINE q == Peers(0)
  <2>1. Inbox(0) = [n \in DOMAIN q |-> [on |-> Mesh(q[n], 0), is |-> is]]
    BY DEF FromPeers
  <2>2. DOMAIN q = 1..(N-1) /\ \A n \in 1..(N-1) : q[n] = n
    BY <1>1
  <2> HIDE DEF q
  <2>3. \A n \in 1..(N-1) : Inbox(0)[n] = [on |-> Mesh(n, 0), is |-> is]
    BY <2>1, <2>2
  <2> QED BY <2>1, <2>2, <2>3
<1>3. ASSUME NEW n \in 1..(N-1) PROVE Letter(Mesh(n, 0), is, Got(0, n))
  <2>1. n \in Sender /\ n # 0 /\ 0 \in Sender
    BY Parties DEF Sender
  <2>2. Inbox(0)[n].on \in Channel /\ n \in DOMAIN Inbox(0)
    BY <1>2, <2>1, Sockets
  <2>3. Letter(Inbox(0)[n].on, Inbox(0)[n].is, Got(0, n))
    BY <2>2, ReadLetter
  <2> QED BY <1>2, <2>3
<1> QED BY <1>3

\* What the provider has got, by its stage,
LEMMA ProviderReads ==
  ASSUME Shape, Arrived(SP)
  PROVE  /\ stage[SP] = "hashes" => \A i \in Sender : Letter(Star(i, SP), "set", Got(SP, i+1))
         /\ stage[SP] = "masked" => \A i \in Sender : Letter(Star(i, SP), "masked", Got(SP, i+1))
         /\ stage[SP] = "openings" => \A i \in Sender : Letter(Star(i, SP), "opening", Got(SP, i+1))
         /\ stage[SP] = "signatures" => \A i \in Sender : Letter(Star(i, SP), "signature", Got(SP, i+1))
         /\ stage[SP] = "seed" => Letter(Star(0, SP), "set", Got(SP, 1))
         /\ stage[SP] = "cascade" => round \in Sender /\ Letter(Star(round, SP), "psi", Got(SP, 1))
         /\ stage[SP] = "round" => round \in 0..(N-2) /\ Letter(Osn(round), "osn", Got(SP, 1))
         /\ stage[SP] = "reveal" => Letter(Reveal, "columns", Got(SP, 1))
<1>0. Queues(wire) /\ round \in 0..(N-1)
  BY DEF Shape, Rounds
<1>1. stage[SP] = "hashes" => \A i \in Sender : Letter(Star(i, SP), "set", Got(SP, i+1))
  BY <1>0, InboxOfAll, ReadAll
<1>2. stage[SP] = "masked" => \A i \in Sender : Letter(Star(i, SP), "masked", Got(SP, i+1))
  BY <1>0, InboxOfAll, ReadAll
<1>3. stage[SP] = "openings" => \A i \in Sender : Letter(Star(i, SP), "opening", Got(SP, i+1))
  BY <1>0, InboxOfAll, ReadAll
<1>4. stage[SP] = "signatures" => \A i \in Sender : Letter(Star(i, SP), "signature", Got(SP, i+1))
  BY <1>0, InboxOfAll, ReadAll
<1>5. ASSUME stage[SP] = "seed" PROVE Letter(Star(0, SP), "set", Got(SP, 1))
  <2>1. Inbox(SP) = One(Star(0, SP), "set")
    BY <1>5 DEF Inbox, SpInbox, From, One
  <2> QED BY <1>0, <2>1, ReadOne, Sockets, Parties
<1>6. ASSUME stage[SP] = "cascade" PROVE round \in Sender /\ Letter(Star(round, SP), "psi", Got(SP, 1))
  <2>1. Inbox(SP) = One(Star(round, SP), "psi")
    BY <1>6 DEF Inbox, SpInbox, From, One
  <2>2. round \in Sender
    BY <1>0, Parties DEF Sender
  <2> QED BY <1>0, <2>1, <2>2, ReadOne, Sockets
<1>7. ASSUME stage[SP] = "round" PROVE round \in 0..(N-2) /\ Letter(Osn(round), "osn", Got(SP, 1))
  <2>1. Inbox(SP) = One(Osn(round), "osn")
    BY <1>7 DEF Inbox, SpInbox
  <2>2. round \in 0..(N-2)
    BY <1>0, <1>7, Parties DEF Shape, Rounds
  <2> QED BY <1>0, <2>1, <2>2, ReadOne, Sockets
<1>8. ASSUME stage[SP] = "reveal" PROVE Letter(Reveal, "columns", Got(SP, 1))
  <2>1. Inbox(SP) = One(Reveal, "columns")
    BY <1>8 DEF Inbox, SpInbox
  <2> QED BY <1>0, <2>1, ReadOne, Sockets
<1> QED BY <1>1, <1>2, <1>3, <1>4, <1>5, <1>6, <1>7, <1>8

\* ... and what a sender has got.
LEMMA SenderReads ==
  ASSUME Shape, NEW i \in Sender, Arrived(i)
  PROVE  /\ stage[i] = "result" => Letter(Star(SP, i), "result", Got(i, 1))
         /\ stage[i] = "spsig" => Letter(Star(SP, i), "spsig", Got(i, 1))
         /\ stage[i] = "turn" => i # 0 /\ Letter(Mesh(i-1, i), "handoff", Got(i, 1))
         /\ stage[i] = "peerCommits" /\ i = 0 => \A n \in 1..(N-1) : Letter(Mesh(n, 0), "commit", Got(0, n))
         /\ stage[i] = "opens" => i = 0 /\ \A n \in 1..(N-1) : Letter(Mesh(n, 0), "open", Got(0, n))
<1>0. Queues(wire) /\ stage[i] \in StagesOf(i) /\ i # SP /\ i \in Sender
  BY Parties DEF Shape, Stationed
<1>1. ASSUME stage[i] = "result" PROVE Letter(Star(SP, i), "result", Got(i, 1))
  <2>1. Inbox(i) = One(Star(SP, i), "result")
    BY <1>0, <1>1 DEF Inbox, SenderInbox
  <2> QED BY <1>0, <2>1, ReadOne, Sockets
<1>2. ASSUME stage[i] = "spsig" PROVE Letter(Star(SP, i), "spsig", Got(i, 1))
  <2>1. Inbox(i) = One(Star(SP, i), "spsig")
    BY <1>0, <1>2 DEF Inbox, SenderInbox
  <2> QED BY <1>0, <2>1, ReadOne, Sockets
<1>3. ASSUME stage[i] = "turn" PROVE i # 0 /\ Letter(Mesh(i-1, i), "handoff", Got(i, 1))
  <2>1. i # 0
    BY <1>0, <1>3 DEF StagesOf
  <2>2. Inbox(i) = One(Mesh(i-1, i), "handoff")
    BY <1>0, <1>3, <2>1 DEF Inbox, SenderInbox
  <2>3. i-1 \in Sender /\ i-1 # i
    BY <2>1, Parties DEF Sender
  <2> QED BY <1>0, <2>1, <2>2, <2>3, ReadOne, Sockets
<1>4. ASSUME stage[i] = "peerCommits", i = 0 PROVE \A n \in 1..(N-1) : Letter(Mesh(n, 0), "commit", Got(0, n))
  <2>1. Inbox(0) = FromPeers(0, Peers(0), "commit")
    BY <1>0, <1>4 DEF Inbox, SenderInbox, Committers
  <2> QED BY <1>0, <1>4, <2>1, ReadPeers
<1>5. ASSUME stage[i] = "opens" PROVE i = 0 /\ \A n \in 1..(N-1) : Letter(Mesh(n, 0), "open", Got(0, n))
  <2>1. i = 0
    BY <1>0, <1>5 DEF StagesOf
  <2>2. Inbox(0) = FromPeers(0, Peers(0), "open")
    BY <1>0, <1>5, <2>1 DEF Inbox, SenderInbox, Committers
  <2> QED BY <1>0, <2>1, <2>2, ReadPeers
<1> QED BY <1>1, <1>2, <1>3, <1>4, <1>5
-----------------------------------------------------------------------------
(* What the parties know: once the provider has told the intersection, everything
   that is sent or kept is as high as the intersection, padded. *)
ToldStages == {"masked", "round", "reveal", "openings", "done", "failed"}
Told == stage[SP] \in ToldStages
\* A sender past the result has its rows; masks and openings are as high as they.
Late == {"peerKeys", "peerCommits", "opens", "turn", "drive"}
MaskOf(i) == Mask(i, Tall)
OpenedOf(i) == IF conf.fault = <<"reopens", i>> THEN Fresh("other", i, Tall, Own(i)) ELSE MaskOf(i)
\* What a letter of each kind says.
SoundMail(m) ==
  LET i == m.on[2] IN
  /\ m.is \in {"set", "psi"} => m.val = csv[i]
  /\ m.is = "result" => Told /\ m.val = cand
  /\ m.is = "masked" => /\ i \in Sender /\ Told /\ rows[i] = Whole(i) /\ m.val.columns = XorColumns(Whole(i), MaskOf(i))
                        /\ (conf.integrity => m.val.claim = Sums(Whole(i), i, Tall))
  /\ m.is = "commit" => Told /\ m.val = MaskOf(i)
  /\ m.is = "open" => Told /\ m.val = OpenedOf(i)
  /\ m.is \in {"osn", "handoff", "columns"} => Told /\ Tall >= 2 /\ IsShare(m.val, Tall)

MailKnown == \A m \in Flight(wire) : SoundMail(m)
RowsKnown == DOMAIN rows = Sender /\ \A i \in Sender : rows[i] = <<>> \/ (Told /\ rows[i] = Whole(i))
LateKnown == \A i \in Sender : stage[i] \in Late => Told /\ rows[i] = Whole(i)
BoundKnown == stage[0] = "opens" => \A n \in 1..(N-1) : bound[n] = MaskOf(n)
ShareKnown == DOMAIN share = Party /\ \A p \in Party : share[p] = <<>> \/ (Told /\ IsShare(share[p], Tall))
Shuffling == {"round", "reveal", "openings"}
SpKnown == stage[SP] \in Shuffling =>
  /\ IsShare(share[SP], Tall) 
  /\ \A i \in Sender : rows[i] = Whole(i) /\ (conf.integrity => claims[i] = Sums(Whole(i), i, Tall))
DriveKnown == \A i \in Sender : stage[i] = "drive" => IsShare(share[i], Tall)
TableKnown == table = NoTable \/ (Told /\ IsShare(table, Tall))
\* All of it together.
Known ==
  /\ IsFiniteSet(cand)
  /\ MailKnown /\ RowsKnown /\ LateKnown /\ BoundKnown /\ ShareKnown /\ SpKnown /\ DriveKnown /\ TableKnown

\* A letter on the way says what SoundMail says.
LEMMA LetterSound ==
  ASSUME MailKnown, NEW ch, NEW is, NEW val, Letter(ch, is, val)
  PROVE  /\ is \in {"set", "psi"} => val = csv[ch[2]]
         /\ is = "result" => Told /\ val = cand
         /\ is = "masked" => Told /\ rows[ch[2]] = Whole(ch[2]) /\ val.columns = XorColumns(Whole(ch[2]), MaskOf(ch[2]))
                             /\ (conf.integrity => val.claim = Sums(Whole(ch[2]), ch[2], Tall))
         /\ is = "commit" => Told /\ val = MaskOf(ch[2])
         /\ is = "open" => Told /\ val = OpenedOf(ch[2])
         /\ is \in {"osn", "handoff", "columns"} => Told /\ Tall >= 2 /\ IsShare(val, Tall)
<1>1. PICK m \in Flight(wire) : m.on = ch /\ m.is = is /\ m.val = val
  BY DEF Letter
<1>2. SoundMail(m)
  BY DEF MailKnown
<1> QED BY <1>1, <1>2 DEF SoundMail

\* Steps that leave the intersection alone leave everything as high as it was.
Steady == conf' = conf /\ csv' = csv /\ cand' = cand /\ (Told => Told')
Growing == \A i \in Sender : rows'[i] = rows[i] \/ rows'[i] = Whole(i)

LEMMA SameMasks == ASSUME Steady PROVE \A i : MaskOf(i)' = MaskOf(i) /\ OpenedOf(i)' = OpenedOf(i)
BY SameTall DEF Steady, MaskOf, OpenedOf

\* Each part stays when what it is about does.
LEMMA SoundStays ==
  ASSUME Steady, Growing, RowsKnown, NEW m, SoundMail(m)
  PROVE  SoundMail(m)'
<1> DEFINE i == m.on[2]
<1>1. Tall' = Tall /\ Whole(i)' = Whole(i) /\ MaskOf(i)' = MaskOf(i) /\ OpenedOf(i)' = OpenedOf(i)
  BY SameTall, SameMasks DEF Steady
<1>2. Told => Told'
  BY DEF Steady
<1>3. m.is = "masked" => i \in Sender /\ Told /\ rows[i] = Whole(i) /\ rows'[i] = Whole(i)
  BY DEF SoundMail, Growing
<1>4. conf' = conf /\ csv' = csv /\ cand' = cand
  BY DEF Steady
<1>5. /\ m.is \in {"set", "psi"} => m.val = csv'[i]
      /\ m.is = "result" => Told' /\ m.val = cand'
  BY <1>2, <1>4 DEF SoundMail
<1>6. m.is = "masked" => i \in Sender /\ Told' /\ rows'[i] = Whole(i)' /\ m.val.columns = XorColumns(Whole(i)', MaskOf(i)')
                         /\ (conf'.integrity => m.val.claim = Sums(Whole(i)', i, Tall'))
  BY <1>1, <1>2, <1>3, <1>4 DEF SoundMail
<1>7. /\ m.is = "commit" => Told' /\ m.val = MaskOf(i)'
      /\ m.is = "open" => Told' /\ m.val = OpenedOf(i)'
  BY <1>1, <1>2 DEF SoundMail
<1>8. m.is \in {"osn", "handoff", "columns"} => Told' /\ Tall' >= 2 /\ IsShare(m.val, Tall')
  BY <1>1, <1>2 DEF SoundMail
<1> QED BY <1>5, <1>6, <1>7, <1>8 DEF SoundMail

LEMMA RowsStay == ASSUME Steady, RowsKnown, rows' = rows PROVE RowsKnown' /\ Growing
BY SameTall DEF Steady, RowsKnown, Growing

LEMMA LateStays ==
  ASSUME Steady, Growing, LateKnown, \A i \in Sender : stage'[i] \in Late => stage[i] \in Late
  PROVE  LateKnown'
BY SameTall DEF Steady, LateKnown, Growing

LEMMA BoundStays ==
  ASSUME Steady, BoundKnown, bound' = bound, stage'[0] = "opens" => stage[0] = "opens"
  PROVE  BoundKnown'
BY SameMasks DEF BoundKnown

LEMMA ShareStays == ASSUME Steady, ShareKnown, share' = share PROVE ShareKnown'
BY SameTall DEF Steady, ShareKnown

LEMMA SpStays ==
  ASSUME Steady, Growing, SpKnown, claims' = claims, share'[SP] = share[SP],
         stage'[SP] \in Shuffling => stage[SP] \in Shuffling
  PROVE  SpKnown'
<1>1. Tall' = Tall /\ (\A i : Whole(i)' = Whole(i)) /\ conf' = conf
  BY SameTall DEF Steady
<1> QED BY <1>1 DEF SpKnown, Growing, SP

LEMMA DriveStays ==
  ASSUME Steady, DriveKnown,
         \A i \in Sender : stage'[i] = "drive" => stage[i] = "drive" /\ share'[i] = share[i]
  PROVE  DriveKnown'
BY SameTall DEF Steady, DriveKnown

LEMMA TableStays == ASSUME Steady, TableKnown, table' = table PROVE TableKnown'
BY SameTall DEF Steady, TableKnown
-----------------------------------------------------------------------------
\* Letters on the way stay sound when the new ones are.
LEMMA MailStays ==
  ASSUME Steady, Growing, RowsKnown, MailKnown, NEW S, Posted(S), \A m \in S : SoundMail(m)'
  PROVE  MailKnown'
<1>1. \A m \in Flight(wire) : SoundMail(m)'
  BY SoundStays DEF MailKnown
<1>2. Flight(wire') \subseteq Flight(wire) \cup S
  BY DEF Posted
<1> QED BY <1>1, <1>2 DEF MailKnown

LEMMA QuietSound == ASSUME csv' = csv PROVE \A m \in Quietly : SoundMail(m)'
<1>1. \A m \in Errands : m.is \notin {"set", "psi", "result", "masked", "commit", "open", "osn", "handoff", "columns"}
  BY DEF Errands, Msg
<1>2. \A m \in Signed : m.is \notin {"set", "psi", "result", "masked", "commit", "open", "osn", "handoff", "columns"}
  BY DEF Signed, Msg
<1>3. \A m \in Filed : m.is \in {"set", "psi"} /\ m.val = csv[m.on[2]]
  BY DEF Filed, Msg, Star
<1>4. ASSUME NEW m \in Quietly PROVE SoundMail(m)'
  <2>1. CASE m \in Errands \/ m \in Signed
    <3>1. m.is \notin {"set", "psi", "result", "masked", "commit", "open", "osn", "handoff", "columns"}
      BY <1>1, <1>2, <2>1
    <3> QED BY <3>1 DEF SoundMail
  <2>2. CASE m \in Filed
    <3>1. m.is \in {"set", "psi"} /\ m.val = csv[m.on[2]]
      BY <1>3, <2>2
    <3>2. m.is \notin {"result", "masked", "commit", "open", "osn", "handoff", "columns"}
      BY <3>1
    <3> QED BY <3>1, <3>2 DEF SoundMail
  <2> QED BY <2>1, <2>2 DEF Quietly
<1> QED BY <1>4

\* A quiet step leaves all of it true.
LEMMA QuietKnown == ASSUME Shape, Known, Quiet PROVE Known'
<1>0. conf' = conf /\ csv' = csv /\ cand' = cand /\ rows' = rows /\ claims' = claims /\ bound' = bound
      /\ share' = share /\ table' = table
  BY DEF Quiet, data
<1>1. /\ stage[SP] \in ToldStages => stage'[SP] \in ToldStages
      /\ stage'[SP] \in Shuffling => stage[SP] \in Shuffling
      /\ \A i \in Sender : /\ stage'[i] \in Late => stage[i] \in Late
                           /\ stage'[i] = "drive" => stage[i] = "drive"
                           /\ stage'[i] = "opens" => stage[i] = "opens"
  <2>1. CASE stage' = stage
    BY <2>1
  <2>2. CASE stage' # stage
    <3>0. PICK p \in Party : \E s \in Early(p) \cup {"failed"} : Advance(p, s)
      BY <2>2 DEF Quiet
    <3>1. PICK s \in Early(p) \cup {"failed"} : Advance(p, s)
      BY <3>0
    <3>2. stage' = [stage EXCEPT ![p] = s] /\ (s = "failed" \/ (stage[p] \in Early(p) /\ s \in Early(p)))
      BY <3>1 DEF Advance
    <3>3. \A q : Early(q) \cap (ToldStages \cup Late) = {}
      BY DEF Early, ToldStages, Late
    <3>4. /\ "failed" \in ToldStages /\ "failed" \notin Late /\ "failed" \notin Shuffling /\ Shuffling \subseteq ToldStages
          /\ "drive" \in Late /\ "opens" \in Late
      BY DEF ToldStages, Late, Shuffling
    <3>5. \A q \in Party : stage'[q] = IF q = p THEN s ELSE stage[q]
      BY <3>2 DEF Shape, Stationed
    <3>6. \A q \in Party : /\ stage[q] \in ToldStages => stage'[q] \in ToldStages
                           /\ stage'[q] \in Shuffling => stage[q] \in Shuffling
                           /\ stage'[q] \in Late => stage[q] \in Late
                           /\ stage'[q] = "drive" => stage[q] = "drive"
                           /\ stage'[q] = "opens" => stage[q] = "opens"
      BY <3>2, <3>3, <3>4, <3>5
    <3> QED BY <3>6, Parties
  <2> QED BY <2>1, <2>2
<1>2. Steady
  BY <1>0, <1>1 DEF Steady, Told, SP
<1>3. RowsKnown' /\ Growing
  BY <1>0, <1>2, RowsStay DEF Known
<1>4. MailKnown'
  BY <1>0, <1>2, <1>3, MailStays, QuietSound DEF Known, Quiet
<1>5. LateKnown' /\ BoundKnown'
  BY <1>0, <1>1, <1>2, <1>3, Parties, LateStays, BoundStays DEF Known
<1>6. ShareKnown' /\ SpKnown'
  BY <1>0, <1>1, <1>2, <1>3, ShareStays, SpStays DEF Known
<1>7. DriveKnown' /\ TableKnown'
  BY <1>0, <1>1, <1>2, DriveStays, TableStays DEF Known
<1> QED BY <1>0, <1>3, <1>4, <1>5, <1>6, <1>7 DEF Known
-----------------------------------------------------------------------------
\* Before the provider tells the intersection nothing depends on it.
LEMMA CandChanges ==
  ASSUME Shape, Known, ~Told, conf' = conf, csv' = csv, UNCHANGED <<rows, claims, bound, share,
         table>>, IsFiniteSet(cand'),
         stage'[SP] \notin Shuffling, \A i \in Sender : stage'[i] = stage[i],
         NEW S, Posted(S), \A m \in S : SoundMail(m)'
  PROVE  Known'
<1>1. \A i \in Sender : rows[i] = <<>> /\ stage[i] \notin Late
  BY DEF Known, RowsKnown, LateKnown
<1>2. (\A p \in Party : share[p] = <<>>) /\ table = NoTable
  BY DEF Known, ShareKnown, TableKnown
<1>3. \A m \in Flight(wire) : SoundMail(m)'
  BY DEF Known, MailKnown, SoundMail
<1>4. MailKnown'
  BY <1>3 DEF MailKnown, Posted
<1>5. RowsKnown' /\ LateKnown'
  BY <1>1 DEF Known, RowsKnown, LateKnown
<1>6. BoundKnown' /\ DriveKnown'
  BY <1>1, Parties DEF BoundKnown, DriveKnown, Late
<1>7. ShareKnown' /\ SpKnown' /\ TableKnown'
  BY <1>2 DEF Known, ShareKnown, SpKnown, TableKnown, SP
<1> QED BY <1>4, <1>5, <1>6, <1>7 DEF Known

\* What the provider's Move leaves as it was.
LEMMA SpMoves ==
  ASSUME Shape, NEW next, Settled(SP, next)
  PROVE  /\ stage'[SP] \in {next, "failed"} /\ \A i \in Sender : stage'[i] = stage[i]
         /\ conf' = conf /\ csv' = csv
BY Parties DEF Settled, Shape, Stationed

\* The step that tells the intersection, and those that ask for it.
LEMMA TellingKnown ==
  ASSUME Shape, Known, ~Told, NEW common, IsFiniteSet(common), Telling(common), UNCHANGED <<rows,
         claims, bound, share, table>>
  PROVE  Known'
<1>1. PICK next \in {"failed", "masked"} : cand' = common /\ Moved(SP, ToAll("result", common), next)
  BY DEF Telling
<1>2. Posted(ToAll("result", common)) /\ Settled(SP, next)
  BY <1>1 DEF Moved
<1>3. /\ stage'[SP] \in {next, "failed"} /\ \A i \in Sender : stage'[i] = stage[i]
      /\ conf' = conf /\ csv' = csv
  BY <1>2, SpMoves
<1>4. stage'[SP] \notin Shuffling /\ stage'[SP] \in ToldStages
  BY <1>3 DEF Shuffling, ToldStages
<1>5. Told'
  BY <1>4 DEF Told, SP
<1>6. \A m \in ToAll("result", common) : SoundMail(m)'
  <2>1. \A m \in ToAll("result", common) : m.is = "result" /\ m.val = cand'
    BY <1>1 DEF ToAll, Msg
  <2> QED BY <1>5, <2>1 DEF SoundMail
<1> QED BY <1>1, <1>2, <1>3, <1>4, <1>6, CandChanges

LEMMA AskingKnown ==
  ASSUME Shape, Known, ~Told, IsFiniteSet(cand'), Moved(SP, Quietly, "cascade"), UNCHANGED <<rows,
         claims, bound, share, table>>
  PROVE  Known'
<1>2. Posted(Quietly) /\ Settled(SP, "cascade")
  BY DEF Moved
<1>3. /\ stage'[SP] \in {"cascade", "failed"} /\ \A i \in Sender : stage'[i] = stage[i]
      /\ conf' = conf /\ csv' = csv
  BY <1>2, SpMoves
<1>4. stage'[SP] \notin Shuffling
  BY <1>3 DEF Shuffling
<1>6. \A m \in Quietly : SoundMail(m)'
  BY <1>3, QuietSound
<1> QED BY <1>2, <1>3, <1>4, <1>6, CandChanges

LEMMA ImageFinite == ASSUME NEW S, IsFiniteSet(S), NEW f PROVE IsFiniteSet({f[x] : x \in S})
<1> DEFINE T == {f[x] : x \in S}
           g == [x \in S |-> f[x]]
<1>1. g \in Surjection(S, T)
  BY DEF Surjection
<1> HIDE DEF g, T
<1>2. IsFiniteSet(T)
  BY <1>1, FS_Surjection
<1> QED BY <1>2 DEF T

\* The intersection is finite, as every file is.
LEMMA FilesFinite == ASSUME Shape, NEW i \in Sender PROVE IsFiniteSet(ToSet(csv[i]))
<1>1. csv[i] \in Seq(ToSet(csv[i]))
  BY FileAssumption DEF Shape
<1> DEFINE f == csv[i]
           n == Len(f)
<1>2. n \in Nat /\ f \in [1..n -> ToSet(f)] /\ ToSet(f) = {f[k] : k \in 1..n}
  BY <1>1 DEF ToSet
<1>3. IsFiniteSet(1..n)
  BY <1>2, FS_Interval, 1 \in Int
<1> HIDE DEF f, n
<1>4. IsFiniteSet({f[k] : k \in 1..n})
  BY <1>3, ImageFinite
<1> QED BY <1>2, <1>4 DEF f

LEMMA TellKnown ==
  ASSUME Shape, Known, Hashes \/ Seed \/ Cascade
  PROVE  Known'
<1>0. Queues(wire) /\ MailKnown
  BY DEF Shape, Known
<1>1. CASE Hashes
  <2>1. At(SP, "hashes") /\ Tell(SeenByAll) /\ UNCHANGED <<rows, claims, bound, share, table>>
    BY <1>1 DEF Hashes
  <2>2. stage[SP] = "hashes" /\ Arrived(SP)
    BY <2>1 DEF At
  <2>3. ~Told
    BY <2>2 DEF Told, ToldStages
  <2>4. Telling(SeenByAll)
    BY <1>0, <2>1, TellOut
  <2>5. \A n \in 1..N : Got(SP, n) = csv[n-1]
    <3>1. \A i \in Sender : Letter(Star(i, SP), "set", Got(SP, i+1))
      BY <2>2, ProviderReads
    <3>2. ASSUME NEW n \in 1..N PROVE Got(SP, n) = csv[n-1]
      <4>1. n-1 \in Sender /\ (n-1)+1 = n
        BY Parties DEF Sender
      <4>2. Letter(Star(n-1, SP), "set", Got(SP, n))
        BY <3>1, <4>1
      <4>3. Got(SP, n) = csv[Star(n-1, SP)[2]]
        BY <1>0, <4>2, LetterSound
      <4> QED BY <4>3 DEF Star
    <3> QED BY <3>2
  <2>6. IsFiniteSet(UNION {ToSet(Got(SP, n)) : n \in 1..N})
    <3>1. \A n \in 1..N : IsFiniteSet(ToSet(Got(SP, n)))
      BY <2>5, FilesFinite, Parties DEF Sender
    <3>2. IsFiniteSet(1..N)
      BY FS_Interval, Parties, 1 \in Int
    <3> DEFINE t == [n \in 1..N |-> ToSet(Got(SP, n))]
               T == {t[n] : n \in 1..N}
    <3>0. \A n \in 1..N : t[n] = ToSet(Got(SP, n))
      OBVIOUS
    <3>5. UNION T = UNION {ToSet(Got(SP, n)) : n \in 1..N}
      BY <3>0
    <3> HIDE DEF t
    <3>3. IsFiniteSet(T)
      BY <3>2, ImageFinite
    <3>6. \A x \in T : IsFiniteSet(x)
      BY <3>0, <3>1
    <3> HIDE DEF T
    <3>4. IsFiniteSet(UNION T)
      BY <3>3, <3>6, FS_UNION
    <3> QED BY <3>4, <3>5
  <2>7. IsFiniteSet(SeenByAll)
    <3>1. SeenByAll \subseteq UNION {ToSet(Got(SP, n)) : n \in 1..N}
      BY DEF SeenByAll
    <3> QED BY <2>6, <3>1, FS_Subset
  <2> QED BY <2>1, <2>3, <2>4, <2>7, TellingKnown
<1>2. CASE Seed
  <2>1. At(SP, "seed") /\ UNCHANGED <<rows, claims, bound, share, table>> /\ cand' = ToSet(Got(SP, 1))
    BY <1>2 DEF Seed
  <2>2. stage[SP] = "seed" /\ Arrived(SP)
    BY <2>1 DEF At
  <2>3. ~Told
    BY <2>2 DEF Told, ToldStages
  <2>4. Letter(Star(0, SP), "set", Got(SP, 1))
    BY <2>2, ProviderReads
  <2>5. Got(SP, 1) = csv[Star(0, SP)[2]]
    BY <1>0, <2>4, LetterSound
  <2>6. IsFiniteSet(cand')
    BY <2>1, <2>5, FilesFinite, Parties DEF Star
  <2> QED BY <1>0, <1>2, <2>1, <2>3, <2>6, SeedOut, AskingKnown
<1>3. CASE Cascade
  <2>1. At(SP, "cascade") /\ UNCHANGED <<rows, claims, bound, share, table>>
    BY <1>3 DEF Cascade
  <2>2. stage[SP] = "cascade" /\ round \in 1..(N-1)
    BY <2>1, Parties DEF At, Shape, Rounds
  <2>3. ~Told
    BY <2>2 DEF Told, ToldStages
  <2>4. IsFiniteSet(Matched)
    BY FS_Subset DEF Matched, Known
  <2>5. CASE round = N-1
    BY <1>0, <1>3, <2>1, <2>2, <2>3, <2>4, <2>5, CascadeOut, TellingKnown
  <2>6. CASE round # N-1
    BY <1>0, <1>3, <2>1, <2>2, <2>3, <2>4, <2>6, CascadeOut, AskingKnown
  <2> QED BY <2>5, <2>6
<1> QED BY <1>1, <1>2, <1>3
-----------------------------------------------------------------------------
\* A step of the provider that sends nothing, once the intersection is told.
LEMMA SpSilent ==
  ASSUME Shape, Known, NEW next \in ToldStages, Moved(SP, {}, next), cand' = cand, rows' = rows,
         bound' = bound
  PROVE  /\ Steady /\ Growing /\ RowsKnown' /\ MailKnown' /\ LateKnown' /\ BoundKnown' /\ Told'
         /\ stage'[SP] \in {next, "failed"} /\ \A i \in Sender : stage'[i] = stage[i]
<1>1. Posted({}) /\ Settled(SP, next)
  BY DEF Moved
<1>2. /\ stage'[SP] \in {next, "failed"} /\ \A i \in Sender : stage'[i] = stage[i]
      /\ conf' = conf /\ csv' = csv
  BY <1>1, SpMoves
<1>3. Told'
  BY <1>2 DEF Told, ToldStages, SP
<1>4. Steady
  BY <1>2, <1>3 DEF Steady
<1>5. RowsKnown' /\ Growing
  BY <1>4, RowsStay DEF Known
<1>6. MailKnown'
  BY <1>1, <1>4, <1>5, MailStays DEF Known
<1>7. LateKnown'
  BY <1>2, <1>4, <1>5, LateStays DEF Known
<1>8. BoundKnown'
  BY <1>2, <1>4, Parties, BoundStays DEF Known
<1> QED BY <1>2, <1>3, <1>4, <1>5, <1>6, <1>7, <1>8

LEMMA DriversStay ==
  ASSUME Known, Steady, \A i \in Sender : stage'[i] = stage[i], \A i \in Sender : share'[i] = share[i]
  PROVE  DriveKnown'
BY DriveStays DEF Known

LEMMA ShareChanges ==
  ASSUME Known, Steady, Told', NEW p \in Party, NEW val, share' = [share EXCEPT ![p] = val],
         val = <<>> \/ IsShare(val, Tall)
  PROVE  ShareKnown' /\ share'[p] = val /\ \A q \in Party : q # p => share'[q] = share[q]
<1>1. Tall' = Tall
  BY SameTall DEF Steady
<1>2. DOMAIN share = Party /\ \A q \in Party : share[q] = <<>> \/ (Told /\ IsShare(share[q], Tall))
  BY DEF Known, ShareKnown
<1>3. DOMAIN share' = Party /\ share'[p] = val /\ \A q \in Party : q # p => share'[q] = share[q]
  BY <1>2
<1>4. \A q \in Party : share'[q] = <<>> \/ (Told' /\ IsShare(share'[q], Tall'))
  BY <1>1, <1>2, <1>3
<1> QED BY <1>3, <1>4 DEF ShareKnown

\* The provider's first share: every contribution, masked.
MaskedShare == [c \in Column |-> XorColumns(Whole(c[1]), MaskOf(c[1]))[c]]
LEMMA MaskedShareIs ==
  /\ IsShare(MaskedShare, Tall)
  /\ \A c \in Column : \A j \in 1..Tall : MaskedShare[c][j] = Xor(Whole(c[1])[c][j], MaskOf(c[1])[c][j])
<1>1. ASSUME NEW c \in Column
      PROVE  IsColumn(MaskedShare[c], Tall) /\ \A j \in 1..Tall : MaskedShare[c][j] = Xor(Whole(c[1])[c][j], MaskOf(c[1])[c][j])
  <2> DEFINE x == XorColumns(Whole(c[1]), MaskOf(c[1]))
  <2>1. Spanning(x, Own(c[1]), Tall) /\ SumOf(x, Whole(c[1]), MaskOf(c[1]), Own(c[1]), Tall)
    BY WholeShape, XorShape
  <2>2. c \in Own(c[1])
    BY Owns
  <2>3. MaskedShare[c] = x[c]
    BY DEF MaskedShare
  <2> HIDE DEF x
  <2> QED BY <2>1, <2>2, <2>3 DEF Spanning, SumOf
<1>2. MaskedShare = [c \in Column |-> MaskedShare[c]]
  BY DEF MaskedShare
<1> QED BY <1>1, <1>2 DEF IsShare, Spanning

LEMMA MaskedOutcome ==
  ASSUME Shape, Known, Masked
  PROVE  /\ \A i \in Sender : rows[i] = Whole(i)
         /\ conf.integrity => \A i \in Sender : claims'[i] = Sums(Whole(i), i, Tall)
         /\ share' = [share EXCEPT ![SP] = MaskedShare]
<1>1. At(SP, "masked") /\ claims' = [i \in Sender |-> Got(SP, i+1).claim]
      /\ share' = [share EXCEPT ![SP] = [c \in Column |-> Got(SP, c[1]+1).columns[c]]]
  BY DEF Masked
<1>2. \A i \in Sender : Letter(Star(i, SP), "masked", Got(SP, i+1))
  BY <1>1, ProviderReads DEF At
<1>3. ASSUME NEW i \in Sender
      PROVE  /\ rows[i] = Whole(i) /\ Got(SP, i+1).columns = XorColumns(Whole(i), MaskOf(i))
             /\ conf.integrity => Got(SP, i+1).claim = Sums(Whole(i), i, Tall)
  <2>1. Star(i, SP)[2] = i
    BY DEF Star
  <2> QED BY <1>2, <2>1, LetterSound DEF Known
<1>4. [c \in Column |-> Got(SP, c[1]+1).columns[c]] = MaskedShare
  BY <1>3, Owns DEF MaskedShare
<1> QED BY <1>1, <1>3, <1>4

\* The provider's steps keep what is known.
LEMMA MaskedKnown == ASSUME Shape, Known, Masked PROVE Known'
<1>1. At(SP, "masked") /\ Move(SP, <<>>, "round") /\ cand' = cand /\ rows' = rows /\ bound' = bound /\ table' = table
  BY DEF Masked
<1>2. Moved(SP, {}, "round") /\ "round" \in ToldStages
  BY <1>1, SilentOut DEF Shape, ToldStages
<1>3. /\ Steady /\ Growing /\ RowsKnown' /\ MailKnown' /\ LateKnown' /\ BoundKnown' /\ Told'
      /\ stage'[SP] \in {"round", "failed"} /\ \A i \in Sender : stage'[i] = stage[i]
  BY <1>1, <1>2, SpSilent
<1>4. /\ \A i \in Sender : rows[i] = Whole(i)
      /\ conf.integrity => \A i \in Sender : claims'[i] = Sums(Whole(i), i, Tall)
      /\ share' = [share EXCEPT ![SP] = MaskedShare]
  BY MaskedOutcome
<1>5. IsShare(MaskedShare, Tall)
  BY MaskedShareIs
<1>6. ShareKnown' /\ share'[SP] = MaskedShare /\ \A q \in Party : q # SP => share'[q] = share[q]
  BY <1>3, <1>4, <1>5, Parties, ShareChanges
<1>7. DriveKnown'
  BY <1>3, <1>6, Parties, DriversStay
<1>8. SpKnown'
  <2>1. Tall' = Tall /\ (\A i : Whole(i)' = Whole(i)) /\ conf' = conf
    BY <1>3, SameTall DEF Steady
  <2> QED BY <1>1, <1>4, <1>5, <1>6, <2>1 DEF SpKnown, SP
<1>9. TableKnown'
  BY <1>1, <1>3, TableStays DEF Known
<1>10. IsFiniteSet(cand')
  BY <1>1 DEF Known
<1> QED BY <1>3, <1>6, <1>7, <1>8, <1>9, <1>10 DEF Known

LEMMA RoundKnown == ASSUME Shape, Known, Round PROVE Known'
<1> DEFINE next == IF round + 1 = N-1 THEN "reveal" ELSE "round"
<1>1. At(SP, "round") /\ Move(SP, <<>>, next) /\ UNCHANGED <<cand, rows, claims, bound, table>>
      /\ share' = [share EXCEPT ![SP] = Got(SP, 1)]
  BY DEF Round
<1>2. next \in ToldStages /\ next \in Shuffling
  BY DEF ToldStages, Shuffling
<1> HIDE DEF next
<1>3. Moved(SP, {}, next)
  BY <1>1, SilentOut DEF Shape
<1>4. /\ Steady /\ Growing /\ RowsKnown' /\ MailKnown' /\ LateKnown' /\ BoundKnown' /\ Told'
      /\ stage'[SP] \in {next, "failed"} /\ \A i \in Sender : stage'[i] = stage[i]
  BY <1>1, <1>2, <1>3, SpSilent
<1>5. IsShare(Got(SP, 1), Tall)
  <2>1. Letter(Osn(round), "osn", Got(SP, 1))
    BY <1>1, ProviderReads DEF At
  <2> QED BY <2>1, LetterSound DEF Known
<1>6. ShareKnown' /\ share'[SP] = Got(SP, 1) /\ \A q \in Party : q # SP => share'[q] = share[q]
  BY <1>1, <1>4, <1>5, Parties, ShareChanges
<1>7. DriveKnown'
  BY <1>4, <1>6, Parties, DriversStay
<1>8. SpKnown'
  <2>1. Tall' = Tall /\ (\A i : Whole(i)' = Whole(i)) /\ conf' = conf
    BY <1>4, SameTall DEF Steady
  <2>2. stage[SP] \in Shuffling
    BY <1>1 DEF At, Shuffling
  <2> QED BY <1>1, <1>5, <1>6, <2>1, <2>2 DEF Known, SpKnown, SP
<1>9. TableKnown'
  BY <1>1, <1>4, TableStays DEF Known
<1>10. IsFiniteSet(cand')
  BY <1>1 DEF Known
<1> QED BY <1>4, <1>6, <1>7, <1>8, <1>9, <1>10 DEF Known

LEMMA RevealedKnown == ASSUME Shape, Known, Revealed PROVE Known'
<1> DEFINE sum == XorColumns(share[SP], Got(SP, 1))
<1>1. /\ At(SP, "reveal") /\ UNCHANGED <<cand, rows, claims, bound>>
      /\ \/ share' = [share EXCEPT ![SP] = sum] /\ Move(SP, <<>>, "openings") /\ table' = table
         \/ table' = sum /\ Move(SP, <<>>, "done") /\ share' = share
  BY DEF Revealed
<1>2. stage[SP] \in Shuffling
  BY <1>1 DEF At, Shuffling
<1>3. IsShare(sum, Tall)
  BY <1>2, XorShape DEF Known, SpKnown, IsShare
<1> HIDE DEF sum
<1>4. IsFiniteSet(cand') /\ Queues(wire)
  BY <1>1 DEF Known, Shape
<1>5. CASE share' = [share EXCEPT ![SP] = sum] /\ Move(SP, <<>>, "openings") /\ table' = table
  <2>1. Moved(SP, {}, "openings") /\ "openings" \in ToldStages
    BY <1>1, <1>4, <1>5, SilentOut DEF ToldStages
  <2>2. /\ Steady /\ Growing /\ RowsKnown' /\ MailKnown' /\ LateKnown' /\ BoundKnown' /\ Told'
        /\ stage'[SP] \in {"openings", "failed"} /\ \A i \in Sender : stage'[i] = stage[i]
    BY <1>1, <2>1, SpSilent
  <2>3. ShareKnown' /\ share'[SP] = sum /\ \A q \in Party : q # SP => share'[q] = share[q]
    BY <1>3, <1>5, <2>2, Parties, ShareChanges
  <2>4. DriveKnown'
    BY <2>2, <2>3, Parties, DriversStay
  <2>5. SpKnown'
    <3>1. Tall' = Tall /\ (\A i : Whole(i)' = Whole(i)) /\ conf' = conf
      BY <2>2, SameTall DEF Steady
    <3> QED BY <1>1, <1>2, <1>3, <2>3, <3>1 DEF Known, SpKnown, SP
  <2>6. TableKnown'
    BY <1>5, <2>2, TableStays DEF Known
  <2> QED BY <1>4, <2>2, <2>3, <2>4, <2>5, <2>6 DEF Known
<1>6. CASE table' = sum /\ Move(SP, <<>>, "done") /\ share' = share
  <2>1. Moved(SP, {}, "done") /\ "done" \in ToldStages
    BY <1>1, <1>4, <1>6, SilentOut DEF ToldStages
  <2>2. /\ Steady /\ Growing /\ RowsKnown' /\ MailKnown' /\ LateKnown' /\ BoundKnown' /\ Told'
        /\ stage'[SP] \in {"done", "failed"} /\ \A i \in Sender : stage'[i] = stage[i]
    BY <1>1, <2>1, SpSilent
  <2>3. ShareKnown' /\ DriveKnown'
    BY <1>6, <2>2, ShareStays, DriversStay DEF Known
  <2>4. SpKnown'
    BY <2>2 DEF SpKnown, Shuffling, SP
  <2>5. TableKnown'
    <3>1. Tall' = Tall
      BY <2>2, SameTall DEF Steady
    <3> QED BY <1>3, <1>6, <2>2, <3>1 DEF TableKnown
  <2> QED BY <1>4, <2>2, <2>3, <2>4, <2>5 DEF Known
<1> QED BY <1>1, <1>5, <1>6

LEMMA OpeningsKnown == ASSUME Shape, Known, Openings PROVE Known'
<1>1. /\ At(SP, "openings") /\ UNCHANGED <<cand, rows, claims, bound, share>>
      /\ table' = share[SP] \/ table' = table
      /\ Move(SP, <<>>, "done") \/ Move(SP, <<>>, "failed")
  BY DEF Openings
<1>2. IsFiniteSet(cand') /\ Queues(wire)
  BY <1>1 DEF Known, Shape
<1>3. PICK next \in {"done", "failed"} : Moved(SP, {}, next)
  BY <1>1, <1>2, SilentOut
<1>4. next \in ToldStages
  BY DEF ToldStages
<1>5. /\ Steady /\ Growing /\ RowsKnown' /\ MailKnown' /\ LateKnown' /\ BoundKnown' /\ Told'
      /\ stage'[SP] \in {next, "failed"} /\ \A i \in Sender : stage'[i] = stage[i]
  BY <1>1, <1>3, <1>4, SpSilent
<1>6. ShareKnown' /\ DriveKnown'
  BY <1>1, <1>5, ShareStays, DriversStay DEF Known
<1>7. SpKnown'
  BY <1>5 DEF SpKnown, Shuffling, SP
<1>8. TableKnown'
  <2>1. CASE table' = share[SP]
    <3>1. Tall' = Tall
      BY <1>5, SameTall DEF Steady
    <3>2. IsShare(share[SP], Tall)
      BY <1>1 DEF At, Known, SpKnown, Shuffling
    <3> QED BY <1>5, <2>1, <3>1, <3>2 DEF TableKnown
  <2>2. CASE table' = table
    BY <1>5, <2>2, TableStays DEF Known
  <2> QED BY <1>1, <2>1, <2>2
<1> QED BY <1>2, <1>5, <1>6, <1>7, <1>8 DEF Known
-----------------------------------------------------------------------------
\* What a sender's Move leaves as it was.
LEMMA SenderMoves ==
  ASSUME Shape, NEW i \in Sender, NEW next, Settled(i, next)
  PROVE  /\ stage'[i] \in {next, "failed"} /\ \A p \in Party : p # i => stage'[p] = stage[p]
         /\ stage'[SP] = stage[SP] /\ conf' = conf /\ csv' = csv
BY Parties DEF Settled, Shape, Stationed

LEMMA SenderSteady ==
  ASSUME Shape, Known, NEW i \in Sender, NEW S, NEW next, Moved(i, S, next), cand' = cand
  PROVE  /\ Steady /\ Posted(S) /\ (Told' <=> Told) /\ IsFiniteSet(cand')
         /\ stage'[i] \in {next, "failed"} /\ \A p \in Party : p # i => stage'[p] = stage[p]
<1>1. Posted(S) /\ Settled(i, next)
  BY DEF Moved
<1>2. /\ stage'[i] \in {next, "failed"} /\ \A p \in Party : p # i => stage'[p] = stage[p]
      /\ stage'[SP] = stage[SP] /\ conf' = conf /\ csv' = csv
  BY <1>1, SenderMoves
<1>3. Told' <=> Told
  BY <1>2 DEF Told, SP
<1> QED BY <1>1, <1>2, <1>3 DEF Steady, Known

\* A sender's step that keeps the rows.
LEMMA SenderKeeps ==
  ASSUME Shape, Known, NEW i \in Sender, NEW S, NEW next, Moved(i, S, next), UNCHANGED <<cand, rows,
         claims, table>>,
         \A m \in S : SoundMail(m)', next \in Late => stage[i] \in Late, share'[SP] = share[SP]
  PROVE  RowsKnown' /\ Growing /\ MailKnown' /\ LateKnown' /\ SpKnown' /\ TableKnown'
<1>1. /\ Steady /\ Posted(S) /\ (Told' <=> Told) /\ IsFiniteSet(cand')
      /\ stage'[i] \in {next, "failed"} /\ \A p \in Party : p # i => stage'[p] = stage[p]
  BY SenderSteady
<1>2. RowsKnown' /\ Growing
  BY <1>1, RowsStay DEF Known
<1>3. MailKnown'
  BY <1>1, <1>2, MailStays DEF Known
<1>4. LateKnown'
  <2>1. \A j \in Sender : stage'[j] \in Late => stage[j] \in Late
    BY <1>1, Parties DEF Late
  <2> QED BY <1>1, <1>2, <2>1, LateStays DEF Known
<1>5. SpKnown'
  <2>1. stage'[SP] = stage[SP]
    BY <1>1, Parties
  <2> QED BY <1>1, <1>2, <2>1, SpStays DEF Known
<1>6. TableKnown'
  BY <1>1, TableStays DEF Known
<1> QED BY <1>2, <1>3, <1>4, <1>5, <1>6

\* A sender that is told the intersection makes its rows of it.
LEMMA ResultKnown == ASSUME Shape, Known, NEW i \in Sender, Result(i) PROVE Known'
<1>0. Queues(wire) /\ At(i, "result") /\ UNCHANGED <<cand, claims, bound, share, table>>
  BY DEF Shape, Result
<1>1. Told /\ Got(i, 1) = cand
  <2>1. Letter(Star(SP, i), "result", Got(i, 1))
    BY <1>0, SenderReads DEF At
  <2> QED BY <2>1, LetterSound DEF Known
<1>2. CASE rows' = rows /\ Moved(i, {}, "failed")
  <2>1. /\ Steady /\ (Told' <=> Told) /\ IsFiniteSet(cand')
        /\ stage'[i] \in {"failed"} /\ \A p \in Party : p # i => stage'[p] = stage[p]
    BY <1>0, <1>2, SenderSteady
  <2>2. RowsKnown' /\ MailKnown' /\ LateKnown' /\ SpKnown' /\ TableKnown'
    <3>1. share'[SP] = share[SP] /\ "failed" \notin Late
      BY <1>0 DEF Late
    <3> QED BY <1>0, <1>2, <3>1, SenderKeeps
  <2>3. BoundKnown' /\ DriveKnown' /\ ShareKnown'
    <3>1. stage'[0] = "opens" => stage[0] = "opens"
      BY <2>1, Parties
    <3>2. \A j \in Sender : stage'[j] = "drive" => stage[j] = "drive" /\ share'[j] = share[j]
      BY <1>0, <2>1, Parties
    <3> QED BY <1>0, <2>1, <3>1, <3>2, BoundStays, DriveStays, ShareStays DEF Known
  <2> QED BY <2>1, <2>2, <2>3 DEF Known
<1>3. CASE Contributing(i, Got(i, 1))
  <2>0. PICK m : m = Msg(Star(i, SP), "masked", MaskedOf(i, cand))
    OBVIOUS
  <2> DEFINE S == {m} \cup Quietly
  <2>1. rows' = [rows EXCEPT ![i] = Whole(i)] /\ Moved(i, S, "peerKeys")
    <3>1. Contribution(i, cand) = Whole(i)
      BY ContributionIs DEF Whole
    <3> QED BY <1>1, <1>3, <2>0, <3>1 DEF Contributing
  <2> HIDE DEF S
  <2>2. /\ Steady /\ Posted(S) /\ (Told' <=> Told) /\ IsFiniteSet(cand')
        /\ stage'[i] \in {"peerKeys", "failed"} /\ \A p \in Party : p # i => stage'[p] = stage[p]
    BY <1>0, <2>1, SenderSteady
  <2>3. Tall' = Tall /\ (\A j : Whole(j)' = Whole(j)) /\ (\A j : MaskOf(j)' = MaskOf(j)) /\ conf' = conf
    BY <2>2, SameTall, SameMasks DEF Steady
  <2>4. Growing /\ DOMAIN rows' = Sender /\ rows'[i] = Whole(i) /\ \A j \in Sender : j # i => rows'[j] = rows[j]
    BY <2>1 DEF Growing, Known, RowsKnown
  <2>5. RowsKnown'
    BY <1>1, <2>2, <2>3, <2>4 DEF RowsKnown, Known
  <2>6. MailKnown'
    <3>1. m.on[2] = i /\ m.is = "masked" /\ m.val = MaskedOf(i, cand)
      BY <2>0 DEF Msg, Star
    <3>2. m.val.columns = XorColumns(Whole(i), MaskOf(i)) /\ (conf.integrity => m.val.claim = Sums(Whole(i), i, Tall))
      <4>1. Contribution(i, cand) = Whole(i) /\ Height(cand) = Tall
        BY ContributionIs, HeightIs DEF Whole, Tall
      <4> QED BY <3>1, <4>1 DEF MaskedOf, MaskOf
    <3>3. m.val.columns = XorColumns(Whole(i)', MaskOf(i)') /\ (conf'.integrity => m.val.claim = Sums(Whole(i)', i, Tall'))
      BY <2>3, <3>2
    <3>4. Told' /\ rows'[i] = Whole(i)'
      BY <1>1, <2>2, <2>3, <2>4
    <3>5. SoundMail(m)'
      BY <3>1, <3>3, <3>4 DEF SoundMail
    <3>6. \A l \in S : SoundMail(l)'
      BY <2>2, <3>5, QuietSound DEF S, Steady
    <3> QED BY <2>2, <2>4, <3>6, MailStays DEF Known
  <2>7. LateKnown'
    <3>1. \A j \in Sender : j # i => (stage'[j] \in Late => Told' /\ rows'[j] = Whole(j)')
      BY <2>2, <2>3, <2>4, Parties DEF Known, LateKnown
    <3>2. Told' /\ rows'[i] = Whole(i)'
      BY <1>1, <2>2, <2>3, <2>4
    <3> QED BY <3>1, <3>2 DEF LateKnown
  <2>8. BoundKnown' /\ DriveKnown' /\ ShareKnown'
    <3>1. stage'[0] = "opens" => stage[0] = "opens"
      BY <2>2, Parties
    <3>2. \A j \in Sender : stage'[j] = "drive" => stage[j] = "drive" /\ share'[j] = share[j]
      BY <1>0, <2>2, Parties
    <3> QED BY <1>0, <2>2, <3>1, <3>2, BoundStays, DriveStays, ShareStays DEF Known
  <2>9. SpKnown' /\ TableKnown'
    <3>1. stage'[SP] = stage[SP] /\ share'[SP] = share[SP]
      BY <1>0, <2>2, Parties
    <3> QED BY <1>0, <2>2, <2>4, <3>1, SpStays, TableStays DEF Known
  <2> QED BY <2>2, <2>5, <2>6, <2>7, <2>8, <2>9 DEF Known
<1> QED BY <1>0, <1>2, <1>3, ResultOut

\* The height a sender computes from its rows is that of all.
LEMMA LateHeight ==
  ASSUME Shape, Known, NEW i \in Sender, stage[i] \in Late
  PROVE  Told /\ MyHeight(i) = Tall /\ Tall \in Nat /\ rows[i] = Whole(i)
<1>1. Told /\ rows[i] = Whole(i)
  BY DEF Known, LateKnown
<1>2. IsFiniteSet(cand)
  BY DEF Known
<1> QED BY <1>1, <1>2, MyHeightIs, TallNat

LEMMA PeerKeysKnown == ASSUME Shape, Known, NEW i \in Sender, PeerKeys(i) PROVE Known'
<1>0. Queues(wire) /\ At(i, "peerKeys") /\ UNCHANGED <<cand, rows, claims, bound, share, table>>
  BY DEF Shape, PeerKeys, data
<1>1. stage[i] \in Late
  BY <1>0 DEF At, Late
<1>2. Told /\ MyHeight(i) = Tall
  BY <1>1, LateHeight
<1>3. Moved(i, Commits(i), "peerCommits")
  BY <1>0, PeerKeysOut
<1>4. /\ Steady /\ Posted(Commits(i)) /\ (Told' <=> Told) /\ IsFiniteSet(cand')
      /\ stage'[i] \in {"peerCommits", "failed"} /\ \A p \in Party : p # i => stage'[p] = stage[p]
  BY <1>0, <1>3, SenderSteady
<1>5. \A m \in Commits(i) : SoundMail(m)'
  <2>1. \A m \in Commits(i) : m.is = "commit" /\ m.val = MaskOf(i) /\ m.on[2] = i
    BY <1>2 DEF Commits, ToPeers, Msg, Mesh, MaskOf
  <2>2. Told' /\ MaskOf(i)' = MaskOf(i)
    BY <1>2, <1>4, SameMasks
  <2> QED BY <2>1, <2>2 DEF SoundMail
<1>6. RowsKnown' /\ MailKnown' /\ LateKnown' /\ SpKnown' /\ TableKnown'
  <2>1. share'[SP] = share[SP]
    BY <1>0
  <2> QED BY <1>0, <1>1, <1>3, <1>5, <2>1, SenderKeeps
<1>7. BoundKnown' /\ DriveKnown' /\ ShareKnown'
  <2>1. stage'[0] = "opens" => stage[0] = "opens"
    BY <1>4, Parties
  <2>2. \A j \in Sender : stage'[j] = "drive" => stage[j] = "drive" /\ share'[j] = share[j]
    BY <1>0, <1>4, Parties
  <2> QED BY <1>0, <1>4, <2>1, <2>2, BoundStays, DriveStays, ShareStays DEF Known
<1> QED BY <1>4, <1>6, <1>7 DEF Known

LEMMA PeerCommitsKnown == ASSUME Shape, Known, NEW i \in Sender, PeerCommits(i) PROVE Known'
<1> DEFINE next == IF i = 0 THEN "opens" ELSE "turn"
<1>0. Queues(wire) /\ At(i, "peerCommits") /\ UNCHANGED <<cand, rows, claims, share, table>>
      /\ bound' = IF i = 0 THEN [n \in 1..(N-1) |-> Got(0, n)] ELSE bound
  BY DEF Shape, PeerCommits
<1>1. stage[i] \in Late
  BY <1>0 DEF At, Late
<1>2. Told /\ MyHeight(i) = Tall
  BY <1>1, LateHeight
<1>3. Moved(i, ShowsMask(i), next)
  BY <1>0, PeerCommitsOut
<1>31. next # "drive" /\ (i # 0 => next # "opens")
  OBVIOUS
<1> HIDE DEF next
<1>4. /\ Steady /\ Posted(ShowsMask(i)) /\ (Told' <=> Told) /\ IsFiniteSet(cand')
      /\ stage'[i] \in {next, "failed"} /\ \A p \in Party : p # i => stage'[p] = stage[p]
  BY <1>0, <1>3, SenderSteady
<1>5. \A m \in ShowsMask(i) : SoundMail(m)'
  <2>1. \A m \in ShowsMask(i) : m.is = "open" /\ m.val = OpenedOf(i) /\ m.on[2] = i
    BY <1>2 DEF ShowsMask, Msg, Mesh, MaskOf, OpenedOf, Opened
  <2>2. Told' /\ OpenedOf(i)' = OpenedOf(i)
    BY <1>2, <1>4, SameMasks
  <2> QED BY <2>1, <2>2 DEF SoundMail
<1>6. RowsKnown' /\ MailKnown' /\ LateKnown' /\ SpKnown' /\ TableKnown'
  <2>1. share'[SP] = share[SP]
    BY <1>0
  <2> QED BY <1>0, <1>1, <1>3, <1>5, <2>1, SenderKeeps
<1>7. BoundKnown'
  <2>1. CASE i = 0
    <3>1. \A n \in 1..(N-1) : Letter(Mesh(n, 0), "commit", Got(0, n))
      BY <1>0, <2>1, SenderReads DEF At
    <3>2. \A n \in 1..(N-1) : Got(0, n) = MaskOf(n)
      <4>1. \A n : Mesh(n, 0)[2] = n
        BY DEF Mesh
      <4> QED BY <3>1, <4>1, LetterSound DEF Known
    <3>3. \A n \in 1..(N-1) : bound'[n] = MaskOf(n) /\ MaskOf(n)' = MaskOf(n)
      BY <1>0, <1>4, <2>1, <3>2, SameMasks
    <3> QED BY <3>3 DEF BoundKnown
  <2>2. CASE i # 0
    <3>1. stage'[0] = "opens" => stage[0] = "opens"
      BY <1>4, <2>2, Parties
    <3> QED BY <1>0, <1>4, <2>2, <3>1, BoundStays DEF Known
  <2> QED BY <2>1, <2>2
<1>8. DriveKnown' /\ ShareKnown'
  <2>2. \A j \in Sender : stage'[j] = "drive" => stage[j] = "drive" /\ share'[j] = share[j]
    BY <1>0, <1>31, <1>4, Parties
  <2> QED BY <1>0, <1>4, <2>2, DriveStays, ShareStays DEF Known
<1> QED BY <1>4, <1>6, <1>7, <1>8 DEF Known
-----------------------------------------------------------------------------
\* Sender 0's first share: every mask.
MaskShare == [c \in Column |-> MaskOf(c[1])[c]]
LEMMA MaskShareIs == IsShare(MaskShare, Tall)
<1>1. ASSUME NEW c \in Column PROVE IsColumn(MaskShare[c], Tall)
  <2>1. Spanning(MaskOf(c[1]), Own(c[1]), Tall)
    BY FreshShape DEF MaskOf, Mask
  <2>2. c \in Own(c[1]) /\ MaskShare[c] = MaskOf(c[1])[c]
    BY Owns DEF MaskShare
  <2> QED BY <2>1, <2>2 DEF Spanning
<1>2. MaskShare = [c \in Column |-> MaskShare[c]]
  BY DEF MaskShare
<1> QED BY <1>1, <1>2 DEF IsShare, Spanning

Holding(p, val) == share' = [share EXCEPT ![p] = val]

\* A sender's step that changes its share and lets it drive.
LEMMA SenderShares ==
  ASSUME Shape, Known, NEW i \in Sender, stage[i] \in Late, NEW S, NEW next, Moved(i, S, next),
         next # "opens",
         UNCHANGED <<cand, rows, claims, bound, table>>, \A m \in S : SoundMail(m)',
         NEW val, Holding(i, val), val = <<>> \/ IsShare(val, Tall), next = "drive" => IsShare(val, Tall)
  PROVE  Known'
<1>1. /\ Steady /\ Posted(S) /\ (Told' <=> Told) /\ IsFiniteSet(cand')
      /\ stage'[i] \in {next, "failed"} /\ \A p \in Party : p # i => stage'[p] = stage[p]
  BY SenderSteady
<1>2. Told'
  BY <1>1, LateHeight
<1>3. ShareKnown' /\ share'[i] = val /\ \A q \in Party : q # i => share'[q] = share[q]
  BY <1>1, <1>2, Parties, ShareChanges DEF Holding
<1>4. RowsKnown' /\ MailKnown' /\ LateKnown' /\ SpKnown' /\ TableKnown'
  <2>1. share'[SP] = share[SP]
    BY <1>3, Parties
  <2> QED BY <2>1, SenderKeeps
<1>5. BoundKnown'
  <2>1. stage'[0] = "opens" => stage[0] = "opens"
    BY <1>1, Parties
  <2> QED BY <1>1, <2>1, BoundStays DEF Known
<1>6. DriveKnown'
  <2>1. Tall' = Tall
    BY <1>1, SameTall DEF Steady
  <2>2. stage'[i] = "drive" => IsShare(share'[i], Tall')
    BY <1>1, <1>3, <2>1
  <2>3. \A j \in Sender : j # i => (stage'[j] = "drive" => IsShare(share'[j], Tall'))
    BY <1>1, <1>3, <2>1, Parties DEF Known, DriveKnown
  <2> QED BY <2>2, <2>3 DEF DriveKnown
<1> QED BY <1>1, <1>3, <1>4, <1>5, <1>6 DEF Known

\* A sender's step that fails and keeps everything.
LEMMA SenderFails ==
  ASSUME Shape, Known, NEW i \in Sender, Moved(i, {}, "failed"), UNCHANGED <<cand, rows, claims,
         bound, share, table>>
  PROVE  Known'
<1>1. /\ Steady /\ (Told' <=> Told) /\ IsFiniteSet(cand')
      /\ stage'[i] \in {"failed"} /\ \A p \in Party : p # i => stage'[p] = stage[p]
  BY SenderSteady
<1>2. RowsKnown' /\ MailKnown' /\ LateKnown' /\ SpKnown' /\ TableKnown'
  <2>1. share'[SP] = share[SP] /\ "failed" \notin Late
    BY DEF Late
  <2> QED BY <2>1, SenderKeeps
<1>3. BoundKnown' /\ DriveKnown' /\ ShareKnown'
  <2>1. stage'[0] = "opens" => stage[0] = "opens"
    BY <1>1, Parties
  <2>2. \A j \in Sender : stage'[j] = "drive" => stage[j] = "drive" /\ share'[j] = share[j]
    BY <1>1, Parties
  <2> QED BY <1>1, <2>1, <2>2, BoundStays, DriveStays, ShareStays DEF Known
<1> QED BY <1>1, <1>2, <1>3 DEF Known

\* What sender 0 opens is what it was bound to: every mask.
LEMMA OpensOutcome ==
  ASSUME Shape, Known, Opens
  PROVE  \/ share' = share /\ Moved(0, {}, "failed")
         \/ /\ share' = [share EXCEPT ![0] = MaskShare] /\ Moved(0, {}, "drive")
            /\ \A n \in 1..(N-1) : OpenedOf(n) = MaskOf(n)
<1>0. Queues(wire) /\ At(0, "opens") /\ 0 \in Sender
  BY Parties DEF Shape, Opens
<1>1. CASE \A n \in 1..(N-1) : Got(0, n) = bound[n]
  <2>1. /\ Move(0, <<>>, "drive")
        /\ share' = [share EXCEPT ![0] = [c \in Column |-> IF c[1] = 0 THEN Mask(0, MyHeight(0))[c] ELSE Got(0, c[1])[c]]]
    BY <1>1 DEF Opens
  <2>2. stage[0] \in Late /\ stage[0] = "opens"
    BY <1>0 DEF At, Late
  <2>3. MyHeight(0) = Tall
    BY <1>0, <2>2, LateHeight
  <2>4. \A n \in 1..(N-1) : Got(0, n) = MaskOf(n)
    BY <1>1, <2>2 DEF Known, BoundKnown
  <2>5. \A n \in 1..(N-1) : OpenedOf(n) = MaskOf(n)
    <3>1. \A n \in 1..(N-1) : Letter(Mesh(n, 0), "open", Got(0, n))
      BY <1>0, <2>2, SenderReads DEF At
    <3>2. \A n : Mesh(n, 0)[2] = n
      BY DEF Mesh
    <3>3. \A n \in 1..(N-1) : Got(0, n) = OpenedOf(n)
      BY <3>1, <3>2, LetterSound DEF Known
    <3> QED BY <2>4, <3>3
  <2>6. [c \in Column |-> IF c[1] = 0 THEN Mask(0, MyHeight(0))[c] ELSE Got(0, c[1])[c]] = MaskShare
    <3>1. \A c \in Column : c[1] # 0 => c[1] \in 1..(N-1)
      BY Owns, Parties DEF Sender
    <3>2. \A c \in Column : (IF c[1] = 0 THEN Mask(0, MyHeight(0))[c] ELSE Got(0, c[1])[c]) = MaskOf(c[1])[c]
      BY <2>3, <2>4, <3>1 DEF MaskOf
    <3> QED BY <3>2 DEF MaskShare
  <2>7. Moved(0, {}, "drive")
    BY <1>0, <2>1, SilentOut
  <2> QED BY <2>1, <2>5, <2>6, <2>7
<1>2. CASE ~(\A n \in 1..(N-1) : Got(0, n) = bound[n])
  <2>1. Move(0, <<>>, "failed") /\ share' = share
    BY <1>2 DEF Opens
  <2> QED BY <1>0, <2>1, SilentOut
<1> QED BY <1>1, <1>2

LEMMA OpensKnown == ASSUME Shape, Known, Opens PROVE Known'
<1>0. At(0, "opens") /\ UNCHANGED <<cand, rows, claims, bound, table>> /\ 0 \in Sender
  BY Parties DEF Opens
<1>1. CASE share' = share /\ Moved(0, {}, "failed")
  BY <1>0, <1>1, SenderFails
<1>2. CASE share' = [share EXCEPT ![0] = MaskShare] /\ Moved(0, {}, "drive")
  <2>1. stage[0] \in Late
    BY <1>0 DEF At, Late
  <2>2. \A m \in {} : SoundMail(m)'
    OBVIOUS
  <2>3. Holding(0, MaskShare)
    BY <1>2 DEF Holding
  <2> QED BY <1>0, <1>2, <2>1, <2>2, <2>3, MaskShareIs, SenderShares
<1> QED BY <1>1, <1>2, OpensOutcome

\* A sender that takes over, and the last one, that reveals.
LEMMA TurnKnown == ASSUME Shape, Known, NEW i \in Sender, Turn(i) PROVE Known'
<1>0. Queues(wire) /\ At(i, "turn") /\ UNCHANGED <<cand, rows, claims, bound, table>>
      /\ share' = [share EXCEPT ![i] = IF i < N-1 THEN Got(i, 1) ELSE <<>>]
  BY DEF Shape, Turn
<1>1. stage[i] \in Late
  BY <1>0 DEF At, Late
<1>2. Told /\ Tall >= 2 /\ IsShare(Got(i, 1), Tall)
  <2>1. Letter(Mesh(i-1, i), "handoff", Got(i, 1))
    BY <1>0, SenderReads DEF At
  <2> QED BY <2>1, LetterSound DEF Known
<1>3. CASE i < N-1
  <2>1. Moved(i, {}, "drive") /\ share' = [share EXCEPT ![i] = Got(i, 1)]
    BY <1>0, <1>3, TurnOut
  <2>2. \A m \in {} : SoundMail(m)'
    OBVIOUS
  <2>3. Holding(i, Got(i, 1))
    BY <2>1 DEF Holding
  <2> QED BY <1>0, <1>1, <1>2, <2>1, <2>2, <2>3, SenderShares
<1>4. CASE ~(i < N-1)
  <2>1. Moved(i, Revealing(i), "done") /\ share' = [share EXCEPT ![i] = <<>>]
    BY <1>0, <1>4, TurnOut
  <2>2. Steady /\ (Told' <=> Told)
    BY <1>0, <2>1, SenderSteady
  <2>3. \A m \in Revealing(i) : SoundMail(m)'
    <3>1. \A m \in Revealing(i) : (m.is = "columns" /\ m.val = Got(i, 1)) \/ m.is = "opening"
      BY DEF Revealing, Showing, Msg
    <3>2. Told' /\ Tall' >= 2 /\ IsShare(Got(i, 1), Tall')
      BY <1>2, <2>2, SameTall DEF Steady
    <3> QED BY <3>1, <3>2 DEF SoundMail
  <2>4. Holding(i, <<>>)
    BY <2>1 DEF Holding
  <2> QED BY <1>0, <1>1, <2>1, <2>3, <2>4, SenderShares
<1> QED BY <1>3, <1>4
-----------------------------------------------------------------------------
(* What a round of the cascade makes of the shares. *)
LEMMA ArrangementOrder ==
  ASSUME NEW h \in Nat, h >= 2, NEW switches
  PROVE  Arrangement(switches, h) \in Orders(h)
<1> DEFINE t == Arrangement(switches, h)
<1>1. t \in [1..h -> 1..h] /\ \A i, j \in 1..h : i # j => t[i] # t[j]
  BY ArrangementBijective
<1> HIDE DEF t
<1>2. t \in Orders(h)
  BY <1>1 DEF Orders, IsInjective
<1> QED BY <1>2 DEF t

\* Two orders, one after the other, are an order.
LEMMA OrdersCompose ==
  ASSUME NEW h, NEW d \in Orders(h), NEW t \in Orders(h)
  PROVE  [j \in 1..h |-> d[t[j]]] \in Orders(h)
BY DEF Orders, IsInjective

\* What the networks of a round make of the columns, and what the driver hands on.
Turning(dest) == [c \in Column |-> Arrangement(Switches(dest[c]), Tall)]
LEMMA NetworksRejoin ==
  ASSUME Tall \in Nat, Tall >= 2, IsShare(share[SP], Tall), NEW k, NEW dest
  PROVE  /\ IsShare(Out(k, dest), Tall) /\ IsShare(Delta(k, dest), Tall)
         /\ \A c \in Column : \A j \in 1..Tall : Xor(Out(k, dest)[c][j], Delta(k, dest)[c][j]) = share[SP][c][Turning(dest)[c][j]]
<1>1. ASSUME NEW c \in Column
      PROVE  /\ IsColumn(Out(k, dest)[c], Tall) /\ IsColumn(Delta(k, dest)[c], Tall)
             /\ \A j \in 1..Tall : Xor(Out(k, dest)[c][j], Delta(k, dest)[c][j]) = share[SP][c][Turning(dest)[c][j]]
  <2> DEFINE osn == RunOsn(Switches(dest[c]), <<k, c[1], c[2]>>, share[SP][c])
             switches == Switches(dest[c])
             input == share[SP][c]
  <2>1. IsColumn(input, Tall)
    BY DEF IsShare, Spanning
  <2>2. Reassembled(osn, switches, input, Tall)
    <3> HIDE DEF switches, input
    <3>1. Reassembled(RunOsn(switches, <<k, c[1], c[2]>>, input), switches, input, Tall)
      BY <2>1, NetworkShares
    <3> QED BY <3>1 DEF switches, input
  <2>3. Out(k, dest)[c] = osn.sender /\ Delta(k, dest)[c] = osn.receiver /\ Turning(dest)[c] = Arrangement(switches, Tall)
    BY DEF Out, Delta, Networks, Turning
  <2> HIDE DEF osn, switches, input
  <2>4. \A j \in 1..Tall : Xor(osn.sender[j], osn.receiver[j]) = input[Arrangement(switches, Tall)[j]]
    BY <2>2 DEF Reassembled, Rejoins
  <2>5. IsColumn(osn.sender, Tall) /\ IsColumn(osn.receiver, Tall)
    BY <2>2 DEF Reassembled
  <2> QED BY <2>3, <2>4, <2>5 DEF input
<1>2. Out(k, dest) = [c \in Column |-> Out(k, dest)[c]] /\ Delta(k, dest) = [c \in Column |-> Delta(k, dest)[c]]
  BY DEF Out, Delta
<1> QED BY <1>1, <1>2 DEF IsShare, Spanning

LEMMA HandedIs ==
  ASSUME Tall \in Nat, Tall >= 2, NEW dest, NEW out, NEW R, IsShare(out, Tall), IsShare(R, Tall)
  PROVE  /\ IsShare(Handed(dest, out, R), Tall)
         /\ \A c \in Column : \A j \in 1..Tall : Handed(dest, out, R)[c][j] = Xor(out[c][j], R[c][Turning(dest)[c][j]])
<1> DEFINE P == [c \in Column |-> Permuted(Switches(dest[c]), R[c])]
           x == XorColumns(out, P)
<1>1. IsShare(x, Tall) /\ SumOf(x, out, P, Column, Tall)
  BY XorShape DEF IsShare
<1>2. ASSUME NEW c \in Column, NEW j \in 1..Tall PROVE P[c][j] = R[c][Turning(dest)[c][j]]
  <2>1. Permutes(Permuted(Switches(dest[c]), R[c]), Switches(dest[c]), R[c], Tall)
    <3>1. IsColumn(R[c], Tall)
      BY DEF IsShare, Spanning
    <3> QED BY <3>1, PermutedColumn
  <2>2. P[c] = Permuted(Switches(dest[c]), R[c]) /\ Turning(dest)[c] = Arrangement(Switches(dest[c]), Tall)
    BY DEF Turning
  <2> HIDE DEF P, x
  <2> QED BY <2>1, <2>2 DEF Permutes
<1>3. Handed(dest, out, R) = x
  BY DEF Handed
<1> HIDE DEF P, x
<1>4. \A c \in Column : \A j \in 1..Tall : x[c][j] = Xor(out[c][j], R[c][Turning(dest)[c][j]])
  BY <1>1, <1>2 DEF SumOf
<1> QED BY <1>1, <1>3, <1>4

\* The block that a driver at fault corrupts.
Garble(k, c) == {<<"noise", k, 1, c[1], c[2]>>}
Blot(k, at) == [c \in Column |-> [j \in 1..Tall |-> IF c = at /\ j = 1 THEN Garble(k, c) ELSE {}]]
Clean == [c \in Column |-> [j \in 1..Tall |-> {}]]
Noises(k) == IF conf.fault = <<"garbles", k>> THEN {Blot(k, at) : at \in Column} ELSE {Clean}
\* What the provider receives: the networks' other ends, corrupted or not.
LEMMA ReceivedIs ==
  ASSUME Tall \in Nat, Tall >= 2, NEW k, NEW delta, IsShare(delta, Tall), NEW got \in Received(k, delta)
  PROVE  IsShare(got, Tall) /\ \E n \in Noises(k) : SumOf(got, delta, n, Column, Tall)
<1>1. CASE conf.fault = <<"garbles", k>>
  <2>1. PICK at \in Column : got = [delta EXCEPT ![at][1] = Xor(@, Garble(k, at))]
    BY <1>1 DEF Received, Garble
  <2>2. DOMAIN delta = Column /\ IsColumn(delta[at], Tall) /\ 1 \in 1..Tall /\ \A c \in Column : IsColumn(delta[c], Tall)
    BY DEF IsShare, Spanning
  <2> DEFINE y == [delta[at] EXCEPT ![1] = Xor(@, Garble(k, at))]
  <2>3. got = [delta EXCEPT ![at] = y]
    BY <2>1
  <2>4. /\ IsColumn(y, Tall) /\ y[1] = Xor(delta[at][1], Garble(k, at))
        /\ \A j \in 1..Tall : j # 1 => y[j] = delta[at][j]
    BY <2>2 DEF IsColumn
  <2> HIDE DEF y
  <2>5. \A c \in Column : got[c] = IF c = at THEN y ELSE delta[c]
    BY <2>2, <2>3
  <2>6. got = [c \in Column |-> got[c]]
    BY <2>2, <2>3
  <2>7. IsShare(got, Tall)
    BY <2>2, <2>4, <2>5, <2>6 DEF IsShare, Spanning
  <2>8. ASSUME NEW c \in Column, NEW j \in 1..Tall PROVE got[c][j] = Xor(delta[c][j], Blot(k, at)[c][j])
    <3>1. \A a : Xor(a, {}) = a
      BY XorLaws
    <3>2. Blot(k, at)[c][j] = IF c = at /\ j = 1 THEN Garble(k, c) ELSE {}
      BY DEF Blot
    <3> QED BY <2>4, <2>5, <3>1, <3>2
  <2>9. Blot(k, at) \in Noises(k)
    BY <1>1 DEF Noises
  <2> QED BY <2>7, <2>8, <2>9 DEF SumOf
<1>2. CASE conf.fault # <<"garbles", k>>
  <2>1. got = delta
    BY <1>2 DEF Received
  <2>2. ASSUME NEW c \in Column, NEW j \in 1..Tall PROVE got[c][j] = Xor(delta[c][j], Clean[c][j])
    <3>1. \A a : Xor(a, {}) = a
      BY XorLaws
    <3>2. Clean[c][j] = {}
      BY DEF Clean
    <3> QED BY <2>1, <3>1, <3>2
  <2>3. Clean \in Noises(k)
    BY <1>2 DEF Noises
  <2> QED BY <2>1, <2>2, <2>3 DEF SumOf
<1> QED BY <1>1, <1>2
-----------------------------------------------------------------------------
(* The step of a driver, and the invariant. *)
DrivesWell(k, got, dest) ==
  /\ dest \in Routing(k) /\ got \in Received(k, Delta(k, dest)) /\ Driven(k, got, dest)
  /\ k # N-1 /\ k \in 0..(N-2) /\ round = k /\ stage[SP] = "round" /\ stage[k] = "drive" /\ Tall >= 2 /\ Tall \in Nat
  /\ IsShare(share[SP], Tall) /\ IsShare(share[k], Tall) /\ IsShare(got, Tall)
  /\ IsShare(Handed(dest, Out(k, dest), share[k]), Tall)
\* A drive is one that sends, or fails.
LEMMA DriveOutcome ==
  ASSUME Shape, Known, NEW k \in Sender, Drive(k)
  PROVE  \/ share' = share /\ Moved(k, {}, "failed")
         \/ \E dest, got : DrivesWell(k, got, dest)
<1>0. Queues(wire) /\ At(k, "drive") /\ stage[SP] = "round" /\ round = k
  BY DEF Shape, Drive
<1>1. stage[k] = "drive" /\ stage[k] \in StagesOf(k) /\ k # SP /\ stage[k] \in Late
  BY <1>0, Parties DEF At, Shape, Stationed, Late
<1>2. k # N-1 /\ k \in 0..(N-2)
  <2>1. k # N-1
    BY <1>1 DEF StagesOf
  <2> QED BY <2>1, Parties DEF Sender
<1>3. MyHeight(k) = Tall /\ Tall \in Nat
  BY <1>1, LateHeight
<1>4. IsShare(share[SP], Tall) /\ IsShare(share[k], Tall)
  BY <1>0, <1>1 DEF Known, SpKnown, DriveKnown, Shuffling
<1>5. ASSUME ~(MyHeight(k) < 2), NEW dest \in Routing(k), NEW got \in Received(k, Delta(k, dest)), Driven(k, got, dest)
      PROVE  DrivesWell(k, got, dest)
  <2>1. Tall >= 2
    BY <1>3, <1>5
  <2>2. IsShare(Out(k, dest), Tall) /\ IsShare(Delta(k, dest), Tall)
    BY <1>3, <1>4, <2>1, NetworksRejoin
  <2>3. IsShare(Handed(dest, Out(k, dest), share[k]), Tall)
    BY <1>3, <1>4, <2>1, <2>2, HandedIs
  <2>4. IsShare(got, Tall)
    BY <1>3, <1>5, <2>1, <2>2, ReceivedIs
  <2> QED BY <1>0, <1>1, <1>2, <1>3, <1>4, <1>5, <2>1, <2>3, <2>4 DEF DrivesWell
<1>6. CASE ~(MyHeight(k) < 2) /\ \E dest \in Routing(k) : \E got \in Received(k, Delta(k, dest)) : Driven(k, got, dest)
  BY <1>5, <1>6
<1> QED BY <1>0, <1>2, <1>6, DriveOut

LEMMA DriveStep == ASSUME Shape, Known, NEW k \in Sender, Drive(k) PROVE Known'
<1>0. UNCHANGED <<cand, rows, claims, bound, table>>
  BY DEF Drive
<1>1. CASE share' = share /\ Moved(k, {}, "failed")
  BY <1>0, <1>1, SenderFails
<1>2. ASSUME NEW dest, NEW got, DrivesWell(k, got, dest) PROVE Known'
  <2> DEFINE S == Driving(k, got, dest)
             handed == Handed(dest, Out(k, dest), share[k])
  <2>1. /\ Driven(k, got, dest) /\ stage[SP] = "round" /\ stage[k] = "drive" /\ Tall >= 2
        /\ IsShare(got, Tall) /\ IsShare(handed, Tall)
    BY <1>2 DEF DrivesWell
  <2>2. Holding(k, <<>>) /\ Moved(k, S, "done") /\ stage[k] \in Late
    BY <2>1 DEF Driven, Holding, Late
  <2>3. \A m \in S : (m.is = "osn" /\ m.val = got) \/ (m.is = "handoff" /\ m.val = handed) \/ m.is = "opening"
    BY DEF Driving, Showing, Msg
  <2> HIDE DEF S, handed
  <2>4. Steady /\ (Told' <=> Told) /\ Told
    BY <1>0, <2>1, <2>2, SenderSteady DEF Told, ToldStages
  <2>5. Tall' = Tall
    BY <2>4, SameTall DEF Steady
  <2>6. \A m \in S : SoundMail(m)'
    <3>1. ASSUME NEW m \in S PROVE SoundMail(m)'
      <4>1. CASE m.is = "opening"
        BY <4>1 DEF SoundMail
      <4>2. CASE (m.is = "osn" \/ m.is = "handoff") /\ (m.val = got \/ m.val = handed)
        BY <2>1, <2>4, <2>5, <4>2 DEF SoundMail
      <4> QED BY <2>3, <4>1, <4>2
    <3> QED BY <3>1
  <2> QED BY <1>0, <2>2, <2>6, SenderShares
<1> QED BY <1>1, <1>2, DriveOutcome

\* Known is an invariant.
LEMMA KnownInit == ASSUME Init PROVE Known
<1>1. /\ stage = [p \in Party |-> IF p = SP THEN "greet" ELSE IF conf.salted THEN "salt" ELSE "session"]
      /\ wire = [ch \in Channel |-> <<>>] /\ cand = {} /\ rows = [i \in Sender |-> <<>>]
      /\ share = [p \in Party |-> <<>>] /\ table = NoTable
  BY DEF Init
<1>2. stage[SP] \notin Shuffling /\ \A i \in Sender : stage[i] \notin Late /\ stage[i] # "drive" /\ stage[i] # "opens"
  BY <1>1, Parties DEF Shuffling, Late
<1>3. MailKnown
  <2>1. Flight(wire) = {}
    BY <1>1 DEF Flight, ToSet
  <2> QED BY <2>1 DEF MailKnown
<1>4. RowsKnown /\ ShareKnown /\ TableKnown
  BY <1>1 DEF RowsKnown, ShareKnown, TableKnown
<1>5. LateKnown /\ BoundKnown /\ SpKnown /\ DriveKnown
  BY <1>2, Parties DEF LateKnown, BoundKnown, SpKnown, DriveKnown
<1>6. IsFiniteSet(cand)
  BY <1>1, FS_EmptySet
<1> QED BY <1>3, <1>4, <1>5, <1>6 DEF Known

LEMMA KnownNext == ASSUME Shape, Known, [Next]_vars PROVE Known'
<1>1. CASE Quiet
  BY <1>1, QuietKnown
<1>2. CASE Loud
  BY <1>2, TellKnown, MaskedKnown, RoundKnown, RevealedKnown, OpeningsKnown DEF Loud
<1>3. ASSUME NEW i \in Sender, LoudOf(i) PROVE Known'
  BY <1>3, ResultKnown, PeerKeysKnown, PeerCommitsKnown, OpensKnown, TurnKnown, DriveStep DEF LoudOf
<1> QED BY <1>1, <1>2, <1>3, StepKinds

\* In every state, whatever dies or throws, each party has what its stage needs.
THEOREM KnownAlways == Spec => [](Shape /\ Known)
<1>1. Init => Shape /\ Known
  BY ShapeInit, KnownInit
<1>2. (Shape /\ Known) /\ [Next]_vars => (Shape /\ Known)'
  BY ShapeNext, KnownNext
<1> QED BY <1>1, <1>2, PTL DEF Spec

LEMMA SharesSpan == ASSUME Tall \in Nat, NEW f, NEW cols, Spanning(f, cols, Tall) PROVE Spans(f, cols)
<1>1. DOMAIN f = cols /\ \A c \in cols : DOMAIN f[c] = 1..Tall
  BY ColumnLen DEF Spanning
<1>2. Height(cand) = Tall
  BY HeightIs DEF Tall
<1> QED BY <1>1, <1>2 DEF Spans

\* They imply the types.
LEMMA KnownTypes == ASSUME Shape, Known PROVE TypeOK
<1>1. Tall \in Nat
  BY TallNat DEF Known
<1>2. stage \in [Party -> Stages] /\ \A p \in Party : linked[p] \in 0..Len(Links(p))
  <2>1. \A p \in Party : linked[p] \in Nat /\ linked[p] <= Len(Links(p)) /\ Len(Links(p)) \in Nat
    BY LinkCount DEF Shape, Wired
  <2> QED BY <2>1 DEF Shape, Stationed
<1>3. DOMAIN wire = Channel /\ \A ch \in Channel : \A n \in DOMAIN wire[ch] : wire[ch][n].on = ch
  <2>1. \A ch \in Channel : \A n \in DOMAIN wire[ch] : wire[ch][n] \in ToSet(wire[ch])
    BY DEF ToSet
  <2> QED BY <2>1 DEF Shape, Queues
<1>4. round \in 0..(N-1) /\ \A p \in Party : Spans(share[p], Column)
  <2>1. \A p \in Party : share[p] = <<>> \/ Spanning(share[p], Column, Tall)
    BY DEF Known, ShareKnown, IsShare
  <2>2. \A p \in Party : Spans(share[p], Column)
    BY <1>1, <2>1, SharesSpan DEF Spans
  <2> QED BY <2>2 DEF Shape, Rounds
<1>5. \A i \in Sender : Spans(rows[i], Own(i))
  <2>1. \A i \in Sender : rows[i] = <<>> \/ Spanning(rows[i], Own(i), Tall)
    BY WholeShape DEF Known, RowsKnown
  <2> QED BY <1>1, <2>1, SharesSpan DEF Spans
<1>6. table = NoTable \/ Spans(table, Column)
  BY <1>1, SharesSpan DEF Known, TableKnown, IsShare
<1> QED BY <1>2, <1>3, <1>4, <1>5, <1>6 DEF TypeOK

\* The types hold.
THEOREM Types == Spec => []TypeOK
<1>1. Shape /\ Known => TypeOK
  BY KnownTypes
<1> QED BY <1>1, KnownAlways, PTL
-----------------------------------------------------------------------------
(* The two shares of a round, wherever they are, together hold every row once. *)
Carriers == {"osn", "handoff", "columns"}
Ended == {"done", "failed"}
\* Where the share of round r of the provider is, and of its driver.
LeftAt(a, r) == Letter(Osn(r-1), "osn", a) \/ (round = r /\ stage[SP] \in {"round", "reveal"} /\ a = share[SP])
RightAt(b, r) ==
  \/ Letter(Mesh(r-1, r), "handoff", b)
  \/ stage[r] = "drive" /\ b = share[r]
  \/ r = N-1 /\ Letter(Reveal, "columns", b)

\* A block corrupted before round r is wrong in one place of one column.
Soiled(r) == \E k \in 0..(r-1) : conf.fault = <<"garbles", k>>
Mark(r, c, j, at, spot) == IF Soiled(r) /\ c = at /\ j = spot THEN Garble(conf.fault[2], c) ELSE {}
\* Every mask that is opened is the one committed to.
Fine == \A n \in 1..(N-1) : OpenedOf(n) = MaskOf(n)
\* a and b share every contribution in one order d, but for that place.
Mingled(a, b, r, d, at, spot) ==
  /\ Soiled(r) => spot # 0
  /\ \A c \in Column : \A j \in 1..Tall : Xor(a[c][j], b[c][j]) = Xor(Whole(c[1])[c][d[j]], Mark(r, c, j, at, spot))
Mixed(a, b, r) == Fine /\
  \E d \in Orders(Tall) : \E at \in Column : \E spot \in 0..Tall : Mingled(a, b, r, d, at, spot)

\* Nobody has the shares of a round that has not been driven.
Waiting == \A k \in 0..(N-2) : stage[k] \notin Ended => \A x : ~LeftAt(x, k+1) /\ ~RightAt(x, k+1)
\* The shares that the cascade begins with, and the invariant of a round.
Based == (stage[SP] = "round" /\ round = 0 => share[SP] = MaskedShare) /\ (stage[0] = "drive" => share[0] = MaskShare /\ Fine)
Mixing == \A r \in 1..(N-1) : \A a, b : LeftAt(a, r) /\ RightAt(b, r) => Mixed(a, b, r)
Straight == conf.fault[1] # "misroutes"
Carried == Waiting /\ Based /\ (Straight => Mixing)

\* A step after which no share is anywhere it was not.
Calm == \A r \in 1..(N-1) : \A x : (LeftAt(x, r)' => LeftAt(x, r)) /\ (RightAt(x, r)' => RightAt(x, r))
Onward == \A k \in 0..(N-2) : stage'[k] \notin Ended => stage[k] \notin Ended

\* What they are made of stays.
LEMMA SameBase == ASSUME Steady PROVE MaskedShare' = MaskedShare /\ MaskShare' = MaskShare /\ (Fine => Fine')
<1>1. \A i : MaskOf(i)' = MaskOf(i) /\ Whole(i)' = Whole(i)
  BY SameMasks, SameTall DEF Steady
<1>2. \A i : OpenedOf(i)' = OpenedOf(i)
  BY SameMasks
<1> QED BY <1>1, <1>2 DEF MaskedShare, MaskShare, Fine

LEMMA MixedStays == ASSUME Steady, NEW a, NEW b, NEW r, Mixed(a, b, r) PROVE Mixed(a, b, r)'
<1>1. Tall' = Tall /\ (\A i : Whole(i)' = Whole(i)) /\ conf' = conf
  BY SameTall DEF Steady
<1>2. ASSUME NEW d, NEW at, NEW spot, Mingled(a, b, r, d, at, spot) PROVE Mingled(a, b, r, d, at, spot)'
  <2>1. \A c, j : Mark(r, c, j, at, spot)' = Mark(r, c, j, at, spot)
    BY <1>1 DEF Mark, Soiled
  <2>2. Soiled(r)' => Soiled(r)
    BY <1>1 DEF Soiled
  <2> QED BY <1>1, <1>2, <2>1, <2>2 DEF Mingled
<1>3. Fine'
  BY SameBase DEF Mixed
<1> QED BY <1>1, <1>2, <1>3 DEF Mixed

\* Carried stays when the shares are where they were.
LEMMA CarriedStays ==
  ASSUME Carried, Steady, Calm, Onward, stage'[SP] = "round" /\ round' = 0 => share'[SP] = MaskedShare,
         stage'[0] = "drive" => share'[0] = MaskShare /\ Fine
  PROVE  Carried'
<1>1. Waiting'
  <2>1. ASSUME NEW k \in 0..(N-2), stage'[k] \notin Ended, NEW x PROVE ~LeftAt(x, k+1)' /\ ~RightAt(x, k+1)'
    <3>1. stage[k] \notin Ended /\ k+1 \in 1..(N-1)
      BY <2>1, Parties DEF Onward
    <3> QED BY <3>1 DEF Carried, Waiting, Calm
  <2> QED BY <2>1 DEF Waiting
<1>2. Based'
  BY SameBase DEF Based
<1>3. Straight' => Mixing'
  <2>1. conf' = conf
    BY DEF Steady
  <2>2. ASSUME Straight, NEW r \in 1..(N-1), NEW a, NEW b, LeftAt(a, r)', RightAt(b, r)' PROVE Mixed(a, b, r)'
    <3>1. LeftAt(a, r) /\ RightAt(b, r)
      BY <2>2 DEF Calm
    <3>2. Mixed(a, b, r)
      BY <2>2, <3>1 DEF Carried, Mixing
    <3> QED BY <3>2, MixedStays
  <2> QED BY <2>1, <2>2 DEF Mixing, Straight
<1> QED BY <1>1, <1>2, <1>3 DEF Carried

\* Letters that carry no share leave every share where it is.
LEMMA LettersStay ==
  ASSUME NEW S, Posted(S), NEW ch, NEW is, \A m \in S : m.is # is, NEW val, Letter(ch, is, val)'
  PROVE  Letter(ch, is, val)
<1>1. PICK m \in Flight(wire') : m.on = ch /\ m.is = is /\ m.val = val
  BY DEF Letter
<1>2. m \in Flight(wire)
  BY <1>1 DEF Posted
<1> QED BY <1>1, <1>2 DEF Letter

Bearing(m) == m.is = "columns" /\ RightAt(m.val, N-1)
\* A step that sends no share and takes none up.
LEMMA CalmStep ==
  ASSUME NEW S, Posted(S), \A m \in S : m.is \in Carriers => Bearing(m),
         \A r \in 1..(N-1) : \A x : round' = r /\ stage'[SP] \in {"round", "reveal"} /\ x = share'[SP] => LeftAt(x, r),
         \A r \in 1..(N-1) : \A x : stage'[r] = "drive" /\ x = share'[r] => RightAt(x, r)
  PROVE  Calm
<1>0. \A m \in S : m.is # "osn" /\ m.is # "handoff"
  BY DEF Carriers, Bearing
<1>1. ASSUME NEW r \in 1..(N-1), NEW x, LeftAt(x, r)' PROVE LeftAt(x, r)
  <2>1. CASE Letter(Osn(r-1), "osn", x)'
    <3>1. Letter(Osn(r-1), "osn", x)
      BY <1>0, <2>1, LettersStay
    <3> QED BY <3>1 DEF LeftAt
  <2>2. CASE round' = r /\ stage'[SP] \in {"round", "reveal"} /\ x = share'[SP]
    BY <2>2
  <2> QED BY <1>1, <2>1, <2>2 DEF LeftAt, Osn, SP
<1>2. ASSUME NEW r \in 1..(N-1), NEW x, RightAt(x, r)' PROVE RightAt(x, r)
  <2>1. CASE Letter(Mesh(r-1, r), "handoff", x)'
    <3>1. Letter(Mesh(r-1, r), "handoff", x)
      BY <1>0, <2>1, LettersStay
    <3> QED BY <3>1 DEF RightAt
  <2>2. CASE stage'[r] = "drive" /\ x = share'[r]
    BY <2>2
  <2>3. CASE r = N-1 /\ Letter(Reveal, "columns", x)'
    <3>1. PICK m \in Flight(wire') : m.on = Reveal /\ m.is = "columns" /\ m.val = x
      BY <2>3 DEF Letter, Reveal, SP
    <3>2. CASE m \in S
      BY <2>3, <3>1, <3>2 DEF Carriers, Bearing
    <3>3. CASE m \in Flight(wire)
      BY <2>3, <3>1, <3>3 DEF Letter, RightAt
    <3> QED BY <3>1, <3>2, <3>3 DEF Posted
  <2> QED BY <1>2, <2>1, <2>2, <2>3 DEF RightAt
<1> QED BY <1>1, <1>2 DEF Calm

\* Who moves is not one who has ended.
LEMMA MoverOnward ==
  ASSUME Shape, NEW p \in Party, NEW next, Settled(p, next), stage[p] \notin Ended
  PROVE  Onward /\ stage'[p] \in {next, "failed"} /\ \A q \in Party : q # p => stage'[q] = stage[q]
<1>1. PICK s \in {next, "failed"} : stage' = [stage EXCEPT ![p] = s]
  BY DEF Settled
<1>2. stage'[p] = s /\ \A q \in Party : q # p => stage'[q] = stage[q]
  BY <1>1 DEF Shape, Stationed
<1>3. 0..(N-2) \subseteq Party
  BY Parties DEF Party
<1> QED BY <1>1, <1>2, <1>3 DEF Onward

\* A quiet step is one.
LEMMA QuietCarried == ASSUME Shape, Known, Carried, Quiet PROVE Carried'
<1>0. conf' = conf /\ csv' = csv /\ cand' = cand /\ share' = share /\ round' = round /\ Posted(Quietly)
  BY DEF Quiet, data
<1>1. \A m \in Quietly : m.is \notin Carriers
  BY DEF Quietly, Errands, Signed, Filed, Msg, Carriers
<1>2. \A q \in Party : /\ stage[q] \in ToldStages => stage'[q] \in ToldStages
                       /\ stage'[q] \in {"round", "reveal", "drive"} => stage'[q] = stage[q]
                       /\ stage'[q] \notin Ended => stage[q] \notin Ended
  <2>1. CASE stage' = stage
    BY <2>1
  <2>2. CASE stage' # stage
    <3>0. PICK p \in Party : \E s \in Early(p) \cup {"failed"} : Advance(p, s)
      BY <2>2 DEF Quiet
    <3>1. PICK s \in Early(p) \cup {"failed"} : Advance(p, s)
      BY <3>0
    <3>2. stage' = [stage EXCEPT ![p] = s] /\ (s = "failed" \/ (stage[p] \in Early(p) /\ s \in Early(p)))
      BY <3>1 DEF Advance
    <3>3. \A q : Early(q) \cap (ToldStages \cup {"round", "reveal", "drive"} \cup Ended) = {}
      BY DEF Early, ToldStages, Ended
    <3>4. "failed" \in ToldStages /\ "failed" \in Ended
      BY DEF ToldStages, Ended
    <3>5. \A q \in Party : stage'[q] = IF q = p THEN s ELSE stage[q]
      BY <3>2 DEF Shape, Stationed
    <3> QED BY <3>2, <3>3, <3>4, <3>5
  <2> QED BY <2>1, <2>2
<1>3. Steady
  BY <1>0, <1>2, Parties DEF Steady, Told, SP
<1>4. Onward
  BY <1>2, Parties DEF Onward, Party
<1>5. Calm
  <2>1. \A r \in 1..(N-1) : \A x : round' = r /\ stage'[SP] \in {"round", "reveal"} /\ x = share'[SP] => LeftAt(x, r)
    BY <1>0, <1>2, Parties DEF LeftAt, SP
  <2>2. \A r \in 1..(N-1) : \A x : stage'[r] = "drive" /\ x = share'[r] => RightAt(x, r)
    BY <1>0, <1>2, Parties DEF RightAt, Party
  <2> QED BY <1>0, <1>1, <2>1, <2>2, CalmStep
<1>6. (stage'[SP] = "round" /\ round' = 0 => share'[SP] = MaskedShare) /\ (stage'[0] = "drive" => share'[0] = MaskShare /\ Fine)
  BY <1>0, <1>2, Parties DEF Carried, Based, SP
<1> QED BY <1>3, <1>4, <1>5, <1>6, CarriedStays
-----------------------------------------------------------------------------
\* Before the intersection is told nobody has a share.
LEMMA EarlyCarried ==
  ASSUME Shape, Known, ~Told, NEW S, NEW next, next \notin {"round", "reveal"}, Moved(SP, S, next),
         \A m \in S : m.is \notin Carriers, share' = share
  PROVE  Carried'
<1>1. Posted(S) /\ Settled(SP, next)
  BY DEF Moved
<1>2. stage'[SP] \in {next, "failed"} /\ \A i \in Sender : stage'[i] = stage[i] /\ stage[i] \notin Late
  BY <1>1, SpMoves DEF Known, LateKnown
<1>3. \A ch : \A is \in Carriers : \A x : ~Letter(ch, is, x)'
  <2>1. ASSUME NEW ch, NEW is \in Carriers, NEW x, Letter(ch, is, x)' PROVE FALSE
    <3>1. Letter(ch, is, x)
      BY <1>1, <2>1, LettersStay
    <3> QED BY <2>1, <3>1, LetterSound DEF Known, Carriers
  <2> QED BY <2>1
<1>4. ASSUME NEW r \in 1..(N-1), NEW x PROVE ~LeftAt(x, r)' /\ ~RightAt(x, r)'
  <2>1. ~Letter(Osn(r-1), "osn", x)' /\ ~Letter(Mesh(r-1, r), "handoff", x)' /\ ~Letter(Reveal, "columns", x)'
    BY <1>3 DEF Carriers, Osn, Mesh, Reveal, SP
  <2>2. r \in Sender /\ "drive" \in Late
    BY Parties DEF Sender, Late
  <2> QED BY <1>2, <2>1, <2>2 DEF LeftAt, RightAt, SP, Osn, Mesh, Reveal
<1>5. Waiting'
  <2>1. \A k \in 0..(N-2) : k+1 \in 1..(N-1)
    BY Parties
  <2> QED BY <1>4, <2>1 DEF Waiting
<1>6. Based'
  BY <1>2, Parties DEF Based, SP, Late
<1>7. Mixing'
  BY <1>4 DEF Mixing
<1> QED BY <1>5, <1>6, <1>7 DEF Carried

\* ... and so is the provider's telling.
LEMMA TellCarried == ASSUME Shape, Known, Hashes \/ Seed \/ Cascade PROVE Carried'
<1>0. Queues(wire) /\ share' = share /\ ~Told
  BY DEF Shape, Hashes, Seed, Cascade, At, Told, ToldStages
<1>1. ASSUME NEW common, Telling(common) PROVE Carried'
  <2>1. PICK next \in {"failed", "masked"} : Moved(SP, ToAll("result", common), next)
    BY <1>1 DEF Telling
  <2>2. \A m \in ToAll("result", common) : m.is \notin Carriers
    BY DEF ToAll, Msg, Carriers
  <2> QED BY <1>0, <2>1, <2>2, EarlyCarried
<1>2. ASSUME Moved(SP, Quietly, "cascade") PROVE Carried'
  <2>1. \A m \in Quietly : m.is \notin Carriers
    BY DEF Quietly, Errands, Signed, Filed, Msg, Carriers
  <2> QED BY <1>0, <1>2, <2>1, EarlyCarried
<1>3. CASE Hashes
  <2>1. At(SP, "hashes") /\ Tell(SeenByAll)
    BY <1>3 DEF Hashes
  <2> QED BY <1>0, <1>1, <2>1, TellOut
<1>4. CASE Seed
  BY <1>0, <1>2, <1>4, SeedOut
<1>5. CASE Cascade
  <2>1. round # 0 /\ round \in 0..(N-1)
    BY <1>5 DEF Cascade, At, Shape, Rounds
  <2>2. round \in 1..(N-1)
    BY <2>1, Parties
  <2> QED BY <1>0, <1>1, <1>2, <1>5, <2>2, CascadeOut
<1> QED BY <1>3, <1>4, <1>5

\* A step of the provider that sends nothing.
LEMMA ProviderCarried ==
  ASSUME Shape, Known, Carried, NEW next \in ToldStages, Moved(SP, {}, next), UNCHANGED <<cand, rows, bound>>,
         stage[SP] \notin Ended, \A i \in Sender : share'[i] = share[i],
         next = "round" /\ round' = 0 => share'[SP] = MaskedShare,
         \A r \in 1..(N-1) : \A x : round' = r /\ next \in {"round", "reveal"} /\ x = share'[SP] => LeftAt(x, r)
  PROVE  Carried'
<1>1. Steady
  BY SpSilent
<1>2. Posted({}) /\ Settled(SP, next)
  BY DEF Moved
<1>3. Onward /\ stage'[SP] \in {next, "failed"} /\ \A q \in Party : q # SP => stage'[q] = stage[q]
  BY <1>2, Parties, MoverOnward
<1>4. \A r \in 1..(N-1) : r \in Sender
  BY Parties DEF Sender
<1>5. \A r \in 1..(N-1) : \A x : stage'[r] = "drive" /\ x = share'[r] => RightAt(x, r)
  BY <1>3, <1>4, Parties DEF RightAt
<1>6. \A r \in 1..(N-1) : \A x : round' = r /\ stage'[SP] \in {"round", "reveal"} /\ x = share'[SP] => LeftAt(x, r)
  BY <1>3
<1>7. Calm
  <2>1. \A m \in {} : m.is \in Carriers => Bearing(m)
    OBVIOUS
  <2> QED BY <1>2, <1>5, <1>6, <2>1, CalmStep
<1>8. (stage'[SP] = "round" /\ round' = 0 => share'[SP] = MaskedShare) /\ (stage'[0] = "drive" => share'[0] = MaskShare /\ Fine)
  BY <1>3, Parties DEF Carried, Based
<1> QED BY <1>1, <1>3, <1>7, <1>8, CarriedStays

\* The provider's later steps take up shares on the way to it.
LEMMA StepsCarried == ASSUME Shape, Known, Carried, Masked \/ Round \/ Revealed \/ Openings PROVE Carried'
<1>0. Queues(wire) /\ DOMAIN share = Party /\ round \in 0..(N-1) /\ SP \in Party /\ "failed" \in ToldStages
  BY Parties DEF Shape, Known, ShareKnown, Rounds, ToldStages
<1>1. CASE Masked
  <2>1. At(SP, "masked") /\ Move(SP, <<>>, "round") /\ UNCHANGED <<cand, rows, bound>> /\ round' = round
    BY <1>1 DEF Masked
  <2>2. share' = [share EXCEPT ![SP] = MaskedShare]
    BY <1>1, MaskedOutcome
  <2>3. share'[SP] = MaskedShare /\ \A i \in Sender : share'[i] = share[i]
    BY <1>0, <2>2, Parties
  <2>4. stage[SP] \notin Ended /\ round = 0
    BY <2>1 DEF At, Ended, Shape, Rounds
  <2>5. Moved(SP, {}, "round") /\ "round" \in ToldStages
    BY <1>0, <2>1, SilentOut DEF ToldStages
  <2>6. \A r \in 1..(N-1) : round' # r
    BY <2>1, <2>4
  <2> QED BY <2>1, <2>3, <2>4, <2>5, <2>6, ProviderCarried
<1>2. CASE Round
  <2> DEFINE next == IF round + 1 = N-1 THEN "reveal" ELSE "round"
  <2>1. At(SP, "round") /\ Move(SP, <<>>, next) /\ UNCHANGED <<cand, rows, bound>> /\ round' = round + 1
        /\ share' = [share EXCEPT ![SP] = Got(SP, 1)]
    BY <1>2 DEF Round
  <2>2. share'[SP] = Got(SP, 1) /\ \A i \in Sender : share'[i] = share[i]
    BY <1>0, <2>1, Parties
  <2>3. stage[SP] \notin Ended /\ next \in ToldStages
    BY <2>1 DEF At, Ended, ToldStages
  <2>4. Letter(Osn(round), "osn", Got(SP, 1))
    BY <2>1, ProviderReads DEF At
  <2>5. \A r \in 1..(N-1) : \A x : round' = r /\ x = share'[SP] => LeftAt(x, r)
    <3>1. ASSUME NEW r \in 1..(N-1), round + 1 = r PROVE LeftAt(Got(SP, 1), r)
      <4>1. r - 1 = round
        BY <1>0, <3>1
      <4> QED BY <2>4, <4>1 DEF LeftAt
    <3> QED BY <2>1, <2>2, <3>1
  <2> HIDE DEF next
  <2>6. Moved(SP, {}, next)
    BY <1>0, <2>1, SilentOut
  <2>7. round' # 0
    BY <1>0, <2>1
  <2> QED BY <2>1, <2>2, <2>3, <2>5, <2>6, <2>7, ProviderCarried
<1>3. ASSUME NEW s, s \notin Ended, At(SP, s), NEW next \in {"openings", "done", "failed"}, Move(SP, <<>>, next),
             UNCHANGED <<cand, rows, bound>>, \A i \in Sender : share'[i] = share[i]
      PROVE  Carried'
  <2>1. Moved(SP, {}, next) /\ next \in ToldStages /\ stage[SP] \notin Ended
    BY <1>0, <1>3, SilentOut DEF ToldStages, At
  <2>2. next \notin {"round", "reveal"}
    OBVIOUS
  <2> QED BY <1>3, <2>1, <2>2, ProviderCarried
<1>4. CASE Revealed
  <2> DEFINE sum == XorColumns(share[SP], Got(SP, 1))
  <2>1. /\ At(SP, "reveal") /\ UNCHANGED <<cand, rows, bound>>
        /\ share' = [share EXCEPT ![SP] = sum] \/ share' = share
        /\ Move(SP, <<>>, "openings") \/ Move(SP, <<>>, "done")
    BY <1>4 DEF Revealed
  <2> HIDE DEF sum
  <2>2. "reveal" \notin Ended /\ \A i \in Sender : share'[i] = share[i]
    BY <1>0, <2>1, Parties DEF Ended
  <2> QED BY <1>3, <2>1, <2>2
<1>5. CASE Openings
  <2>1. /\ At(SP, "openings") /\ UNCHANGED <<cand, rows, bound, share>>
        /\ Move(SP, <<>>, "done") \/ Move(SP, <<>>, "failed")
    BY <1>5 DEF Openings
  <2>2. "openings" \notin Ended /\ \A i \in Sender : share'[i] = share[i]
    BY <2>1 DEF Ended
  <2> QED BY <1>3, <2>1, <2>2
<1> QED BY <1>1, <1>2, <1>4, <1>5
-----------------------------------------------------------------------------
\* A step of a sender that keeps its share.
LEMMA SenderCarried ==
  ASSUME Shape, Known, Carried, NEW i \in Sender, stage[i] \notin Ended, NEW S, NEW next,
         next # "drive", Moved(i, S, next),
         UNCHANGED <<cand, share, round>>, \A m \in S : m.is \in Carriers => Bearing(m)
  PROVE  Carried'
<1>1. Steady
  BY SenderSteady
<1>2. Posted(S) /\ Settled(i, next)
  BY DEF Moved
<1>3. Onward /\ stage'[i] \in {next, "failed"} /\ \A q \in Party : q # i => stage'[q] = stage[q]
  BY <1>2, Parties, MoverOnward
<1>4. \A r \in 1..(N-1) : r \in Party
  BY Parties DEF Party
<1>5. \A r \in 1..(N-1) : \A x : stage'[r] = "drive" /\ x = share'[r] => RightAt(x, r)
  BY <1>3, <1>4 DEF RightAt
<1>6. \A r \in 1..(N-1) : \A x : round' = r /\ stage'[SP] \in {"round", "reveal"} /\ x = share'[SP] => LeftAt(x, r)
  BY <1>3, Parties DEF LeftAt
<1>7. Calm
  BY <1>2, <1>5, <1>6, CalmStep
<1>8. (stage'[SP] = "round" /\ round' = 0 => share'[SP] = MaskedShare) /\ (stage'[0] = "drive" => share'[0] = MaskShare /\ Fine)
  BY <1>3, Parties DEF Carried, Based
<1> QED BY <1>1, <1>3, <1>7, <1>8, CarriedStays

\* A step of a sender that takes over a share.
LEMMA TakerCarried ==
  ASSUME Shape, Known, Carried, NEW i \in Sender, stage[i] \notin Ended, NEW S, NEW next, Moved(i, S, next),
         UNCHANGED <<cand, round>>, NEW val, Holding(i, val), \A m \in S : m.is \in Carriers => Bearing(m),
         i = 0 /\ next = "drive" => val = MaskShare /\ Fine, i # 0 /\ next = "drive" => RightAt(val, i)
  PROVE  Carried'
<1>1. Steady
  BY SenderSteady
<1>2. Posted(S) /\ Settled(i, next)
  BY DEF Moved
<1>3. Onward /\ stage'[i] \in {next, "failed"} /\ \A q \in Party : q # i => stage'[q] = stage[q]
  BY <1>2, Parties, MoverOnward
<1>4. \A r \in 1..(N-1) : r \in Party /\ r # 0
  BY Parties DEF Party
<1>5. share'[i] = val /\ \A q \in Party : q # i => share'[q] = share[q]
  BY Parties DEF Holding, Known, ShareKnown
<1>6. \A r \in 1..(N-1) : \A x : stage'[r] = "drive" /\ x = share'[r] => RightAt(x, r)
  BY <1>3, <1>4, <1>5 DEF RightAt
<1>7. \A r \in 1..(N-1) : \A x : round' = r /\ stage'[SP] \in {"round", "reveal"} /\ x = share'[SP] => LeftAt(x, r)
  BY <1>3, <1>5, Parties DEF LeftAt
<1>8. Calm
  BY <1>2, <1>6, <1>7, CalmStep
<1>9. (stage'[SP] = "round" /\ round' = 0 => share'[SP] = MaskedShare) /\ (stage'[0] = "drive" => share'[0] = MaskShare /\ Fine)
  BY <1>3, <1>5, Parties DEF Carried, Based
<1> QED BY <1>1, <1>3, <1>8, <1>9, CarriedStays

\* The senders' steps other than a drive.
LEMMA SendersCarried ==
  ASSUME Shape, Known, Carried, NEW i \in Sender,
         Result(i) \/ PeerKeys(i) \/ PeerCommits(i) \/ (i = 0 /\ Opens) \/ Turn(i)
  PROVE  Carried'
<1>0. Queues(wire) /\ i \in Party
  BY Parties DEF Shape
<1>1. ASSUME NEW s, At(i, s), s \notin Ended PROVE stage[i] \notin Ended /\ Arrived(i) /\ stage[i] = s
  BY <1>1 DEF At
<1>2. CASE Result(i)
  <2>1. At(i, "result") /\ UNCHANGED <<cand, share, round>> /\ "result" \notin Ended
    BY <1>2 DEF Result, Ended
  <2>2. CASE Moved(i, {}, "failed")
    <3>1. \A m \in {} : m.is \in Carriers => Bearing(m)
      OBVIOUS
    <3> QED BY <1>1, <2>1, <2>2, <3>1, SenderCarried
  <2>3. CASE Contributing(i, Got(i, 1))
    <3> DEFINE S == {Msg(Star(i, SP), "masked", MaskedOf(i, Got(i, 1)))} \cup Quietly
    <3>1. Moved(i, S, "peerKeys")
      BY <2>3 DEF Contributing
    <3>2. \A m \in S : m.is \notin Carriers
      BY DEF Quietly, Errands, Signed, Filed, Msg, Carriers
    <3> HIDE DEF S
    <3> QED BY <1>1, <2>1, <3>1, <3>2, SenderCarried
  <2> QED BY <1>0, <1>2, <2>2, <2>3, ResultOut
<1>3. CASE PeerKeys(i)
  <2>1. At(i, "peerKeys") /\ UNCHANGED <<cand, share, round>> /\ "peerKeys" \notin Ended
    BY <1>3 DEF PeerKeys, Ended, data
  <2>2. \A m \in Commits(i) : m.is \notin Carriers
    BY DEF Commits, ToPeers, Msg, Carriers
  <2>3. Moved(i, Commits(i), "peerCommits")
    BY <1>0, <1>3, PeerKeysOut
  <2> QED BY <1>1, <2>1, <2>2, <2>3, SenderCarried
<1>4. CASE PeerCommits(i)
  <2> DEFINE next == IF i = 0 THEN "opens" ELSE "turn"
  <2>1. At(i, "peerCommits") /\ UNCHANGED <<cand, share, round>> /\ "peerCommits" \notin Ended
    BY <1>4 DEF PeerCommits, Ended
  <2>2. \A m \in ShowsMask(i) : m.is \notin Carriers
    BY DEF ShowsMask, Msg, Carriers
  <2>3. Moved(i, ShowsMask(i), next)
    BY <1>0, <1>4, PeerCommitsOut
  <2>4. next # "drive"
    OBVIOUS
  <2> HIDE DEF next
  <2> QED BY <1>1, <2>1, <2>2, <2>3, <2>4, SenderCarried
<1>5. CASE i = 0 /\ Opens
  <2>1. At(i, "opens") /\ UNCHANGED <<cand, round>> /\ "opens" \notin Ended
    BY <1>5 DEF Opens, Ended
  <2>2. \A m \in {} : m.is \in Carriers => Bearing(m)
    OBVIOUS
  <2>3. CASE share' = share /\ Moved(0, {}, "failed")
    BY <1>1, <1>5, <2>1, <2>2, <2>3, SenderCarried
  <2>4. CASE share' = [share EXCEPT ![0] = MaskShare] /\ Moved(0, {}, "drive") /\ \A n \in 1..(N-1) : OpenedOf(n) = MaskOf(n)
    <3>2. Fine
      BY <2>4 DEF Fine
    <3>1. Holding(i, MaskShare)
      BY <1>5, <2>4 DEF Holding
    <3> QED BY <1>1, <1>5, <2>1, <2>2, <2>4, <3>1, <3>2, TakerCarried
  <2> QED BY <1>5, <2>3, <2>4, OpensOutcome
<1>6. CASE Turn(i)
  <2>1. /\ At(i, "turn") /\ UNCHANGED <<cand, round>> /\ "turn" \notin Ended
        /\ share' = [share EXCEPT ![i] = IF i < N-1 THEN Got(i, 1) ELSE <<>>]
    BY <1>6 DEF Turn, Ended
  <2>2. i # 0 /\ Letter(Mesh(i-1, i), "handoff", Got(i, 1))
    BY <1>1, <2>1, SenderReads
  <2>3. RightAt(Got(i, 1), i)
    BY <2>2 DEF RightAt
  <2>4. CASE i < N-1
    <3>1. Moved(i, {}, "drive") /\ Holding(i, Got(i, 1))
      BY <1>0, <1>6, <2>1, <2>4, TurnOut DEF Holding
    <3>2. \A m \in {} : m.is \in Carriers => Bearing(m)
      OBVIOUS
    <3> QED BY <1>1, <2>1, <2>2, <2>3, <3>1, <3>2, TakerCarried
  <2>5. CASE ~(i < N-1)
    <3>1. Moved(i, Revealing(i), "done") /\ Holding(i, <<>>)
      BY <1>0, <1>6, <2>1, <2>5, TurnOut DEF Holding
    <3>2. i = N-1
      BY <2>5, Parties
    <3>3. \A m \in Revealing(i) : m.is \in Carriers => Bearing(m)
      BY <2>3, <3>2 DEF Revealing, Showing, Msg, Carriers, Bearing
    <3> QED BY <1>1, <2>1, <3>1, <3>3, TakerCarried
  <2> QED BY <2>4, <2>5
<1> QED BY <1>2, <1>3, <1>4, <1>5, <1>6
-----------------------------------------------------------------------------
\* The algebra of a round: a network's two ends, and the shares that go in.
LEMMA XorChain ==
  ASSUME NEW o, NEW m, NEW a, NEW b, NEW n, NEW w, NEW e, Xor(o, m) = a, Xor(a, b) = Xor(w, e)
  PROVE  Xor(Xor(m, n), Xor(o, b)) = Xor(w, Xor(e, n))
<1>1. \A x, y, z : z \in Xor(x, y) <=> ~(z \in x <=> z \in y)
  BY DEF Xor, SymDiff
<1>2. \A z : z \in a <=> ~(z \in o <=> z \in m)
  BY <1>1
<1>3. \A z : ~(z \in a <=> z \in b) <=> ~(z \in w <=> z \in e)
  BY <1>1
<1>4. \A z : z \in Xor(Xor(m, n), Xor(o, b)) <=> ~(~(z \in m <=> z \in n) <=> ~(z \in o <=> z \in b))
  BY <1>1
<1>5. \A z : z \in Xor(w, Xor(e, n)) <=> ~(z \in w <=> ~(z \in e <=> z \in n))
  BY <1>1
<1> DEFINE X == Xor(Xor(m, n), Xor(o, b))
           Y == Xor(w, Xor(e, n))
<1>6. \A z : z \in X <=> z \in Y
  BY <1>2, <1>3, <1>4, <1>5
<1> HIDE DEF X, Y
<1>7. X = Y
  BY <1>6
<1> QED BY <1>7 DEF X, Y

\* An order takes every position.
LEMMA OrderOnto == ASSUME NEW h \in Nat, NEW t \in Orders(h), NEW s \in 1..h PROVE \E j \in 1..h : t[j] = s
<1>1. t \in [1..h -> 1..h] /\ \A i, j \in 1..h : t[i] = t[j] => i = j
  BY DEF Orders, IsInjective
<1>2. IsFiniteSet(1..h)
  BY FS_Interval, 1 \in Int
<1>3. t \in Injection(1..h, 1..h)
  BY <1>1 DEF Injection, IsInjective
<1>4. t \in Surjection(1..h, 1..h)
  BY <1>2, <1>3, FS_Injection
<1> QED BY <1>4 DEF Surjection

\* Where a round takes the spot that is soiled.
MovedMark(k, t, n, at, spot, at2, spot2) ==
  /\ (Soiled(k) => spot # 0) => (Soiled(k+1) => spot2 # 0)
  /\ \A c \in Column : \A j \in 1..Tall : Mark(k+1, c, j, at2, spot2) = Xor(Mark(k, c, t[j], at, spot), n[c][j])
\* The place that is wrong stays one place.
LEMMA MarksMove ==
  ASSUME Tall \in Nat, Tall >= 2, NEW k \in 0..(N-2), NEW t \in Orders(Tall), NEW n \in Noises(k),
         NEW at \in Column, NEW spot \in 0..Tall
  PROVE  \E at2 \in Column : \E spot2 \in 0..Tall : MovedMark(k, t, n, at, spot, at2, spot2)
<1>0. N \in Nat /\ \A x : Xor(x, {}) = x /\ Xor({}, x) = x
  BY Parties, XorLaws
<1>1. CASE conf.fault = <<"garbles", k>>
  <2>1. PICK at2 \in Column : n = Blot(k, at2)
    BY <1>1 DEF Noises
  <2>2. ~Soiled(k) /\ Soiled(k+1) /\ conf.fault[2] = k
    <3>1. k \in 0..((k+1)-1) /\ k \notin 0..(k-1)
      BY <1>0
    <3> QED BY <1>1, <3>1 DEF Soiled
  <2>3. ASSUME NEW c \in Column, NEW j \in 1..Tall
        PROVE  Mark(k+1, c, j, at2, 1) = Xor(Mark(k, c, t[j], at, spot), n[c][j])
    <3>1. Mark(k, c, t[j], at, spot) = {}
      BY <2>2 DEF Mark
    <3>2. n[c][j] = IF c = at2 /\ j = 1 THEN Garble(k, c) ELSE {}
      BY <2>1 DEF Blot
    <3>3. Mark(k+1, c, j, at2, 1) = IF c = at2 /\ j = 1 THEN Garble(k, c) ELSE {}
      BY <2>2 DEF Mark
    <3> QED BY <1>0, <3>1, <3>2, <3>3
  <2>4. 1 \in 0..Tall
    OBVIOUS
  <2>5. MovedMark(k, t, n, at, spot, at2, 1)
    BY <2>3 DEF MovedMark
  <2> QED BY <2>4, <2>5
<1>2. CASE conf.fault # <<"garbles", k>>
  <2>1. n = Clean
    BY <1>2 DEF Noises
  <2>2. Soiled(k+1) <=> Soiled(k)
    <3>1. \A l : l \in 0..((k+1)-1) <=> (l = k \/ l \in 0..(k-1))
      BY <1>0
    <3> QED BY <1>2, <3>1 DEF Soiled
  <2>3. PICK spot2 \in 0..Tall : (spot = 0 => spot2 = 0) /\ (spot # 0 => spot2 \in 1..Tall /\ t[spot2] = spot)
    <3>1. CASE spot = 0
      BY <3>1
    <3>2. CASE spot # 0
      BY <3>2, OrderOnto
    <3> QED BY <3>1, <3>2
  <2>4. (\A i, j \in 1..Tall : t[i] = t[j] => i = j) /\ \A i \in 1..Tall : t[i] # 0
    BY DEF Orders, IsInjective
  <2>5. ASSUME NEW c \in Column, NEW j \in 1..Tall
        PROVE  Mark(k+1, c, j, at, spot2) = Xor(Mark(k, c, t[j], at, spot), n[c][j])
    <3>1. n[c][j] = {}
      BY <2>1 DEF Clean
    <3>2. t[j] = spot <=> j = spot2
      BY <2>3, <2>4
    <3>3. Mark(k+1, c, j, at, spot2) = Mark(k, c, t[j], at, spot)
      BY <2>2, <3>2 DEF Mark
    <3> QED BY <1>0, <3>1, <3>3
  <2>6. MovedMark(k, t, n, at, spot, at, spot2)
    BY <2>2, <2>3, <2>5 DEF MovedMark
  <2> QED BY <2>6
<1> QED BY <1>1, <1>2

\* A driver who routes all columns alike.
LEMMA RoutesAlike ==
  ASSUME Straight, NEW k, NEW dest \in Routing(k), Tall \in Nat, Tall >= 2
  PROVE  \E t \in Orders(Tall) : \A c \in Column : Turning(dest)[c] = t
<1>1. PICK d \in Drawn(k) : dest = [c \in Column |-> d]
  BY DEF Straight, Routing
<1>2. Arrangement(Switches(d), Tall) \in Orders(Tall)
  BY ArrangementOrder
<1>3. \A c \in Column : Turning(dest)[c] = Arrangement(Switches(d), Tall)
  BY <1>1 DEF Turning
<1> QED BY <1>2, <1>3

\* The shares that come out of a round share the contributions in one more order.
LEMMA MixedRound ==
  ASSUME Straight, NEW k, NEW got, NEW dest, DrivesWell(k, got, dest), Mixed(share[SP], share[k], k)
  PROVE  Mixed(got, Handed(dest, Out(k, dest), share[k]), k+1)
<1> DEFINE handed == Handed(dest, Out(k, dest), share[k])
<1>0. /\ Tall \in Nat /\ Tall >= 2 /\ k \in 0..(N-2) /\ IsShare(share[SP], Tall) /\ IsShare(share[k], Tall)
      /\ dest \in Routing(k) /\ got \in Received(k, Delta(k, dest))
  BY DEF DrivesWell
<1>1. PICK t \in Orders(Tall) : \A c \in Column : Turning(dest)[c] = t
  BY <1>0, RoutesAlike
<1>2. /\ IsShare(Out(k, dest), Tall) /\ IsShare(Delta(k, dest), Tall)
      /\ \A c \in Column : \A j \in 1..Tall : Xor(Out(k, dest)[c][j], Delta(k, dest)[c][j]) = share[SP][c][t[j]]
  BY <1>0, <1>1, NetworksRejoin
<1>3. \A c \in Column : \A j \in 1..Tall : handed[c][j] = Xor(Out(k, dest)[c][j], share[k][c][t[j]])
  BY <1>0, <1>1, <1>2, HandedIs
<1>4. PICK n \in Noises(k) : SumOf(got, Delta(k, dest), n, Column, Tall)
  BY <1>0, <1>2, ReceivedIs
<1>5. PICK d \in Orders(Tall) : \E at \in Column : \E spot \in 0..Tall : Mingled(share[SP], share[k], k, d, at, spot)
  BY DEF Mixed
<1>6. PICK at \in Column : \E spot \in 0..Tall : Mingled(share[SP], share[k], k, d, at, spot)
  BY <1>5
<1>7. PICK spot \in 0..Tall : Mingled(share[SP], share[k], k, d, at, spot)
  BY <1>6
<1>8. PICK at2 \in Column : \E spot2 \in 0..Tall : MovedMark(k, t, n, at, spot, at2, spot2)
  BY <1>0, MarksMove
<1>9. PICK spot2 \in 0..Tall : MovedMark(k, t, n, at, spot, at2, spot2)
  BY <1>8
<1> DEFINE d2 == [j \in 1..Tall |-> d[t[j]]]
<1>10. d2 \in Orders(Tall)
  BY OrdersCompose
<1>11. \A j \in 1..Tall : d2[j] = d[t[j]] /\ t[j] \in 1..Tall
  BY DEF Orders
<1> HIDE DEF handed, d2
<1>12. ASSUME NEW c \in Column, NEW j \in 1..Tall
       PROVE  Xor(got[c][j], handed[c][j]) = Xor(Whole(c[1])[c][d2[j]], Mark(k+1, c, j, at2, spot2))
  <2>1. Xor(share[SP][c][t[j]], share[k][c][t[j]]) = Xor(Whole(c[1])[c][d2[j]], Mark(k, c, t[j], at, spot))
    BY <1>7, <1>11 DEF Mingled
  <2>2. got[c][j] = Xor(Delta(k, dest)[c][j], n[c][j])
    BY <1>4 DEF SumOf
  <2>3. Xor(Out(k, dest)[c][j], Delta(k, dest)[c][j]) = share[SP][c][t[j]]
    BY <1>2
  <2>4. Xor(Xor(Delta(k, dest)[c][j], n[c][j]), Xor(Out(k, dest)[c][j], share[k][c][t[j]]))
          = Xor(Whole(c[1])[c][d2[j]], Xor(Mark(k, c, t[j], at, spot), n[c][j]))
    BY <2>1, <2>3, XorChain
  <2> QED BY <1>3, <1>9, <2>2, <2>4 DEF MovedMark
<1>13. Mingled(got, handed, k+1, d2, at2, spot2)
  BY <1>7, <1>9, <1>12 DEF Mingled, MovedMark
<1>14. Mixed(got, handed, k+1)
  BY <1>10, <1>13 DEF Mixed
<1> QED BY <1>14 DEF handed

\* The masked columns and the masks are the shares of round 0.
LEMMA MixedStart == ASSUME Tall \in Nat, Fine PROVE Mixed(MaskedShare, MaskShare, 0)
<1> DEFINE id == [j \in 1..Tall |-> j]
<1>1. id \in Orders(Tall) /\ \A j \in 1..Tall : id[j] = j
  BY DEF Orders, IsInjective
<1>2. 0 \in 0..Tall /\ <<0, 1>> \in Column
  BY SizeAssumption, Parties DEF Column
<1> HIDE DEF id
<1>3. ASSUME NEW c \in Column, NEW j \in 1..Tall
      PROVE  Xor(MaskedShare[c][j], MaskShare[c][j]) = Xor(Whole(c[1])[c][id[j]], Mark(0, c, j, <<0, 1>>, 0))
  <2> DEFINE w == Whole(c[1])[c][j]
             m == MaskOf(c[1])[c][j]
  <2>1. MaskedShare[c][j] = Xor(w, m) /\ MaskShare[c][j] = m
    BY MaskedShareIs DEF MaskShare
  <2>2. Mark(0, c, j, <<0, 1>>, 0) = {}
    BY DEF Mark, Soiled
  <2>3. id[j] = j
    BY <1>1
  <2>4. Whole(c[1])[c][id[j]] = w
    BY <2>3
  <2> HIDE DEF w, m
  <2>5. Xor(Xor(w, m), m) = Xor(w, Xor(m, m))
    BY XorLaws
  <2>6. Xor(m, m) = {}
    BY XorLaws
  <2> QED BY <2>1, <2>2, <2>4, <2>5, <2>6
<1>4. Mingled(MaskedShare, MaskShare, 0, id, <<0, 1>>, 0)
  BY <1>3 DEF Mingled, Soiled
<1> QED BY <1>1, <1>2, <1>4 DEF Mixed

\* The provider and the driver of its round hold the two shares of the round.
LEMMA Meeting ==
  ASSUME Shape, Known, Carried, Straight, stage[SP] = "round", stage[round] = "drive", Tall \in Nat
  PROVE  Mixed(share[SP], share[round], round)
<1>0. round \in 0..(N-2)
  BY Parties DEF Shape, Rounds
<1>1. CASE round = 0
  <2>1. share[SP] = MaskedShare /\ share[round] = MaskShare /\ Fine
    BY <1>1 DEF Carried, Based
  <2> QED BY <1>1, <2>1, MixedStart
<1>2. CASE round # 0
  <2>1. round \in 1..(N-1)
    BY <1>0, <1>2, Parties
  <2>2. LeftAt(share[SP], round) /\ RightAt(share[round], round)
    BY DEF LeftAt, RightAt
  <2> QED BY <2>1, <2>2 DEF Carried, Mixing
<1> QED BY <1>1, <1>2
-----------------------------------------------------------------------------
\* The step of a driver takes the shares of its round to those of the next.
LEMMA DriveCarries ==
  ASSUME Shape, Known, Carried, NEW k, NEW got, NEW dest, DrivesWell(k, got, dest),
         UNCHANGED <<cand, rows, claims, bound, round, table>>
  PROVE  Carried'
<1> DEFINE S == Driving(k, got, dest)
           handed == Handed(dest, Out(k, dest), share[k])
<1>0. /\ k \in 0..(N-2) /\ round = k /\ stage[SP] = "round" /\ stage[k] = "drive" /\ Tall \in Nat /\ Tall >= 2
      /\ Driven(k, got, dest)
  BY DEF DrivesWell
<1>1. k \in Sender /\ k \in Party /\ k # SP /\ stage[k] \notin Ended /\ k+1 \in 1..(N-1) /\ k+1 \in Party
  BY <1>0, Parties DEF Sender, Party, Ended
<1>2. Posted(S) /\ Settled(k, "done") /\ Moved(k, S, "done")
  BY <1>0 DEF Driven, Moved
<1>3. Steady
  BY <1>1, <1>2, SenderSteady
<1>4. Onward /\ stage'[k] \in Ended /\ \A q \in Party : q # k => stage'[q] = stage[q]
  BY <1>1, <1>2, MoverOnward DEF Ended
<1>5. share'[k] = <<>> /\ \A q \in Party : q # k => share'[q] = share[q]
  BY <1>0, <1>1 DEF Driven, Known, ShareKnown
<1>6. \A m \in S : \/ m.on = Osn(k) /\ m.is = "osn" /\ m.val = got
                   \/ m.on = Mesh(k, k+1) /\ m.is = "handoff" /\ m.val = handed
                   \/ m.is = "opening"
  BY DEF Driving, Showing, Msg
<1>7. \A r \in 1..(N-1) : r \in Party /\ r \in Int
  BY Parties DEF Party
<1> HIDE DEF S, handed
<1>8. ASSUME NEW r \in 1..(N-1), NEW x, LeftAt(x, r)' PROVE LeftAt(x, r) \/ (r = k+1 /\ x = got)
  <2>1. CASE Letter(Osn(r-1), "osn", x)'
    <3>1. PICK m \in Flight(wire') : m.on = Osn(r-1) /\ m.is = "osn" /\ m.val = x
      BY <2>1 DEF Letter, Osn, SP
    <3>2. CASE m \in S
      <4>1. Osn(r-1) = Osn(k) /\ x = got
        BY <1>6, <3>1, <3>2
      <4>2. r-1 = k
        BY <4>1 DEF Osn
      <4> QED BY <1>7, <4>1, <4>2
    <3>3. CASE m \in Flight(wire)
      BY <3>1, <3>3 DEF Letter, LeftAt
    <3> QED BY <1>2, <3>1, <3>2, <3>3 DEF Posted
  <2>2. CASE round' = r /\ stage'[SP] \in {"round", "reveal"} /\ x = share'[SP]
    BY <1>1, <1>4, <1>5, <2>2, Parties DEF LeftAt
  <2> QED BY <1>8, <2>1, <2>2 DEF LeftAt, Osn, SP
<1>9. ASSUME NEW r \in 1..(N-1), NEW x, RightAt(x, r)' PROVE RightAt(x, r) \/ (r = k+1 /\ x = handed)
  <2>1. CASE Letter(Mesh(r-1, r), "handoff", x)'
    <3>1. PICK m \in Flight(wire') : m.on = Mesh(r-1, r) /\ m.is = "handoff" /\ m.val = x
      BY <2>1 DEF Letter, Mesh
    <3>2. CASE m \in S
      <4>1. Mesh(r-1, r) = Mesh(k, k+1) /\ x = handed
        BY <1>6, <3>1, <3>2
      <4>2. r = k+1
        BY <4>1 DEF Mesh
      <4> QED BY <4>1, <4>2
    <3>3. CASE m \in Flight(wire)
      BY <3>1, <3>3 DEF Letter, RightAt
    <3> QED BY <1>2, <3>1, <3>2, <3>3 DEF Posted
  <2>2. CASE stage'[r] = "drive" /\ x = share'[r]
    <3>1. r # k
      BY <1>4, <2>2 DEF Ended
    <3> QED BY <1>4, <1>5, <1>7, <2>2, <3>1 DEF RightAt
  <2>3. CASE r = N-1 /\ Letter(Reveal, "columns", x)'
    <3>1. \A m \in S : m.is # "columns"
      BY <1>6
    <3>2. Letter(Reveal, "columns", x)
      BY <1>2, <2>3, <3>1, LettersStay
    <3> QED BY <2>3, <3>2 DEF RightAt
  <2> QED BY <1>9, <2>1, <2>2, <2>3 DEF RightAt
<1>10. \A x : ~LeftAt(x, k+1) /\ ~RightAt(x, k+1)
  BY <1>0, <1>1 DEF Carried, Waiting
<1>11. Waiting'
  <2>1. ASSUME NEW l \in 0..(N-2), stage'[l] \notin Ended, NEW x PROVE ~LeftAt(x, l+1)' /\ ~RightAt(x, l+1)'
    <3>1. stage[l] \notin Ended /\ l+1 \in 1..(N-1) /\ l+1 # k+1
      BY <1>0, <1>4, <2>1, Parties DEF Onward
    <3> QED BY <1>8, <1>9, <3>1 DEF Carried, Waiting
  <2> QED BY <2>1 DEF Waiting
<1>12. Based'
  <2>1. (stage'[SP] = "round" /\ round' = 0 => share'[SP] = MaskedShare) /\ (stage'[0] = "drive" => share'[0] = MaskShare /\ Fine)
    BY <1>1, <1>4, <1>5, Parties DEF Carried, Based, Ended
  <2> QED BY <1>3, <2>1, SameBase DEF Based
<1>13. Straight' => Mixing'
  <2>1. conf' = conf
    BY <1>3 DEF Steady
  <2>2. ASSUME Straight, NEW r \in 1..(N-1), NEW a, NEW b, LeftAt(a, r)', RightAt(b, r)' PROVE Mixed(a, b, r)'
    <3>1. CASE r # k+1
      <4>1. Mixed(a, b, r)
        BY <1>8, <1>9, <2>2, <3>1 DEF Carried, Mixing
      <4> QED BY <1>3, <4>1, MixedStays
    <3>2. CASE r = k+1
      <4>1. a = got /\ b = handed
        BY <1>8, <1>9, <1>10, <2>2, <3>2
      <4>2. Mixed(share[SP], share[k], k)
        BY <1>0, <2>2, Meeting
      <4>3. Mixed(got, handed, k+1)
        BY <2>2, <4>2, MixedRound DEF handed
      <4>4. Mixed(a, b, r)
        BY <3>2, <4>1, <4>3
      <4> QED BY <1>3, <4>4, MixedStays
    <3> QED BY <3>1, <3>2
  <2> QED BY <2>1, <2>2 DEF Mixing, Straight
<1> QED BY <1>11, <1>12, <1>13 DEF Carried

LEMMA DriveCarried == ASSUME Shape, Known, Carried, NEW k \in Sender, Drive(k) PROVE Carried'
<1>0. UNCHANGED <<cand, rows, claims, bound, round, table>> /\ stage[k] \notin Ended
  BY DEF Drive, At, Ended
<1>1. CASE share' = share /\ Moved(k, {}, "failed")
  <2>1. \A m \in {} : m.is \in Carriers => Bearing(m)
    OBVIOUS
  <2> QED BY <1>0, <1>1, <2>1, SenderCarried
<1> QED BY <1>0, <1>1, DriveOutcome, DriveCarries

\* Carried is an invariant.
LEMMA CarriedInit == ASSUME Init PROVE Carried
<1>1. /\ stage = [p \in Party |-> IF p = SP THEN "greet" ELSE IF conf.salted THEN "salt" ELSE "session"]
      /\ wire = [ch \in Channel |-> <<>>]
  BY DEF Init
<1>2. stage[SP] \notin {"round", "reveal"} /\ \A i \in Sender : stage[i] # "drive"
  BY <1>1, Parties
<1>3. \A ch, is, x : ~Letter(ch, is, x)
  BY <1>1 DEF Letter, Flight, ToSet
<1>4. \A r \in 1..(N-1) : \A x : ~LeftAt(x, r) /\ ~RightAt(x, r)
  <2>1. \A r \in 1..(N-1) : r \in Sender
    BY Parties DEF Sender
  <2> QED BY <1>2, <1>3, <2>1 DEF LeftAt, RightAt
<1>5. \A k \in 0..(N-2) : k+1 \in 1..(N-1)
  BY Parties
<1> QED BY <1>2, <1>4, <1>5, Parties DEF Carried, Waiting, Based, Mixing

LEMMA CarriedNext == ASSUME Shape, Known, Carried, [Next]_vars PROVE Carried'
<1>1. CASE Quiet
  BY <1>1, QuietCarried
<1>2. CASE Loud
  BY <1>2, TellCarried, StepsCarried DEF Loud
<1>3. ASSUME NEW i \in Sender, LoudOf(i) PROVE Carried'
  BY <1>3, SendersCarried, DriveCarried DEF LoudOf
<1> QED BY <1>1, <1>2, <1>3, StepKinds

IInv == Shape /\ Known /\ Carried
(* In every state of a session IInv holds: parties and sockets are as the roles
   say, what is told and kept is of one intersection and one height, and the two
   shares of a round, in hand or on the way, together hold every contribution in
   one order, but for the block that a driver at fault corrupted. *)
THEOREM Invariance == Spec => []IInv
<1>1. Init => IInv
  BY ShapeInit, KnownInit, CarriedInit DEF IInv
<1>2. IInv /\ [Next]_vars => IInv'
  BY ShapeNext, KnownNext, CarriedNext DEF IInv
<1> QED BY <1>1, <1>2, PTL DEF Spec

(* Whenever the provider and the driver of the next round meet in runSp and
   runSender, "M_k[c] XOR R_k[c] = composed-shuffle-so-far applied to c_c" for one
   order of all columns, in every session whose drivers follow the protocol. *)
THEOREM Shares == Spec => []CascadeShares
<1>1. ASSUME IInv PROVE CascadeShares
  <2>1. SUFFICES ASSUME stage[SP] = "round", stage[round] = "drive", conf.fault[1] \notin {"misroutes", "garbles"}
                 PROVE  \E d \in Orders(Height(cand)) : XorColumns(share[SP], share[round]) = Permute(Joined, [c \in Column |-> d])
    BY DEF CascadeShares
  <2>2. Shape /\ Known /\ Carried /\ Straight
    BY <1>1, <2>1 DEF IInv, Straight
  <2>3. Tall \in Nat /\ Height(cand) = Tall /\ round \in Sender /\ stage[round] \in Late
    <3>1. round \in Sender
      BY <2>2, Parties DEF Shape, Rounds, Sender
    <3> QED BY <2>1, <2>2, <3>1, TallNat, HeightIs DEF Known, Tall, Late
  <2>4. IsShare(share[SP], Tall) /\ \A i \in Sender : rows[i] = Whole(i)
    BY <2>1, <2>2 DEF Known, SpKnown, Shuffling
  <2> DEFINE x == XorColumns(share[SP], share[round])
  <2>5. Spanning(x, Column, Tall) /\ SumOf(x, share[SP], share[round], Column, Tall)
    BY <2>4, XorShape DEF IsShare
  <2>6. \A r : ~Soiled(r)
    BY <2>1 DEF Soiled
  <2>7. ASSUME NEW d \in Orders(Tall), NEW at, NEW spot, Mingled(share[SP], share[round], round, d, at, spot)
        PROVE  x = Permute(Joined, [c \in Column |-> d])
    <3>1. \A c \in Column : \A j \in 1..Tall : x[c][j] = Whole(c[1])[c][d[j]]
      <4>1. ASSUME NEW c \in Column, NEW j \in 1..Tall PROVE x[c][j] = Whole(c[1])[c][d[j]]
        <5>1. Mark(round, c, j, at, spot) = {}
          BY <2>6 DEF Mark
        <5>2. x[c][j] = Xor(Whole(c[1])[c][d[j]], {})
          BY <2>5, <2>7, <5>1 DEF SumOf, Mingled
        <5> QED BY <5>2, XorLaws
      <4> QED BY <4>1
    <3>2. \A c \in Column : Joined[c] = Whole(c[1])[c] /\ DOMAIN Joined[c] = 1..Tall
      <4>1. ASSUME NEW c \in Column PROVE Joined[c] = Whole(c[1])[c] /\ DOMAIN Joined[c] = 1..Tall
        <5>1. Joined[c] = Whole(c[1])[c]
          BY <2>4, Owns DEF Joined
        <5>2. IsColumn(Whole(c[1])[c], Tall)
          BY WholeShape, Owns DEF Spanning
        <5> QED BY <2>3, <5>1, <5>2, ColumnLen
      <4> QED BY <4>1
    <3>3. DOMAIN Joined = Column
      BY DEF Joined
    <3> DEFINE y == Permute(Joined, [c \in Column |-> d])
               col(c) == [j \in 1..Tall |-> Whole(c[1])[c][d[j]]]
    <3>4. y = [c \in Column |-> col(c)]
      BY <3>2, <3>3 DEF Permute
    <3>5. \A c \in Column : x[c] = col(c)
      BY <2>5, <3>1 DEF Spanning, IsColumn
    <3>6. x = [c \in Column |-> x[c]]
      BY <2>5 DEF Spanning
    <3> HIDE DEF x, y, col
    <3>7. x = y
      BY <3>4, <3>5, <3>6
    <3> QED BY <3>7 DEF y
  <2> QED BY <2>1, <2>2, <2>3, <2>7, Meeting DEF Mixed
<1> QED BY <1>1, Invariance, PTL
-----------------------------------------------------------------------------
(* Signatures: the provider goes on when every party's is good. *)
SwornMail(m) ==
  /\ m.is = "spsig" => m.val = Genuine(SP)
  /\ m.is = "signature" => m.val = Genuine(m.on[2]) /\ Genuine(SP)
Unsworn == {"greet", "signatures", "failed"}
Sworn ==
  /\ \A m \in Flight(wire) : SwornMail(m)
  /\ conf.auth /\ stage[SP] \notin Unsworn => \A p \in Party : Genuine(p)

\* What the steps that matter send, and who moves.
Oaths == {"spsig", "signature"}
Plainly(S) == \A m \in S : m \in Quietly \/ m.is \notin Oaths
LEMMA LoudMoves ==
  ASSUME Shape, Loud
  PROVE  stage[SP] \notin Unsworn \cup Ended /\ \E S, next : Moved(SP, S, next) /\ Plainly(S)
<1>0. Queues(wire)
  BY DEF Shape
<1>1. stage[SP] \notin Unsworn \cup Ended
  BY DEF Loud, Hashes, Seed, Cascade, Masked, Round, Revealed, Openings, At, Unsworn, Ended
<1>2. Plainly(Quietly) /\ Plainly({})
  BY DEF Plainly
<1>3. ASSUME NEW s, At(SP, s), NEW next, Move(SP, <<>>, next) PROVE \E S, n : Moved(SP, S, n) /\ Plainly(S)
  BY <1>0, <1>2, <1>3, SilentOut
<1>4. ASSUME NEW common, Telling(common) PROVE \E S, n : Moved(SP, S, n) /\ Plainly(S)
  <2>1. PICK n : Moved(SP, ToAll("result", common), n)
    BY <1>4 DEF Telling
  <2>2. Plainly(ToAll("result", common))
    BY DEF Plainly, ToAll, Msg, Oaths
  <2> QED BY <2>1, <2>2
<1>5. CASE Hashes
  <2>1. At(SP, "hashes") /\ Tell(SeenByAll)
    BY <1>5 DEF Hashes
  <2> QED BY <1>0, <1>1, <1>4, <2>1, TellOut
<1>6. CASE Seed
  BY <1>0, <1>1, <1>2, <1>6, SeedOut
<1>7. CASE Cascade
  <2>1. round # 0 /\ round \in 0..(N-1)
    BY <1>7 DEF Cascade, At, Shape, Rounds
  <2>2. round \in 1..(N-1)
    BY <2>1, Parties
  <2> QED BY <1>0, <1>1, <1>2, <1>4, <1>7, <2>2, CascadeOut
<1>8. CASE Masked
  <2>1. At(SP, "masked") /\ Move(SP, <<>>, "round")
    BY <1>8 DEF Masked
  <2> QED BY <1>1, <1>3, <2>1
<1>9. CASE Round
  <2>1. PICK next : At(SP, "round") /\ Move(SP, <<>>, next)
    BY <1>9 DEF Round
  <2> QED BY <1>1, <1>3, <2>1
<1>10. CASE Revealed
  <2>1. At(SP, "reveal") /\ (Move(SP, <<>>, "openings") \/ Move(SP, <<>>, "done"))
    BY <1>10 DEF Revealed
  <2> QED BY <1>1, <1>3, <2>1
<1>11. CASE Openings
  <2>1. At(SP, "openings") /\ (Move(SP, <<>>, "done") \/ Move(SP, <<>>, "failed"))
    BY <1>11 DEF Openings
  <2> QED BY <1>1, <1>3, <2>1
<1> QED BY <1>5, <1>6, <1>7, <1>8, <1>9, <1>10, <1>11 DEF Loud

\* The same for a sender.
LEMMA LoudOfMoves ==
  ASSUME Shape, Known, NEW i \in Sender, LoudOf(i)
  PROVE  \E S, next : Moved(i, S, next) /\ Plainly(S)
<1>0. Queues(wire)
  BY DEF Shape
<1>2. Plainly({})
  BY DEF Plainly
<1>3. CASE Result(i)
  <2>1. CASE Contributing(i, Got(i, 1))
    <3> DEFINE S == {Msg(Star(i, SP), "masked", MaskedOf(i, Got(i, 1)))} \cup Quietly
    <3>1. Moved(i, S, "peerKeys")
      BY <2>1 DEF Contributing
    <3>2. Plainly(S)
      BY DEF Plainly, Msg, Oaths
    <3> HIDE DEF S
    <3> QED BY <3>1, <3>2
  <2> QED BY <1>0, <1>2, <1>3, <2>1, ResultOut
<1>4. CASE PeerKeys(i)
  <2>1. Plainly(Commits(i))
    BY DEF Plainly, Commits, ToPeers, Msg, Oaths
  <2> QED BY <1>0, <1>4, <2>1, PeerKeysOut
<1>5. CASE PeerCommits(i)
  <2>1. Plainly(ShowsMask(i))
    BY DEF Plainly, ShowsMask, Msg, Oaths
  <2> QED BY <1>0, <1>5, <2>1, PeerCommitsOut
<1>6. CASE i = 0 /\ Opens
  BY <1>2, <1>6, OpensOutcome
<1>7. CASE Turn(i)
  <2>1. Plainly(Revealing(i))
    BY DEF Plainly, Revealing, Showing, Msg, Oaths
  <2> QED BY <1>0, <1>2, <1>7, <2>1, TurnOut
<1>8. CASE Drive(i)
  <2>1. \A got, dest : Plainly(Driving(i, got, dest))
    BY DEF Plainly, Driving, Showing, Msg, Oaths
  <2>2. ASSUME NEW dest, NEW got, DrivesWell(i, got, dest) PROVE \E S, next : Moved(i, S, next) /\ Plainly(S)
    BY <2>1, <2>2 DEF DrivesWell, Driven
  <2> QED BY <1>2, <1>8, <2>2, DriveOutcome
<1> QED BY <1>3, <1>4, <1>5, <1>6, <1>7, <1>8 DEF LoudOf

LEMMA QuietlySworn == ASSUME Shape, Sworn, NEW m \in Quietly PROVE SwornMail(m)
<1>1. CASE m \in Errands \/ m \in Filed
  <2>1. m.is \notin Oaths
    BY <1>1 DEF Errands, Filed, Msg, Oaths
  <2> QED BY <2>1 DEF SwornMail, Oaths
<1>2. CASE m \in Signed
  <2>1. CASE m \in {Msg(Star(SP, i), "spsig", Genuine(SP)) : i \in Sender}
    BY <2>1 DEF Msg, SwornMail
  <2>2. CASE m \in {Msg(Star(i, SP), "signature", Genuine(i)) : i \in {j \in Sender : Satisfied(j)}}
    <3>1. PICK i \in Sender : Satisfied(i) /\ m = Msg(Star(i, SP), "signature", Genuine(i))
      BY <2>2
    <3>2. At(i, "spsig") /\ Got(i, 1)
      BY <3>1 DEF Satisfied
    <3>3. Letter(Star(SP, i), "spsig", Got(i, 1))
      BY <3>2, SenderReads DEF At
    <3>4. Got(i, 1) = Genuine(SP)
      BY <3>3 DEF Letter, Sworn, SwornMail
    <3>5. m.is = "signature" /\ m.val = Genuine(i) /\ m.on[2] = i
      BY <3>1 DEF Msg, Star
    <3> QED BY <3>2, <3>4, <3>5 DEF SwornMail
  <2> QED BY <1>2, <2>1, <2>2 DEF Signed
<1> QED BY <1>1, <1>2 DEF Quietly

\* A step after which the signatures are as they were.
LEMMA SwornStep ==
  ASSUME Shape, Sworn, conf' = conf, NEW S, Posted(S), Plainly(S),
         stage'[SP] \notin Unsworn /\ conf.auth => stage[SP] \notin Unsworn \/ \A p \in Party : Genuine(p)
  PROVE  Sworn'
<1>1. \A p : Genuine(p)' = Genuine(p)
  BY DEF Genuine
<1>2. ASSUME NEW m \in Flight(wire') PROVE SwornMail(m)
  <2>1. CASE m \in Flight(wire)
    BY <2>1 DEF Sworn
  <2>2. CASE m \in S
    <3>1. CASE m \in Quietly
      BY <3>1, QuietlySworn
    <3>2. CASE m.is \notin Oaths
      BY <3>2 DEF SwornMail, Oaths
    <3> QED BY <2>2, <3>1, <3>2 DEF Plainly
  <2> QED BY <2>1, <2>2 DEF Posted
<1>3. \A m : SwornMail(m)' <=> SwornMail(m)
  BY <1>1 DEF SwornMail, SP
<1>4. conf.auth /\ stage'[SP] \notin Unsworn => \A p \in Party : Genuine(p)
  BY DEF Sworn
<1> QED BY <1>1, <1>2, <1>3, <1>4 DEF Sworn, SP, Party

\* Sworn is an invariant.
LEMMA SwornNext == ASSUME Shape, Known, Sworn, [Next]_vars PROVE Sworn'
<1>1. CASE Quiet
  <2>1. conf' = conf /\ Posted(Quietly) /\ Plainly(Quietly)
    BY <1>1 DEF Quiet, Plainly
  <2>2. stage'[SP] \notin Unsworn /\ conf.auth => stage[SP] \notin Unsworn \/ \A p \in Party : Genuine(p)
    <3>1. SUFFICES ASSUME stage'[SP] \notin Unsworn, conf.auth, stage[SP] \in Unsworn
                   PROVE  \A p \in Party : Genuine(p)
      OBVIOUS
    <3>2. PICK q \in Party : \E t \in Early(q) \cup {"failed"} : Advance(q, t)
      BY <1>1, <3>1 DEF Quiet
    <3>3. PICK t \in Early(q) \cup {"failed"} : Advance(q, t)
      BY <3>2
    <3>4. q = SP /\ stage'[SP] = t
      BY <3>1, <3>3 DEF Advance, Shape, Stationed
    <3>5. t \notin Unsworn /\ stage[SP] \in {"greet", "signatures"} /\ Admitted(t)
      BY <3>1, <3>3, <3>4 DEF Advance, Unsworn, Early
    <3>6. At(SP, "signatures") /\ \A n \in 1..N : Got(SP, n)
      BY <3>1, <3>5 DEF Admitted, Cleared, Unsworn
    <3>7. \A i \in Sender : Letter(Star(i, SP), "signature", Got(SP, i+1))
      BY <3>6, ProviderReads DEF At
    <3>8. ASSUME NEW i \in Sender PROVE Genuine(i) /\ Genuine(SP)
      <4>1. i+1 \in 1..N
        BY Parties DEF Sender
      <4>2. Got(SP, i+1) /\ Letter(Star(i, SP), "signature", Got(SP, i+1))
        BY <3>6, <3>7, <4>1
      <4>3. PICK m \in Flight(wire) : m.on = Star(i, SP) /\ m.is = "signature" /\ m.val = Got(SP, i+1)
        BY <4>2 DEF Letter
      <4>4. m.on[2] = i /\ SwornMail(m)
        BY <4>3 DEF Star, Sworn
      <4> QED BY <4>2, <4>3, <4>4 DEF SwornMail
    <3> QED BY <3>8, Parties
  <2> QED BY <2>1, <2>2, SwornStep
<1>2. CASE Loud
  <2>1. stage[SP] \notin Unsworn
    BY <1>2, LoudMoves
  <2>2. PICK S, next : Moved(SP, S, next) /\ Plainly(S)
    BY <1>2, LoudMoves
  <2>3. conf' = conf /\ Posted(S)
    BY <2>2 DEF Moved, Settled
  <2> QED BY <2>1, <2>2, <2>3, SwornStep
<1>3. ASSUME NEW i \in Sender, LoudOf(i) PROVE Sworn'
  <2>2. PICK S, next : Moved(i, S, next) /\ Plainly(S)
    BY <1>3, LoudOfMoves
  <2>3. conf' = conf /\ Posted(S) /\ stage'[SP] = stage[SP]
    BY <2>2, SenderMoves DEF Moved
  <2> QED BY <2>2, <2>3, SwornStep
<1> QED BY <1>1, <1>2, <1>3, StepKinds

LEMMA SwornInit == ASSUME Init PROVE Sworn
<1>1. /\ stage = [p \in Party |-> IF p = SP THEN "greet" ELSE IF conf.salted THEN "salt" ELSE "session"]
      /\ wire = [ch \in Channel |-> <<>>]
  BY DEF Init
<1>2. stage[SP] \in Unsworn
  BY <1>1, Parties DEF Unsworn
<1>3. Flight(wire) = {}
  BY <1>1 DEF Flight, ToSet
<1> QED BY <1>2, <1>3 DEF Sworn
-----------------------------------------------------------------------------
(* The intersection: what the provider tells is what all the files have. *)

\* The occurrences of an id in the files are one a file that has it.
Hits(files, n, id) == UNION {{<<m, k>> : k \in {j \in DOMAIN files[m] : files[m][j] = id}} : m \in 1..n}
InEvery(files, n, id) == \A m \in 1..n : \E k \in DOMAIN files[m] : files[m][k] = id
Listed(files, n) == \A m \in 1..n : IsInjective(files[m])
\* They are n in n files exactly when the id is in all of them.
LEMMA HitsInAll ==
  ASSUME NEW n \in Nat, NEW files, Listed(files, n), NEW id
  PROVE  Cardinality(Hits(files, n, id)) = n <=> InEvery(files, n, id)
<1> DEFINE P == Hits(files, n, id)
           f == [x \in P |-> x[1]]
<1>1. \A x : x \in P <=> \E m \in 1..n : \E k \in DOMAIN files[m] : files[m][k] = id /\ x = <<m, k>>
  BY DEF Hits
<1> HIDE DEF P
<1>2. \A x \in P : f[x] \in 1..n
  BY <1>1
<1>3. ASSUME NEW x \in P, NEW y \in P, f[x] = f[y] PROVE x = y
  <2>1. x[1] = y[1]
    BY <1>3
  <2>2. PICK m \in 1..n : \E k \in DOMAIN files[m] : files[m][k] = id /\ x = <<m, k>>
    BY <1>1
  <2>3. PICK k \in DOMAIN files[m] : files[m][k] = id /\ x = <<m, k>>
    BY <2>2
  <2>4. PICK p \in 1..n : \E q \in DOMAIN files[p] : files[p][q] = id /\ y = <<p, q>>
    BY <1>1
  <2>5. PICK q \in DOMAIN files[p] : files[p][q] = id /\ y = <<p, q>>
    BY <2>4
  <2>6. m = p
    BY <2>1, <2>3, <2>5
  <2>7. k = q
    BY <2>3, <2>5, <2>6 DEF IsInjective, Listed
  <2> QED BY <2>3, <2>5, <2>6, <2>7
<1>4. f \in Injection(P, 1..n)
  BY <1>2, <1>3 DEF Injection, IsInjective
<1>5. IsFiniteSet(1..n) /\ Cardinality(1..n) = n
  BY FS_Interval, 1 \in Int
<1>6. Cardinality(P) = n <=> f \in Surjection(P, 1..n)
  BY <1>4, <1>5, FS_Injection
<1>7. f \in Surjection(P, 1..n) <=> \A m \in 1..n : \E x \in P : f[x] = m
  BY <1>2 DEF Surjection
<1>8. ASSUME NEW m \in 1..n PROVE (\E x \in P : f[x] = m) <=> \E k \in DOMAIN files[m] : files[m][k] = id
  <2>1. ASSUME NEW x \in P, f[x] = m PROVE \E k \in DOMAIN files[m] : files[m][k] = id
    <3>1. x[1] = m
      BY <2>1
    <3>2. PICK p \in 1..n : \E q \in DOMAIN files[p] : files[p][q] = id /\ x = <<p, q>>
      BY <1>1
    <3>3. p = m
      BY <3>1, <3>2
    <3> QED BY <3>2, <3>3
  <2>2. ASSUME NEW k \in DOMAIN files[m], files[m][k] = id PROVE \E x \in P : f[x] = m
    <3>1. <<m, k>> \in P
      BY <1>1, <2>2
    <3>2. f[<<m, k>>] = m
      BY <3>1
    <3> QED BY <3>1, <3>2
  <2> QED BY <2>1, <2>2
<1> HIDE DEF f
<1>9. Cardinality(P) = n <=> \A m \in 1..n : \E k \in DOMAIN files[m] : files[m][k] = id
  BY <1>6, <1>7, <1>8
<1> QED BY <1>9 DEF P, InEvery

\* The ids of a file, and those of file 0 that the first r files have.
IdsOf(i) == ToSet(csv[i])
InFirst(r) == {id \in IdsOf(0) : \A i \in 0..(r-1) : id \in IdsOf(i)}

LEMMA CommonIs == Ideal!Common = {id \in IdsOf(0) : \A i \in Sender : id \in IdsOf(i)}
<1>1. 0 \in Sender
  BY Parties
<1>2. Ideal!Sender = Sender
  BY DEF Ideal!Sender, Sender
<1>3. \A id : id \in Ideal!Common <=> \A i \in Sender : id \in IdsOf(i)
  <2>0. Ideal!Common = {id \in UNION {ToSet(csv[i]) : i \in Ideal!Sender} : \A i \in Ideal!Sender : id \in ToSet(csv[i])}
    BY Zenon DEF Ideal!Common, Ideal!ToSet, ToSet
  <2>1. \A id : id \in Ideal!Common <=> id \in UNION {ToSet(csv[i]) : i \in Sender} /\ \A i \in Sender : id \in ToSet(csv[i])
    BY <1>2, <2>0, Zenon
  <2> QED BY <1>1, <2>1 DEF IdsOf
<1> QED BY <1>1, <1>3

LEMMA InFirstGrows ==
  /\ InFirst(1) = IdsOf(0) /\ InFirst(N) = Ideal!Common
  /\ \A r \in 1..(N-1) : InFirst(r) \cap IdsOf(r) = InFirst(r+1)
<1>1. InFirst(N) = Ideal!Common
  BY CommonIs DEF InFirst, Sender
<1>2. 0..(1-1) = {0}
  OBVIOUS
<1>3. InFirst(1) = IdsOf(0)
  BY <1>2 DEF InFirst
<1>4. ASSUME NEW r \in 1..(N-1) PROVE InFirst(r) \cap IdsOf(r) = InFirst(r+1)
  <2>1. \A i : i \in 0..((r+1)-1) <=> (i = r \/ i \in 0..(r-1))
    <3>1. r \in Int /\ r >= 1
      BY SizeAssumption
    <3> QED BY <3>1
  <2>2. \A id : id \in InFirst(r+1) <=> id \in InFirst(r) /\ id \in IdsOf(r)
    BY <2>1 DEF InFirst
  <2> QED BY <2>2
<1> QED BY <1>1, <1>3, <1>4

\* RsMpsi3rdPReceiver finds the intersection.
LEMMA SeenIsCommon == ASSUME Shape, Known, Hashes PROVE SeenByAll = Ideal!Common
<1>1. stage[SP] = "hashes" /\ Arrived(SP)
  BY DEF Hashes, At
<1>2. ASSUME NEW n \in 1..N PROVE Got(SP, n) = csv[n-1] /\ n-1 \in Sender
  <2>1. n-1 \in Sender /\ (n-1)+1 = n
    BY Parties DEF Sender
  <2>2. Letter(Star(n-1, SP), "set", Got(SP, n))
    BY <1>1, <2>1, ProviderReads
  <2>3. Got(SP, n) = csv[Star(n-1, SP)[2]]
    BY <2>2, LetterSound DEF Known
  <2> QED BY <2>1, <2>3 DEF Star
<1> DEFINE files == [n \in 1..N |-> csv[n-1]]
<1>3. \A n \in 1..N : files[n] = csv[n-1] /\ IsInjective(files[n])
  BY <1>2, FileAssumption DEF Shape
<1>4. \A n \in 1..N : Got(SP, n) = files[n]
  BY <1>2
<1> HIDE DEF files
<1>5. ASSUME NEW id PROVE Occurrences(id) = N <=> id \in Ideal!Common
  <2>1. Occurrences(id) = Cardinality(Hits(files, N, id))
    <3> DEFINE U == UNION {{<<n, k>> : k \in {j \in DOMAIN Got(SP, n) : Got(SP, n)[j] = id}} : n \in 1..N}
               V == Hits(files, N, id)
    <3>1. \A x : x \in U <=> \E n \in 1..N : \E k \in DOMAIN Got(SP, n) : Got(SP, n)[k] = id /\ x = <<n, k>>
      OBVIOUS
    <3>2. \A x : x \in V <=> \E n \in 1..N : \E k \in DOMAIN files[n] : files[n][k] = id /\ x = <<n, k>>
      BY DEF Hits
    <3>3. Occurrences(id) = Cardinality(U)
      BY Zenon DEF Occurrences
    <3> HIDE DEF U, V
    <3>4. U = V
      BY <1>4, <3>1, <3>2
    <3> QED BY <3>3, <3>4 DEF V
  <2>2. Occurrences(id) = N <=> InEvery(files, N, id)
    <3>1. N \in Nat /\ Listed(files, N)
      BY <1>3, Parties DEF Listed
    <3> QED BY <2>1, <3>1, HitsInAll
  <2>3. \A n \in 1..N : (\E k \in DOMAIN files[n] : files[n][k] = id) <=> id \in IdsOf(n-1)
    BY <1>3 DEF IdsOf, ToSet
  <2>4. Occurrences(id) = N <=> \A n \in 1..N : id \in IdsOf(n-1)
    BY <2>2, <2>3 DEF InEvery
  <2>5. (\A n \in 1..N : id \in IdsOf(n-1)) <=> \A i \in Sender : id \in IdsOf(i)
    <3>1. \A i \in Sender : i+1 \in 1..N /\ (i+1)-1 = i
      BY Parties DEF Sender
    <3>2. \A n \in 1..N : n-1 \in Sender
      BY <1>2
    <3> QED BY <3>1, <3>2
  <2> QED BY <2>4, <2>5, CommonIs, Parties
<1>6. \A id : id \in SeenByAll <=> id \in UNION {ToSet(Got(SP, n)) : n \in 1..N} /\ Occurrences(id) = N
  BY DEF SeenByAll
<1>7. \A id : id \in Ideal!Common => id \in UNION {ToSet(Got(SP, n)) : n \in 1..N}
  <2>1. 1 \in 1..N
    BY Parties
  <2>2. Got(SP, 1) = csv[0]
    BY <1>2, <2>1
  <2>3. \A id : id \in Ideal!Common => id \in ToSet(Got(SP, 1))
    BY <2>2, CommonIs DEF IdsOf
  <2> QED BY <2>1, <2>3
<1> QED BY <1>5, <1>6, <1>7
-----------------------------------------------------------------------------
\* The provider's candidates, on the way to the intersection, and its table.
Settling == {"masked", "round", "reveal", "openings"}
Agreed ==
  /\ stage[SP] = "cascade" => cand = InFirst(round)
  /\ stage[SP] \in Settling => cand = Ideal!Common /\ ~(Cardinality(cand) < conf.minK)
  /\ table # NoTable => stage[SP] \in Ended

LEMMA SameCommon ==
  ASSUME csv' = csv
  PROVE  Ideal!Common' = Ideal!Common /\ \A r : InFirst(r)' = InFirst(r)
<1>1. Ideal!Common' = Ideal!Common
  BY DEF Ideal!Common
<1>2. ASSUME NEW r PROVE InFirst(r)' = InFirst(r)
  BY DEF InFirst, IdsOf
<1> QED BY <1>1, <1>2

LEMMA AgreedStays ==
  ASSUME Agreed, csv' = csv, conf' = conf, cand' = cand, table' = table,
         stage'[SP] = "cascade" => stage[SP] = "cascade" /\ round' = round,
         stage'[SP] \in Settling => stage[SP] \in Settling,
         stage[SP] \in Ended => stage'[SP] \in Ended
  PROVE  Agreed'
<1>1. stage'[SP] = "cascade" => cand' = InFirst(round)'
  <2>1. ASSUME round' = round PROVE InFirst(round)' = InFirst(round)
    BY <2>1 DEF InFirst, IdsOf
  <2> QED BY <2>1 DEF Agreed
<1>2. stage'[SP] \in Settling => cand' = Ideal!Common' /\ ~(Cardinality(cand') < conf'.minK)
  BY SameCommon DEF Agreed
<1>3. table' # NoTable => stage'[SP] \in Ended
  BY DEF Agreed
<1> QED BY <1>1, <1>2, <1>3 DEF Agreed, SP

\* A sender's step leaves all of it alone.
LEMMA LoudOfKeeps ==
  ASSUME Shape, Known, NEW i \in Sender, LoudOf(i)
  PROVE  UNCHANGED <<conf, csv, cand, claims, round, table>> /\ stage'[SP] = stage[SP] /\ share'[SP] = share[SP]
<1>1. PICK S, next : Moved(i, S, next)
  BY LoudOfMoves
<1>2. stage'[SP] = stage[SP] /\ conf' = conf /\ csv' = csv
  BY <1>1, SenderMoves DEF Moved
<1>3. UNCHANGED <<cand, claims, round, table>>
  BY DEF LoudOf, Result, PeerKeys, PeerCommits, Opens, Turn, Drive, data
<1>4. share' = share \/ \E v : share' = [share EXCEPT ![i] = v]
  <2>1. CASE Opens /\ i = 0
    BY <2>1, OpensOutcome
  <2>2. CASE Turn(i)
    BY <2>2 DEF Turn
  <2>3. CASE Drive(i)
    BY <2>3, DriveOutcome DEF DrivesWell, Driven
  <2>4. CASE Result(i) \/ PeerKeys(i) \/ PeerCommits(i)
    BY <2>4 DEF Result, PeerKeys, PeerCommits, data
  <2> QED BY <2>1, <2>2, <2>3, <2>4 DEF LoudOf
<1>5. share'[SP] = share[SP]
  BY <1>4, Parties DEF Known, ShareKnown
<1> QED BY <1>2, <1>3, <1>5

\* What the provider's steps make of its stage.
LEMMA QuietStages ==
  ASSUME Shape, Quiet
  PROVE  stage'[SP] = stage[SP] \/ stage'[SP] = "failed" \/ (stage[SP] \in Early(SP) /\ stage'[SP] \in Early(SP))
<1>1. CASE stage' = stage
  BY <1>1
<1>2. ASSUME NEW p \in Party, NEW s \in Early(p) \cup {"failed"}, Advance(p, s)
      PROVE  stage'[SP] = stage[SP] \/ stage'[SP] = "failed" \/ (stage[SP] \in Early(SP) /\ stage'[SP] \in Early(SP))
  <2>1. stage' = [stage EXCEPT ![p] = s] /\ (s = "failed" \/ (stage[p] \in Early(p) /\ s \in Early(p)))
    BY <1>2 DEF Advance
  <2> QED BY <2>1 DEF Shape, Stationed
<1> QED BY <1>1, <1>2 DEF Quiet

\* What the provider tells, by either protocol, is the intersection.
LEMMA TellAgreed == ASSUME Shape, Known, Agreed, Hashes \/ Seed \/ Cascade PROVE Agreed'
<1>0. Queues(wire) /\ stage[SP] \notin Ended /\ table' = table /\ Arrived(SP)
  BY DEF Shape, Hashes, Seed, Cascade, At, Ended
<1>1. table' = NoTable
  BY <1>0 DEF Agreed
<1>2. ASSUME NEW common, Telling(common), common = Ideal!Common PROVE Agreed'
  <2> DEFINE next == IF Cardinality(common) < conf.minK THEN "failed" ELSE "masked"
  <2>1. Settled(SP, next) /\ cand' = common
    BY <1>2 DEF Telling, Moved
  <2>2. stage'[SP] \in {next, "failed"} /\ conf' = conf /\ csv' = csv
    BY <2>1, SpMoves
  <2>3. cand' = Ideal!Common'
    BY <1>2, <2>1, <2>2, SameCommon
  <2>4. stage'[SP] # "cascade" /\ (stage'[SP] # "failed" => ~(Cardinality(common) < conf.minK))
    BY <2>2
  <2> QED BY <1>1, <2>1, <2>2, <2>3, <2>4 DEF Agreed, Settling, SP
<1>3. ASSUME Moved(SP, Quietly, "cascade"), cand' = InFirst(round') PROVE Agreed'
  <2>1. stage'[SP] \in {"cascade", "failed"} /\ csv' = csv
    BY <1>3, SpMoves DEF Moved
  <2>2. InFirst(round)' = InFirst(round')
    BY <2>1 DEF InFirst, IdsOf
  <2> QED BY <1>1, <1>3, <2>1, <2>2 DEF Agreed, Settling, SP
<1>4. CASE Hashes
  <2>1. At(SP, "hashes") /\ Tell(SeenByAll)
    BY <1>4 DEF Hashes
  <2> QED BY <1>0, <1>2, <1>4, <2>1, TellOut, SeenIsCommon
<1>5. CASE Seed
  <2>1. stage[SP] = "seed" /\ cand' = ToSet(Got(SP, 1)) /\ round' = 1
    BY <1>5 DEF Seed, At
  <2>2. Letter(Star(0, SP), "set", Got(SP, 1))
    BY <1>0, <2>1, ProviderReads
  <2>3. Got(SP, 1) = csv[0]
    BY <2>2, LetterSound DEF Known, Star
  <2>4. cand' = InFirst(round')
    BY <2>1, <2>3, InFirstGrows DEF IdsOf
  <2> QED BY <1>0, <1>3, <1>5, <2>4, SeedOut
<1>6. CASE Cascade
  <2>1. stage[SP] = "cascade" /\ round # 0 /\ round \in 0..(N-1)
    BY <1>6 DEF Cascade, At, Shape, Rounds
  <2>2. round \in 1..(N-1)
    BY <2>1, Parties
  <2>3. Letter(Star(round, SP), "psi", Got(SP, 1))
    BY <1>0, <2>1, ProviderReads
  <2>4. Got(SP, 1) = csv[round]
    BY <2>3, LetterSound DEF Known, Star
  <2>5. Matched = InFirst(round + 1)
    BY <2>1, <2>2, <2>4, InFirstGrows DEF Matched, Agreed, IdsOf
  <2>6. CASE round = N-1
    <3>1. round + 1 = N
      BY <2>6, Parties
    <3> QED BY <1>0, <1>2, <1>6, <2>2, <2>5, <2>6, <3>1, CascadeOut, InFirstGrows
  <2>7. CASE round # N-1
    BY <1>0, <1>3, <1>6, <2>2, <2>5, <2>7, CascadeOut
  <2> QED BY <2>6, <2>7
<1> QED BY <1>4, <1>5, <1>6
-----------------------------------------------------------------------------
(* What the provider has put together when the last masks are revealed. *)
Landed(x, d, at, spot) ==
  /\ Soiled(N-1) => spot # 0
  /\ \A c \in Column : \A j \in 1..Tall : x[c][j] = Xor(Whole(c[1])[c][d[j]], Mark(N-1, c, j, at, spot))
Outcome(x) == Fine /\ \E d \in Orders(Tall) : \E at \in Column : \E spot \in 0..Tall : Landed(x, d, at, spot)
Opening == stage[SP] = "openings" => conf.integrity /\ Tall >= 2 /\ (Straight => Outcome(share[SP]))

\* It stays as long as the intersection does.
LEMMA OutcomeStays == ASSUME Steady, NEW x, Outcome(x) PROVE Outcome(x)'
<1>1. Tall' = Tall /\ (\A i : Whole(i)' = Whole(i)) /\ conf' = conf
  BY SameTall DEF Steady
<1>2. ASSUME NEW d, NEW at, NEW spot, Landed(x, d, at, spot) PROVE Landed(x, d, at, spot)'
  <2>1. \A c, j : Mark(N-1, c, j, at, spot)' = Mark(N-1, c, j, at, spot)
    BY <1>1 DEF Mark, Soiled
  <2>2. Soiled(N-1)' => Soiled(N-1)
    BY <1>1 DEF Soiled
  <2> QED BY <1>1, <1>2, <2>1, <2>2 DEF Landed
<1>3. Fine'
  BY SameBase DEF Outcome
<1> QED BY <1>1, <1>2, <1>3 DEF Outcome

\* The two shares of the last round, put together.
Sum == XorColumns(share[SP], Got(SP, 1))
\* The provider that reads the last masks has the contributions in one order.
LEMMA RevealOutcome ==
  ASSUME Shape, Known, Carried, stage[SP] = "reveal", Arrived(SP)
  PROVE  IsShare(Sum, Tall) /\ Tall \in Nat /\ Tall >= 2 /\ (Straight => Outcome(Sum))
<1> DEFINE b == Got(SP, 1)
<1>1. IsShare(share[SP], Tall) /\ Tall \in Nat
  BY TallNat DEF Known, SpKnown, Shuffling
<1>2. Letter(Reveal, "columns", b)
  BY ProviderReads
<1>3. Tall >= 2
  BY <1>2, LetterSound DEF Known
<1>4. IsShare(Sum, Tall) /\ SumOf(Sum, share[SP], b, Column, Tall)
  BY <1>1, XorShape DEF IsShare, Sum
<1> HIDE DEF b
<1>5. ASSUME Straight PROVE Outcome(Sum)
  <2>1. round = N-1 /\ N-1 \in 1..(N-1)
    BY Parties DEF Shape, Rounds
  <2>2. LeftAt(share[SP], N-1) /\ RightAt(b, N-1)
    BY <1>2, <2>1 DEF LeftAt, RightAt
  <2>3. Mixed(share[SP], b, N-1)
    BY <1>5, <2>1, <2>2 DEF Carried, Mixing
  <2>4. ASSUME NEW d, NEW at, NEW spot, Mingled(share[SP], b, N-1, d, at, spot) PROVE Landed(Sum, d, at, spot)
    BY <1>4, <2>4 DEF Mingled, Landed, SumOf
  <2> QED BY <2>3, <2>4 DEF Mixed, Outcome
<1> QED BY <1>1, <1>3, <1>4, <1>5

\* A step that leaves the provider's share alone.
LEMMA OpeningStays ==
  ASSUME Opening, conf' = conf, csv' = csv, cand' = cand, share'[SP] = share[SP],
         stage'[SP] = "openings" => stage[SP] = "openings"
  PROVE  Opening'
<1>1. ASSUME stage'[SP] = "openings" PROVE conf'.integrity /\ Tall' >= 2 /\ (Straight => Outcome(share[SP])')
  <2>1. Steady
    BY <1>1 DEF Steady, Told, ToldStages, SP
  <2>2. Tall' = Tall
    BY SameTall
  <2> QED BY <1>1, <2>1, <2>2, OutcomeStays DEF Opening
<1>2. Straight' <=> Straight
  BY DEF Straight
<1>3. Outcome(share[SP])' <=> Outcome(share[SP])'
  OBVIOUS
<1> QED BY <1>1, <1>2, <1>3 DEF Opening, SP
-----------------------------------------------------------------------------
(* The contributions of the ideal are those of the senders. *)
KeptApart(s, S) == \A k, l \in 1..Cardinality(S) : Kept(s, S)[k] = Kept(s, S)[l] => k = l
LEMMA KeptDistinct ==
  ASSUME NEW n \in Nat, NEW s, NEW S, S \subseteq 1..n, \A a, b \in S : s[a] = s[b] => a = b
  PROVE  KeptApart(s, S)
<1>1. IsFiniteSet(S) /\ Cardinality(S) \in Nat
  BY FS_Interval, FS_Subset, FS_CardinalityType, 1 \in Int, n \in Int
<1>0. S \in SUBSET (1..n)
  OBVIOUS
<1> DEFINE rank(k) == CHOOSE j \in S : Cardinality({m \in S : m <= j}) = k
<1>2. ASSUME NEW k \in 1..Cardinality(S) PROVE rank(k) \in S /\ Cardinality({m \in S : m <= rank(k)}) = k
  <2>1. \E j \in S : Cardinality({m \in S : m <= j}) = k
    BY <1>0, RankedAll DEF Ranked
  <2> QED BY <2>1
<1>4. Kept(s, S) = [k \in 1..Cardinality(S) |-> s[rank(k)]]
  BY DEF Kept
<1> HIDE DEF rank
<1>5. ASSUME NEW k \in 1..Cardinality(S), NEW l \in 1..Cardinality(S), Kept(s, S)[k] = Kept(s, S)[l]
      PROVE  k = l
  <2>1. s[rank(k)] = s[rank(l)]
    BY <1>4, <1>5
  <2>2. rank(k) = rank(l)
    BY <1>2, <2>1
  <2> QED BY <1>2, <2>2
<1> QED BY <1>5 DEF KeptApart

Positions(i, common) == {n \in DOMAIN csv[i] : csv[i][n] \in common}
LEMMA FileShape ==
  ASSUME Shape, NEW i \in Sender
  PROVE  /\ Len(csv[i]) \in Nat /\ DOMAIN csv[i] = 1..Len(csv[i])
         /\ \A m, n \in DOMAIN csv[i] : csv[i][m] = csv[i][n] => m = n
<1>1. csv[i] \in Seq(ToSet(csv[i])) /\ IsInjective(csv[i])
  BY FileAssumption DEF Shape
<1> QED BY <1>1 DEF IsInjective

LEMMA PositionsAre ==
  ASSUME Shape, NEW i \in Sender
  PROVE  Positions(i, Ideal!Common) \subseteq 1..Len(csv[i]) /\ Cardinality(Positions(i, Ideal!Common)) = Cardinality(Ideal!Common)
<1> DEFINE S == Positions(i, Ideal!Common)
           f == [n \in S |-> csv[i][n]]
<1>1. Len(csv[i]) \in Nat /\ DOMAIN csv[i] = 1..Len(csv[i]) /\ \A m, n \in DOMAIN csv[i] : csv[i][m] = csv[i][n] => m = n
  BY FileShape
<1>2. S \subseteq 1..Len(csv[i]) /\ \A n \in S : csv[i][n] \in Ideal!Common
  BY <1>1 DEF Positions
<1>3. IsFiniteSet(S)
  <2>1. IsFiniteSet(1..Len(csv[i]))
    BY <1>1, FS_Interval, 1 \in Int, Len(csv[i]) \in Int
  <2> QED BY <1>2, <2>1, FS_Subset
<1>4. \A id \in Ideal!Common : \E n \in S : csv[i][n] = id
  <2>1. \A id \in Ideal!Common : id \in ToSet(csv[i])
    BY CommonIs DEF IdsOf
  <2> QED BY <2>1 DEF ToSet, Positions
<1> HIDE DEF S
<1>5. f \in Bijection(S, Ideal!Common)
  <2>1. f \in [S -> Ideal!Common]
    BY <1>2
  <2>2. \A m, n \in S : f[m] = f[n] => m = n
    BY <1>1, <1>2
  <2>3. \A id \in Ideal!Common : \E n \in S : f[n] = id
    BY <1>4
  <2> HIDE DEF f
  <2>4. f \in Injection(S, Ideal!Common) /\ f \in Surjection(S, Ideal!Common)
    BY <2>1, <2>2, <2>3 DEF Injection, Surjection, IsInjective
  <2> QED BY <2>4 DEF Bijection
<1> HIDE DEF f
<1>6. Cardinality(S) = Cardinality(Ideal!Common)
  BY <1>3, <1>5, FS_Bijection DEF ExistsBijection
<1> QED BY <1>2, <1>6 DEF S

\* The operators of the ideal module's own instances are the same ones.
LEMMA IdealCount == \A S : Ideal!Cardinality(S) = Cardinality(S)
BY Zenon DEF Ideal!Cardinality, Cardinality

LEMMA IdealKept == ASSUME NEW s, NEW S PROVE Ideal!Kept(s, S) = Kept(s, S)
BY Zenon DEF Ideal!Kept, Kept, Ideal!Cardinality, Cardinality

LEMMA IdealIs ==
  /\ Ideal!Sender = Sender /\ Ideal!Column = Column
  /\ Ideal!Height = HeightOf(conf.pad, Ideal!Common) /\ Ideal!Orders = Orders(Ideal!Height)
  /\ \A i : Ideal!Mine(i) = Kept(csv[i], Positions(i, Ideal!Common))
<1>1. Ideal!Sender = Sender
  BY DEF Ideal!Sender, Sender
<1>2. Ideal!Column = Column
  BY <1>1 DEF Ideal!Column, Column
<1>3. Ideal!Height = HeightOf(conf.pad, Ideal!Common)
  BY IdealCount, Zenon DEF Ideal!Height, HeightOf, Ideal!Max, Max
<1>4. Ideal!Orders = Orders(Ideal!Height)
  BY Zenon DEF Ideal!Orders, Orders, Ideal!IsInjective, IsInjective
<1>5. ASSUME NEW i PROVE Ideal!Mine(i) = Kept(csv[i], Positions(i, Ideal!Common))
  BY IdealKept, Zenon DEF Ideal!Mine, Positions
<1> QED BY <1>1, <1>2, <1>3, <1>4, <1>5

\* A contribution as the senders compute it and as the ideal has it.
Payload(c, k) == {<<"payload", c[1], Kept(csv[c[1]], Positions(c[1], Ideal!Common))[k], c[1], c[2]>>}
Dummy(c, k) == {<<"dummy", c[1], k, c[1], c[2]>>}
CellOf(c, k) == IF k <= Cardinality(Ideal!Common) THEN Payload(c, k) ELSE Dummy(c, k)
\* A file lists a common id once, so no zero block is ever contributed.
LEMMA CellsAre ==
  ASSUME Shape, Known, cand = Ideal!Common, NEW c \in Column, NEW k \in 1..Tall
  PROVE  Whole(c[1])[c][k] = CellOf(c, k) /\ Ideal!Contribution(c, k) = CellOf(c, k)
<1> DEFINE i == c[1]
           S == Positions(i, Ideal!Common)
           mine == Kept(csv[i], S)
           n == Cardinality(Ideal!Common)
<1>1. i \in Sender /\ c \in Own(i)
  BY Owns
<1>2. S \subseteq 1..Len(csv[i]) /\ Cardinality(S) = n /\ Len(csv[i]) \in Nat
  BY <1>1, PositionsAre, FileShape
<1>3. n \in Nat /\ Len(mine) = n
  <2>1. Keeps(csv[i], S)
    BY <1>2, KeptElements
  <2> HIDE DEF S
  <2>2. Kept(csv[i], S) \in Seq({csv[i][m] : m \in S}) /\ Len(Kept(csv[i], S)) = Cardinality(S) /\ Cardinality(S) \in Nat
    <3> DEFINE h == Cardinality(S)
               A == {csv[i][m] : m \in S}
               x == Kept(csv[i], S)
    <3>1. h \in Nat /\ x \in [1..h -> A]
      BY <2>1 DEF Keeps
    <3> HIDE DEF h, A, x
    <3>2. x \in Seq(A) /\ Len(x) = h
      BY <3>1
    <3> QED BY <3>1, <3>2 DEF h, A, x
  <2> QED BY <1>2, <2>2
<1>4. Ideal!Contribution(c, k) = CellOf(c, k)
  <2>1. Ideal!Mine(i) = mine
    BY IdealIs
  <2>2. Ideal!Contribution(c, k) = IF k <= Len(Ideal!Mine(i)) THEN {<<"payload", c[1], Ideal!Mine(i)[k], c[1], c[2]>>} ELSE Dummy(c, k)
    BY Zenon DEF Ideal!Contribution, Dummy
  <2> QED BY <1>3, <2>1, <2>2 DEF CellOf, Payload
<1>5. Whole(i)[c][k] = CellOf(c, k)
  <2> DEFINE cell(d) == [m \in 1..Tall |-> IF m > n THEN Block("dummy", i, m, d)
                           ELSE IF m <= Len(mine) THEN Block("payload", i, mine[m], d) ELSE {}]
  <2>1. Whole(i) = [d \in Own(i) |-> cell(d)]
    BY Zenon DEF Whole, ContributionOf, Positions, Tall
  <2>2. Whole(i)[c] = cell(c)
    BY <1>1, <2>1
  <2>3. Whole(i)[c][k] = IF k > n THEN Block("dummy", i, k, c) ELSE IF k <= Len(mine) THEN Block("payload", i, mine[k], c) ELSE {}
    BY <2>2
  <2>4. k \in Nat
    OBVIOUS
  <2> HIDE DEF mine, n
  <2>5. (k > n <=> ~(k <= n)) /\ Len(mine) = n
    BY <1>3, <2>4
  <2>6. Whole(i)[c][k] = IF k <= n THEN Block("payload", i, mine[k], c) ELSE Block("dummy", i, k, c)
    BY <2>3, <2>5
  <2> QED BY <2>6 DEF CellOf, Payload, Dummy, Block, mine, n
<1> QED BY <1>4, <1>5

\* The rows of a contribution are told apart.
LEMMA CellsApart ==
  ASSUME Shape, Known, cand = Ideal!Common, NEW c \in Column, NEW k \in 1..Tall, NEW l \in 1..Tall,
         CellOf(c, k) = CellOf(c, l)
  PROVE  k = l
<1> DEFINE i == c[1]
           S == Positions(i, Ideal!Common)
           mine == Kept(csv[i], S)
           n == Cardinality(Ideal!Common)
<1>1. i \in Sender
  BY Owns
<1>2. S \subseteq 1..Len(csv[i]) /\ Cardinality(S) = n /\ Len(csv[i]) \in Nat
      /\ \A a, b \in DOMAIN csv[i] : csv[i][a] = csv[i][b] => a = b
      /\ DOMAIN csv[i] = 1..Len(csv[i])
  BY <1>1, PositionsAre, FileShape
<1>3. KeptApart(csv[i], S)
  BY <1>2, KeptDistinct
<1>4. \A p, q \in 1..n : mine[p] = mine[q] => p = q
  BY <1>2, <1>3 DEF KeptApart
<1>5. n \in Nat
  BY FS_CardinalityType DEF Known
<1> DEFINE atom(m) == IF m <= n THEN <<"payload", i, mine[m], c[1], c[2]>> ELSE <<"dummy", i, m, c[1], c[2]>>
<1>6. CellOf(c, k) = {atom(k)} /\ CellOf(c, l) = {atom(l)}
  BY DEF CellOf, Payload, Dummy
<1> HIDE DEF atom
<1>7. atom(k) = atom(l)
  <2>1. atom(k) \in {atom(l)}
    BY <1>6
  <2> QED BY <2>1
<1> HIDE DEF mine, n
<1>8. k <= n /\ l <= n => mine[k] = mine[l]
  BY <1>7 DEF atom
<1>9. ~(k <= n) /\ ~(l <= n) => k = l
  BY <1>7 DEF atom
<1>10. k <= n <=> l <= n
  BY <1>7 DEF atom
<1>11. k <= n => k \in 1..n
  BY <1>5
<1>12. l <= n => l \in 1..n
  BY <1>5
<1> QED BY <1>4, <1>8, <1>9, <1>10, <1>11, <1>12
-----------------------------------------------------------------------------
(* What the checks on the openings show of the columns. *)
RowAlike(x, y, i, k, l) == \A w \in 1..W : x[<<i, w>>][k] = y[<<i, w>>][l]
SameRows(x, y, i) ==
  /\ \A k \in 1..Tall : \E l \in 1..Tall : RowAlike(x, y, i, k, l)
  /\ \A l \in 1..Tall : \E k \in 1..Tall : RowAlike(x, y, i, k, l)

\* Equal sums over the rows are equal sets of rows.
LEMMA SumsShow == ASSUME NEW x, NEW y, NEW i, Sums(x, i, Tall) = Sums(y, i, Tall) PROVE SameRows(x, y, i)
<1> DEFINE row(f, k) == [w \in 1..W |-> f[<<i, w>>][k]]
           X == RowsOf(x, i, Tall)
           Y == RowsOf(y, i, Tall)
<1>1. Tally(X) = Tally(Y)
  <2>1. Sums(x, i, Tall).row = Tally(X) /\ Sums(y, i, Tall).row = Tally(Y)
    BY DEF Sums
  <2> QED BY <2>1
<1>2. X = [k \in 1..Tall |-> row(x, k)] /\ Y = [k \in 1..Tall |-> row(y, k)]
  BY DEF RowsOf
<1> HIDE DEF X, Y, row
<1>3. DOMAIN Tally(X) = ToSet(X) /\ DOMAIN Tally(Y) = ToSet(Y)
  BY DEF Tally
<1>4. ToSet(X) = {row(x, k) : k \in 1..Tall} /\ ToSet(Y) = {row(y, k) : k \in 1..Tall}
  BY <1>2 DEF ToSet
<1>5. {row(x, k) : k \in 1..Tall} = {row(y, k) : k \in 1..Tall}
  BY <1>1, <1>3, <1>4
<1>6. ASSUME NEW k, NEW l, row(x, k) = row(y, l) PROVE RowAlike(x, y, i, k, l)
  <2>1. ASSUME NEW w \in 1..W PROVE x[<<i, w>>][k] = y[<<i, w>>][l]
    <3>1. row(x, k)[w] = x[<<i, w>>][k] /\ row(y, l)[w] = y[<<i, w>>][l]
      BY DEF row
    <3> QED BY <1>6, <3>1
  <2> QED BY <2>1 DEF RowAlike
<1>7. \A k \in 1..Tall : \E l \in 1..Tall : row(x, k) = row(y, l)
  BY <1>5
<1>8. \A l \in 1..Tall : \E k \in 1..Tall : row(x, k) = row(y, l)
  BY <1>5
<1> QED BY <1>6, <1>7, <1>8 DEF SameRows

\* A sender's rows are all there, each once.
RowsInOrder(x, i, d) == \A k \in 1..Tall : RowAlike(x, Whole(i), i, k, d[k])
LEMMA RowOrder ==
  ASSUME Shape, Known, cand = Ideal!Common, Tall \in Nat, NEW x, NEW i \in Sender, SameRows(x, Whole(i), i)
  PROVE  \E d \in Orders(Tall) : RowsInOrder(x, i, d)
<1> DEFINE d == [k \in 1..Tall |-> CHOOSE l \in 1..Tall : RowAlike(x, Whole(i), i, k, l)]
           c == <<i, 1>>
<1>1. c \in Column /\ c[1] = i /\ 1 \in 1..W
  BY SizeAssumption DEF Column
<1>2. ASSUME NEW k \in 1..Tall PROVE d[k] \in 1..Tall /\ RowAlike(x, Whole(i), i, k, d[k])
  <2>1. \E l \in 1..Tall : RowAlike(x, Whole(i), i, k, l)
    BY DEF SameRows
  <2> QED BY <2>1
<1>3. d \in [1..Tall -> 1..Tall]
  BY <1>2
<1> HIDE DEF d
<1>4. ASSUME NEW l \in 1..Tall PROVE \E k \in 1..Tall : d[k] = l
  <2>1. PICK k \in 1..Tall : RowAlike(x, Whole(i), i, k, l)
    BY DEF SameRows
  <2>2. Whole(i)[c][l] = Whole(i)[c][d[k]]
    BY <1>1, <1>2, <2>1 DEF RowAlike
  <2> HIDE DEF c
  <2>3. CellOf(c, l) = CellOf(c, d[k])
    <3>1. Whole(c[1])[c][l] = CellOf(c, l) /\ Whole(c[1])[c][d[k]] = CellOf(c, d[k])
      BY <1>1, <1>2, CellsAre
    <3> QED BY <1>1, <2>2, <3>1
  <2>4. l = d[k]
    BY <1>1, <1>2, <2>3, CellsApart
  <2> QED BY <2>4
<1>5. d \in Surjection(1..Tall, 1..Tall)
  BY <1>3, <1>4 DEF Surjection
<1>6. IsFiniteSet(1..Tall)
  BY FS_Interval, 1 \in Int
<1>7. d \in Injection(1..Tall, 1..Tall)
  BY <1>5, <1>6, FS_Surjection
<1>8. d \in Orders(Tall)
  BY <1>3, <1>7 DEF Orders, Injection, IsInjective
<1> QED BY <1>2, <1>8 DEF RowsInOrder

\* A corrupted block is in no row of a contribution.
LEMMA NoGarble ==
  ASSUME Shape, Known, cand = Ideal!Common, NEW x, Outcome(x), \A i \in Sender : SameRows(x, Whole(i), i)
  PROVE  ~Soiled(N-1)
<1> SUFFICES ASSUME Soiled(N-1) PROVE FALSE
  OBVIOUS
<1>1. PICK d \in Orders(Tall) : \E at \in Column : \E spot \in 0..Tall : Landed(x, d, at, spot)
  BY DEF Outcome
<1>2. PICK at \in Column : \E spot \in 0..Tall : Landed(x, d, at, spot)
  BY <1>1
<1>3. PICK spot \in 0..Tall : Landed(x, d, at, spot)
  BY <1>2
<1>4. spot \in 1..Tall /\ d[spot] \in 1..Tall
  <2>1. spot \in 1..Tall
    BY <1>3 DEF Landed
  <2> QED BY <2>1 DEF Orders
<1> DEFINE g == <<"noise", conf.fault[2], 1, at[1], at[2]>>
<1>5. x[at][spot] = Xor(Whole(at[1])[at][d[spot]], {g})
  <2>1. Mark(N-1, at, spot, at, spot) = {g}
    BY DEF Mark, Garble
  <2> QED BY <1>3, <1>4, <2>1 DEF Landed
<1>6. at = <<at[1], at[2]>> /\ at[1] \in Sender /\ at[2] \in 1..W
  BY DEF Column
<1>7. PICK l \in 1..Tall : RowAlike(x, Whole(at[1]), at[1], spot, l)
  BY <1>4, <1>6 DEF SameRows
<1>8. x[at][spot] = Whole(at[1])[at][l]
  BY <1>6, <1>7 DEF RowAlike
<1>9. ASSUME NEW k \in 1..Tall PROVE g \notin Whole(at[1])[at][k]
  <2>1. Whole(at[1])[at][k] = CellOf(at, k)
    BY CellsAre
  <2>2. g \notin CellOf(at, k)
    BY DEF CellOf, Payload, Dummy
  <2> QED BY <2>1, <2>2
<1> HIDE DEF g
<1>10. g \in Xor(Whole(at[1])[at][d[spot]], {g})
  BY <1>4, <1>9 DEF Xor, SymDiff
<1> QED BY <1>5, <1>8, <1>9, <1>10

\* Sender 0 refuses masks that are not those committed to.
LEMMA FineIs == ASSUME Shape, Fine, Tall \in Nat, Tall >= 2 PROVE conf.fault[1] # "reopens"
<1> SUFFICES ASSUME conf.fault[1] = "reopens" PROVE FALSE
  OBVIOUS
<1>1. PICK n \in 1..(N-1) : conf.fault = <<"reopens", n>>
  BY FaultAssumption DEF Shape
<1>2. n \in Sender
  BY Parties DEF Sender
<1>3. Fresh("other", n, Tall, Own(n)) = Fresh("mask", n, Tall, Own(n))
  BY <1>1 DEF Fine, OpenedOf, MaskOf, Mask
<1>4. <<n, 1>> \in Own(n) /\ 1 \in 1..Tall
  BY <1>2, Owns
<1>5. Block("other", n, 1, <<n, 1>>) = Block("mask", n, 1, <<n, 1>>)
  <2>1. \A kind : Fresh(kind, n, Tall, Own(n))[<<n, 1>>][1] = Block(kind, n, 1, <<n, 1>>)
    BY <1>4 DEF Fresh
  <2> QED BY <1>3, <2>1
<1>6. <<"other", n, 1, n, 1>> \in {<<"mask", n, 1, n, 1>>}
  BY <1>5 DEF Block
<1> QED BY <1>6
-----------------------------------------------------------------------------
(* The step that writes the table is the ideal's. *)
Arranges(order, x) ==
  /\ order \in [Sender -> Orders(Tall)]
  /\ \A c \in Column : \A k \in 1..Tall : x[c][k] = Whole(c[1])[c][order[c[1]][k]]

\* Such columns are a table of the ideal.
LEMMA TableIs ==
  ASSUME Shape, Known, cand = Ideal!Common, NEW x, IsShare(x, Tall), NEW order, Arranges(order, x)
  PROVE  x = Ideal!InOrder(order)
<1> DEFINE col(c) == [k \in 1..Tall |-> Ideal!Contribution(c, order[c[1]][k])]
<1>1. Ideal!Column = Column /\ Ideal!Height = Tall
  BY IdealIs DEF Tall
<1>2. Ideal!InOrder(order) = [c \in Column |-> col(c)]
  BY <1>1, Zenon DEF Ideal!InOrder
<1>3. ASSUME NEW c \in Column PROVE x[c] = col(c)
  <2>1. ASSUME NEW k \in 1..Tall PROVE x[c][k] = Ideal!Contribution(c, order[c[1]][k])
    <3>1. order[c[1]][k] \in 1..Tall
      BY Owns DEF Arranges, Orders
    <3>2. Whole(c[1])[c][order[c[1]][k]] = Ideal!Contribution(c, order[c[1]][k])
      BY <3>1, CellsAre
    <3> QED BY <3>2 DEF Arranges
  <2>2. x[c] = [k \in 1..Tall |-> x[c][k]]
    BY DEF IsShare, Spanning, IsColumn
  <2> QED BY <2>1, <2>2
<1>4. x = [c \in Column |-> x[c]]
  BY DEF IsShare, Spanning
<1> HIDE DEF col
<1> QED BY <1>2, <1>3, <1>4

\* All columns in one order, unless a driver routed some by another.
LEMMA Arrangements ==
  ASSUME Shape, Known, cand = Ideal!Common, Tall \in Nat, NEW x, Straight => Outcome(x) /\ ~Soiled(N-1),
         ~Straight => \A i \in Sender : SameRows(x, Whole(i), i)
  PROVE  \E order \in Ideal!Shuffles : Arranges(order, x)
<1>0. Ideal!Sender = Sender /\ Ideal!Orders = Orders(Tall)
  BY IdealIs DEF Tall
<1>1. Ideal!Shuffles = IF Straight THEN {[i \in Sender |-> d] : d \in Orders(Tall)} ELSE [Sender -> Orders(Tall)]
  BY <1>0, Zenon DEF Ideal!Shuffles, Straight
<1>2. CASE Straight
  <2>1. PICK d \in Orders(Tall) : \E at \in Column : \E spot \in 0..Tall : Landed(x, d, at, spot)
    BY <1>2 DEF Outcome
  <2>2. \A c \in Column : \A k \in 1..Tall : x[c][k] = Whole(c[1])[c][d[k]]
    <3>1. ASSUME NEW c \in Column, NEW k \in 1..Tall PROVE x[c][k] = Whole(c[1])[c][d[k]]
      <4>1. \A at, spot : Mark(N-1, c, k, at, spot) = {}
        BY <1>2 DEF Mark
      <4>2. x[c][k] = Xor(Whole(c[1])[c][d[k]], {})
        BY <2>1, <4>1 DEF Landed
      <4> QED BY <4>2, XorLaws
    <3> QED BY <3>1
  <2> DEFINE order == [i \in Sender |-> d]
  <2>3. \A i \in Sender : order[i] = d
    OBVIOUS
  <2>4. order \in [Sender -> Orders(Tall)] /\ order \in Ideal!Shuffles
    BY <1>1, <1>2
  <2> HIDE DEF order
  <2>5. Arranges(order, x)
    BY <2>2, <2>3, <2>4, Owns DEF Arranges
  <2> QED BY <2>4, <2>5
<1>3. CASE ~Straight
  <2> DEFINE order == [i \in Sender |-> CHOOSE d \in Orders(Tall) : RowsInOrder(x, i, d)]
  <2>1. ASSUME NEW i \in Sender PROVE order[i] \in Orders(Tall) /\ RowsInOrder(x, i, order[i])
    <3>1. \E d \in Orders(Tall) : RowsInOrder(x, i, d)
      BY <1>3, RowOrder
    <3> QED BY <3>1
  <2>2. order \in [Sender -> Orders(Tall)]
    BY <2>1
  <2> HIDE DEF order
  <2>3. ASSUME NEW c \in Column, NEW k \in 1..Tall PROVE x[c][k] = Whole(c[1])[c][order[c[1]][k]]
    <3>1. c = <<c[1], c[2]>> /\ c[1] \in Sender /\ c[2] \in 1..W
      BY DEF Column
    <3>2. RowAlike(x, Whole(c[1]), c[1], k, order[c[1]][k])
      BY <2>1, <3>1 DEF RowsInOrder
    <3> QED BY <3>1, <3>2 DEF RowAlike
  <2>4. Arranges(order, x)
    BY <2>2, <2>3 DEF Arranges
  <2> QED BY <1>1, <1>3, <2>2, <2>4
<1> QED BY <1>2, <1>3

\* A table that the provider writes.
LEMMA Published ==
  ASSUME Shape, Known, Agreed, Sworn, stage[SP] \in {"reveal", "openings"}, Tall \in Nat, Tall >= 2,
         NEW x, IsShare(x, Tall), Straight => Outcome(x),
         conf.integrity => \A i \in Sender : SameRows(x, Whole(i), i),
         conf' = conf, csv' = csv, table' = x
  PROVE  Ideal!Publish
<1>1. cand = Ideal!Common /\ ~(Cardinality(cand) < conf.minK) /\ table = NoTable
  BY DEF Agreed, Settling, Ended
<1>2. Ideal!Height = Tall /\ Ideal!Cardinality(Ideal!Common) = Cardinality(cand)
  BY <1>1, IdealIs, IdealCount DEF Tall
<1>3. conf \in Confs
  BY DEF Shape
<1>4. conf.fault[1] # "forges"
  <2> SUFFICES ASSUME conf.fault[1] = "forges" PROVE FALSE
    OBVIOUS
  <2>1. conf.auth /\ conf.fault \in {"forges"} \X Party
    BY <1>3, FaultAssumption
  <2>2. \A p \in Party : Genuine(p)
    BY <2>1 DEF Sworn, Unsworn
  <2> QED BY <2>1, <2>2 DEF Genuine
<1>5. Straight => conf.fault[1] # "reopens"
  BY FineIs DEF Outcome
<1>6. conf.fault[1] = "garbles" => conf.integrity /\ Soiled(N-1) /\ Straight
  <2> SUFFICES ASSUME conf.fault[1] = "garbles" PROVE conf.integrity /\ Soiled(N-1) /\ Straight
    OBVIOUS
  <2>1. conf.integrity /\ conf.fault \in {"garbles"} \X (0..(N-2))
    BY <1>3, FaultAssumption
  <2>2. (N-1)-1 = N-2
    BY Parties
  <2> QED BY <2>1, <2>2 DEF Soiled, Straight
<1>7. Soiled(N-1) => conf.fault[1] = "garbles"
  BY DEF Soiled
<1>8. ~Straight => conf.fault[1] = "misroutes" /\ conf.integrity
  BY <1>3, FaultAssumption DEF Straight
<1>9. Straight => ~Soiled(N-1)
  BY <1>1, <1>6, <1>7, NoGarble
<1>10. conf.fault[1] \notin {"forges", "reopens", "garbles"}
  BY <1>4, <1>5, <1>6, <1>8, <1>9
<1>11. PICK order \in Ideal!Shuffles : Arranges(order, x)
  BY <1>1, <1>8, <1>9, Arrangements
<1>12. table' = Ideal!InOrder(order)
  BY <1>1, <1>11, TableIs
<1>13. conf.minK \in Nat /\ Cardinality(cand) \in Nat
  BY <1>3, FlagAssumption, FS_CardinalityType DEF Known
<1>14. Ideal!Cardinality(Ideal!Common) >= conf.minK
  BY <1>1, <1>2, <1>13
<1> QED BY <1>1, <1>2, <1>10, <1>12, <1>14 DEF Ideal!Publish
-----------------------------------------------------------------------------
(* Every step is the ideal's, or none of its. *)
Stutters == conf' = conf /\ csv' = csv /\ table' = table
Held == Agreed /\ Opening

\* The steps that write no table,
LEMMA QuietHeld == ASSUME Shape, Held, Quiet PROVE Held' /\ Stutters
<1>1. conf' = conf /\ csv' = csv /\ UNCHANGED data
  BY DEF Quiet
<1>2. cand' = cand /\ share' = share /\ round' = round /\ table' = table
  BY <1>1 DEF data
<1>3. stage'[SP] = stage[SP] \/ stage'[SP] = "failed" \/ (stage[SP] \in Early(SP) /\ stage'[SP] \in Early(SP))
  BY QuietStages
<1>4. \A s \in Early(SP) : s # "cascade" /\ s # "openings" /\ s \notin Settling \cup Ended
  BY DEF Early, Settling, Ended
<1>5. /\ stage'[SP] = "cascade" => stage[SP] = "cascade"
      /\ stage'[SP] = "openings" => stage[SP] = "openings"
      /\ stage'[SP] \in Settling => stage[SP] \in Settling
      /\ stage[SP] \in Ended => stage'[SP] \in Ended
  BY <1>3, <1>4 DEF Settling, Ended
<1>6. Agreed'
  BY <1>1, <1>2, <1>5, AgreedStays DEF Held
<1>7. Opening'
  BY <1>1, <1>2, <1>5, OpeningStays DEF Held
<1> QED BY <1>1, <1>2, <1>6, <1>7 DEF Held, Stutters

LEMMA LoudOfHeld == ASSUME Shape, Known, Held, NEW i \in Sender, LoudOf(i) PROVE Held' /\ Stutters
<1>1. UNCHANGED <<conf, csv, cand, claims, round, table>> /\ stage'[SP] = stage[SP] /\ share'[SP] = share[SP]
  BY LoudOfKeeps
<1>2. Agreed'
  BY <1>1, AgreedStays DEF Held
<1>3. Opening'
  BY <1>1, OpeningStays DEF Held
<1> QED BY <1>1, <1>2, <1>3 DEF Held, Stutters

LEMMA TellHeld == ASSUME Shape, Known, Held, Hashes \/ Seed \/ Cascade PROVE Held' /\ Stutters
<1>0. Queues(wire) /\ table' = table
  BY DEF Shape, Hashes, Seed, Cascade
<1>1. ASSUME NEW S, NEW next, Moved(SP, S, next), next # "openings"
      PROVE  Opening' /\ conf' = conf /\ csv' = csv
  <2>1. stage'[SP] \in {next, "failed"} /\ conf' = conf /\ csv' = csv
    BY <1>1, SpMoves DEF Moved
  <2> QED BY <1>1, <2>1 DEF Opening, SP
<1>2. ASSUME NEW common, Telling(common) PROVE Opening' /\ conf' = conf /\ csv' = csv
  <2>1. PICK next : Moved(SP, ToAll("result", common), next) /\ next \in {"failed", "masked"}
    BY <1>2 DEF Telling
  <2> QED BY <1>1, <2>1
<1>3. Opening' /\ conf' = conf /\ csv' = csv
  <2>1. CASE Hashes
    <3>1. At(SP, "hashes") /\ Tell(SeenByAll)
      BY <2>1 DEF Hashes
    <3> QED BY <1>0, <1>2, <2>1, <3>1, TellOut
  <2>2. CASE Seed
    BY <1>0, <1>1, <2>2, SeedOut
  <2>3. CASE Cascade
    <3>1. round # 0 /\ round \in 0..(N-1)
      BY <2>3 DEF Cascade, At, Shape, Rounds
    <3>2. round \in 1..(N-1)
      BY <3>1, Parties
    <3> QED BY <1>0, <1>1, <1>2, <2>3, <3>2, CascadeOut
  <2> QED BY <2>1, <2>2, <2>3
<1>4. Agreed'
  BY TellAgreed DEF Held
<1> QED BY <1>0, <1>3, <1>4 DEF Held, Stutters

LEMMA RoundHeld == ASSUME Shape, Held, Masked \/ Round PROVE Held' /\ Stutters
<1>0. Queues(wire) /\ cand' = cand /\ table' = table /\ stage[SP] \in {"masked", "round"}
  BY DEF Shape, Masked, Round, At
<1>1. PICK next \in {"round", "reveal"} : At(SP, stage[SP]) /\ Move(SP, <<>>, next)
  BY DEF Masked, Round, At
<1>2. Settled(SP, next)
  BY <1>0, <1>1, SilentOut DEF Moved
<1>3. stage'[SP] \in {"round", "reveal", "failed"} /\ conf' = conf /\ csv' = csv
  BY <1>1, <1>2, SpMoves
<1>4. Agreed'
  BY <1>0, <1>3, AgreedStays DEF Held, Settling, Ended
<1>5. Opening'
  BY <1>3 DEF Opening, SP
<1> QED BY <1>0, <1>3, <1>4, <1>5 DEF Held, Stutters

\* A table that is written ends the session.
LEMMA EndAgreed == ASSUME cand' = cand, stage'[SP] \in Ended PROVE Held'
<1>1. stage'[SP] # "cascade" /\ stage'[SP] # "openings" /\ stage'[SP] \notin Settling
  BY DEF Ended, Settling
<1> QED BY <1>1 DEF Held, Agreed, Opening, SP

\* ... the one that writes it when there is nothing to check,
LEMMA RevealedHeld ==
  ASSUME Shape, Known, Carried, Sworn, Held, Revealed PROVE Held' /\ (Stutters \/ Ideal!Publish)
<1>0. Queues(wire) /\ cand' = cand /\ stage[SP] = "reveal" /\ Arrived(SP) /\ At(SP, "reveal")
  BY DEF Shape, Revealed, At
<1>1. IsShare(Sum, Tall) /\ Tall \in Nat /\ Tall >= 2 /\ (Straight => Outcome(Sum))
  BY <1>0, RevealOutcome
<1>2. ASSUME NEW next, Move(SP, <<>>, next)
      PROVE  stage'[SP] \in {next, "failed"} /\ conf' = conf /\ csv' = csv
  <2>1. Settled(SP, next)
    BY <1>0, <1>2, SilentOut DEF Moved
  <2> QED BY <2>1, SpMoves
<1>3. CASE conf.integrity
  <2>1. share' = [share EXCEPT ![SP] = Sum] /\ Move(SP, <<>>, "openings") /\ table' = table
    BY <1>3 DEF Revealed, Sum
  <2>2. stage'[SP] \in {"openings", "failed"} /\ conf' = conf /\ csv' = csv
    BY <1>2, <2>1
  <2>3. share'[SP] = Sum
    BY <2>1, Parties DEF Known, ShareKnown
  <2>4. Agreed'
    BY <1>0, <2>1, <2>2, AgreedStays DEF Held, Settling, Ended
  <2>5. Opening'
    <3>1. ASSUME stage'[SP] = "openings"
          PROVE  conf'.integrity /\ Tall' >= 2 /\ (Straight => Outcome(share[SP])')
      <4>1. Steady
        BY <1>0, <2>2, <3>1 DEF Steady, Told, ToldStages, SP
      <4>2. Tall' = Tall
        BY <1>0, <2>2, SameTall
      <4>3. PICK x : x = Sum
        OBVIOUS
      <4>4. Straight => Outcome(x)'
        BY <1>1, <4>1, <4>3, OutcomeStays
      <4>5. x = share'[SP]
        BY <2>3, <4>3
      <4>6. Straight => Outcome(share[SP])'
        BY <4>4, <4>5 DEF Outcome, Landed, SP
      <4> QED BY <1>1, <1>3, <2>2, <4>2, <4>6
    <3>2. Straight' <=> Straight
      BY <2>2 DEF Straight
    <3> QED BY <3>1, <3>2 DEF Opening, SP
  <2> QED BY <2>1, <2>2, <2>4, <2>5 DEF Held, Stutters
<1>4. CASE ~conf.integrity
  <2>1. table' = Sum /\ Move(SP, <<>>, "done")
    BY <1>4 DEF Revealed, Sum
  <2>2. stage'[SP] \in Ended /\ conf' = conf /\ csv' = csv
    BY <1>2, <2>1 DEF Ended
  <2>3. Ideal!Publish
    BY <1>0, <1>1, <1>4, <2>1, <2>2, Published DEF Held
  <2> QED BY <1>0, <2>2, <2>3, EndAgreed
<1> QED BY <1>3, <1>4

\* ... and the one that writes it after the checks.
LEMMA OpeningsHeld ==
  ASSUME Shape, Known, Sworn, Held, Openings PROVE Held' /\ (Stutters \/ Ideal!Publish)
<1>0. Queues(wire) /\ cand' = cand /\ stage[SP] = "openings" /\ At(SP, "openings")
  BY DEF Shape, Openings, At
<1>1. PICK next \in {"done", "failed"} : Move(SP, <<>>, next)
  BY DEF Openings
<1>2. stage'[SP] \in Ended /\ conf' = conf /\ csv' = csv
  <2>1. Settled(SP, next)
    BY <1>0, <1>1, SilentOut DEF Moved
  <2> QED BY <1>1, <2>1, SpMoves DEF Ended
<1>3. CASE table' = table
  BY <1>0, <1>2, <1>3, EndAgreed DEF Stutters
<1>4. CASE table' # table
  <2>1. table' = share[SP] /\ \A i \in Sender : Verified(i)
    BY <1>4 DEF Openings
  <2>2. conf.integrity /\ Tall >= 2 /\ Tall \in Nat /\ (Straight => Outcome(share[SP]))
    BY <1>0, TallNat DEF Held, Opening, Known
  <2>3. IsShare(share[SP], Tall) /\ \A i \in Sender : claims[i] = Sums(Whole(i), i, Tall)
    BY <1>0, <2>2 DEF Known, SpKnown, Shuffling
  <2>4. ASSUME NEW i \in Sender PROVE SameRows(share[SP], Whole(i), i)
    <3>1. Sums(share[SP], i, Height(cand)) = claims[i]
      BY <2>1 DEF Verified
    <3>2. Sums(share[SP], i, Tall) = Sums(Whole(i), i, Tall)
      BY <2>3, <3>1, HeightIs DEF Tall
    <3> QED BY <3>2, SumsShow
  <2>5. Ideal!Publish
    BY <1>0, <1>2, <2>1, <2>2, <2>3, <2>4, Published DEF Held
  <2> QED BY <1>0, <1>2, <2>5, EndAgreed
<1> QED BY <1>3, <1>4

LEMMA StepsHeld ==
  ASSUME IInv, Sworn, Held, [Next]_vars PROVE Held' /\ (Stutters \/ Ideal!Publish)
<1>0. Shape /\ Known /\ Carried
  BY DEF IInv
<1>1. CASE Quiet
  BY <1>0, <1>1, QuietHeld
<1>2. CASE Loud
  <2>1. CASE Hashes \/ Seed \/ Cascade
    BY <1>0, <2>1, TellHeld
  <2>2. CASE Masked \/ Round
    BY <1>0, <2>2, RoundHeld
  <2>3. CASE Revealed
    BY <1>0, <2>3, RevealedHeld
  <2>4. CASE Openings
    BY <1>0, <2>4, OpeningsHeld
  <2> QED BY <1>2, <2>1, <2>2, <2>3, <2>4 DEF Loud
<1>3. ASSUME NEW i \in Sender, LoudOf(i) PROVE Held' /\ Stutters
  BY <1>0, <1>3, LoudOfHeld
<1> QED BY <1>0, <1>1, <1>2, <1>3, StepKinds

LEMMA HeldInit == ASSUME Init PROVE Held
<1>1. stage[SP] = "greet" /\ table = NoTable
  BY Parties DEF Init
<1> QED BY <1>1 DEF Held, Agreed, Opening, Settling

RInv == IInv /\ Sworn /\ Held
(* A session implements IdealMpsa: the provider writes one table or none, of the
   ids that all files have, if they are as many as minK and two with the padding;
   each sender's contribution is in it whole, all in one order (when a driver
   misroutes columns, whole senders in orders of their own), and no table is
   written in a session with a forged signature, masks other than those committed
   to or a corrupted block. *)
THEOREM Refinement == Spec => Implements
<1>1. Init => RInv
  BY ShapeInit, KnownInit, CarriedInit, SwornInit, HeldInit DEF RInv, IInv
<1>2. RInv /\ [Next]_vars => RInv'
  <2>1. SUFFICES ASSUME RInv, [Next]_vars PROVE RInv'
    OBVIOUS
  <2>2. IInv'
    BY <2>1, ShapeNext, KnownNext, CarriedNext DEF RInv, IInv
  <2>3. Sworn'
    BY <2>1, SwornNext DEF RInv, IInv
  <2>4. Held'
    BY <2>1, StepsHeld DEF RInv
  <2> QED BY <2>2, <2>3, <2>4 DEF RInv
<1>3. RInv /\ [Next]_vars => [Ideal!Publish]_<<conf, csv, table>>
  BY StepsHeld DEF RInv, Stutters
<1>4. Init => Ideal!Init
  BY DEF Init, Ideal!Init
<1> QED BY <1>1, <1>2, <1>3, <1>4, PTL DEF Spec, Implements, Ideal!Spec
=============================================================================
